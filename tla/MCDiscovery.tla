---------------------------- MODULE MCDiscovery ----------------------------
(***************************************************************************)
(* Two providers that agree on some ids: a target appears, moves from one  *)
(* provider to the other, is listed by both, and disappears.               *)
(***************************************************************************)
EXTENDS Discovery, TLC

CONSTANTS p1, p2, a, b

TwoProviders == {p1, p2}
TwoIds == {a, b}
Reports == (p1 :> <<{a}, {a, b}, {b}>>) @@ (p2 :> <<{b}, {b}, {}>>)
=============================================================================
