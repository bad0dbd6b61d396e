------------------------------- MODULE MCApp -------------------------------
(***************************************************************************)
(* App for TLC: one polled VM; two files, each with one static target of   *)
(* its own and a namespace of its own for everyone, and a third one in     *)
(* which static discovery is disabled.  A flag gives the default namespace *)
(* until it is lost to a reload.                                           *)
(***************************************************************************)
EXTENDS App, TLC

CONSTANTS vm, s1, s2, f1, f2, f3, n1, n2

StaticTargets == (f1 :> {s1}) @@ (f2 :> {s2}) @@ (f3 :> {})
Resolution == [c \in Configs |-> [id \in Ids |-> IF c.file = f1 /\ ~c.flags THEN n1 ELSE n2]]
=============================================================================
