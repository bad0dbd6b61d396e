----------------------------- MODULE MCManager -----------------------------
(***************************************************************************)
(* Instances of Manager for TLC: an endpoint in its raw and in its         *)
(* normalized form, a network namespace, and labels that change.           *)
(***************************************************************************)
EXTENDS Manager, TLC

\* "10.0.0.5" is completed to "tcp://10.0.0.5:5555".
Norm == [e \in {"raw", "full"} |-> "full"]

T(e, n, l) == [endpoint |-> e, netns |-> n, name |-> "vm", labels |-> l]
RawAndFull == {T("raw", "", "l1"), T("full", "", "l1")}
ThreeKinds == {T("raw", "", "l1"), T("full", "", "l2"), T("full", "tenant", "l2")}

Symmetry == Permutations(Loops) \cup Permutations(Ids)
=============================================================================
