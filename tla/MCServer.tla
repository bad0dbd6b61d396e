------------------------------ MODULE MCServer ------------------------------
(***************************************************************************)
(* Server for TLC: one id and two targets for it.  The second report of    *)
(* the raw endpoint restarts the instance; one of the completed endpoint   *)
(* after one of the raw one keeps it, with new labels.                     *)
(***************************************************************************)
EXTENDS Server

Norm == [e \in {"raw", "full"} |-> "full"]
Two  == {[endpoint |-> "raw", netns |-> "", name |-> "vm", labels |-> "l1"],
         [endpoint |-> "full", netns |-> "", name |-> "vm", labels |-> "l2"]}
=============================================================================
