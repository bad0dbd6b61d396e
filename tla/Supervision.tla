---------------------------- MODULE Supervision ----------------------------
(***************************************************************************)
(* What one supervised exporter promises, whatever goroutines, sockets and *)
(* signals it is built from.  Every Start opens a fresh generation.  A     *)
(* generation is active until its context is cancelled, then it drains,    *)
(* then it is closed.  It owns at most one operating-system process at a   *)
(* time, only one generation is active at a time, and a closed generation  *)
(* owns no process and never will: that is what the closing of stoppedCh   *)
(* tells the goroutine that waits for it in Stop.                          *)
(***************************************************************************)
EXTENDS Naturals

CONSTANT Gens            \* the generations an instance may go through

VARIABLES phase,         \* phase[g]: "unused", "active", "draining", "closed"
          live           \* the generations that own a process

absvars == <<phase, live>>

AbsTypeOK == /\ phase \in [Gens -> {"unused", "active", "draining", "closed"}]
             /\ live \in SUBSET Gens

AbsInit == /\ phase = [g \in Gens |-> "unused"]
           /\ live = {}

\* A Start; under a context that is already cancelled it drains from the start.
Open(g) == /\ phase[g] = "unused"
           /\ \A h \in Gens : phase[h] # "active"
           /\ \E p \in {"active", "draining"} : phase' = [phase EXCEPT ![g] = p]
           /\ UNCHANGED live

\* A Stop cancels one generation, the manager's Shutdown all of them.
Revoke == \E G \in SUBSET Gens :
            /\ \A g \in G : phase[g] = "active"
            /\ phase' = [g \in Gens |-> IF g \in G THEN "draining" ELSE phase[g]]
            /\ UNCHANGED live

\* The context may be cancelled between the check and the fork.
Spawn(g) == /\ phase[g] \in {"active", "draining"}
            /\ g \notin live
            /\ live' = live \cup {g}
            /\ UNCHANGED phase

Die(g) == /\ g \in live
          /\ live' = live \ {g}
          /\ UNCHANGED phase

Close(g) == /\ phase[g] = "draining"
            /\ g \notin live
            /\ phase' = [phase EXCEPT ![g] = "closed"]
            /\ UNCHANGED live

AbsNext == Revoke \/ \E g \in Gens : Open(g) \/ Spawn(g) \/ Die(g) \/ Close(g)

AbsSpec == AbsInit /\ [][AbsNext]_absvars

\* At most one generation is active, and a closed one owns no process.
AbsSafe == /\ \A g, h \in Gens : phase[g] = "active" /\ phase[h] = "active" => g = h
           /\ \A g \in live : phase[g] \in {"active", "draining"}
=============================================================================
