-------------------------- MODULE Instance_proofs --------------------------
(***************************************************************************)
(* Theorems about Instance, for every number of Starts.                    *)
(***************************************************************************)
EXTENDS Instance, TLAPS

(***************************************************************************)
(* The inductive invariant.                                                *)
(***************************************************************************)
\* Before the first Start there is no loop to cancel.  The types alone are not
\* inductive: Stop adds cur to the cancelled loops.
Started == ctl = "new" <=> cur = None

Typed == TypeOK /\ Started

\* The loops are started in order, and every loop but the last is cancelled;
\* the last one is, once Stop has called its cancel function.
Order == /\ \A g \in Loops : pc[g] # "idle" <=> g <= cur
         /\ \A g \in Loops : g < cur => g \in cancelled
         /\ ctl \in {"term", "await", "unlink", "mark", "stopped"} => cur \in cancelled

\* A loop leaves only when it is cancelled.
Ends == \A g \in Loops : pc[g] \in {"quit", "closing", "done"} => Done(g)

\* A loop has a child exactly between the fork and the reaping.
Kids == \A g \in Loops : child[g] # "none" <=> pc[g] \in {"record", "wait"}

\* As long as no Stop has timed out, the last loop has the fields and the
\* socket file for itself, and a Stop that is past its wait has ended it too.
Sole == ~late =>
  /\ \A g \in Loops : g # cur \/ ctl \in {"unlink", "mark", "stopped"} => pc[g] \in {"idle", "done"}
  /\ \A g \in Loops : pc[g] = "wait" => pid = g
  /\ \A g \in Loops : pc[g] \in {"fork", "spawn", "record", "wait", "clear", "unlink", "abort"} => sock = g
  /\ ctl \in {"mark", "stopped"} => sock = None

IInv == Typed /\ Order /\ Ends /\ Kids /\ PidNamesChild /\ Sole

\* The invariant holds for a new instance.
LEMMA InvInit == Init => IInv
<1> SUFFICES ASSUME Init PROVE IInv
  OBVIOUS
<1> USE DEF Init, Loops, None
<1>1. Typed
  BY DEF Typed, TypeOK, Started, States, Alive, PCs, Stale, Gone
<1>2. Order /\ Ends /\ Kids
  BY MaxStartsAssumption DEF Order, Ends, Kids
<1>3. PidNamesChild /\ Sole
  BY DEF PidNamesChild, Sole
<1> QED BY <1>1, <1>2, <1>3 DEF IInv

(***************************************************************************)
(* The invariant is inductive: one step per action.                        *)
(***************************************************************************)

\* Every step of loops, caller, health loop and kernel preserves it.
LEMMA InvStep == IInv /\ [Next]_vars => IInv'
<1> SUFFICES ASSUME IInv, [Next]_vars PROVE IInv'
  OBVIOUS
<1> USE MaxStartsAssumption
    DEF IInv, Typed, TypeOK, Started, Order, Ends, Kids, PidNamesChild, Sole,
        States, PCs, Alive, Loops, None, Stale, Gone, Done, Goto, callerVars, loopVars
<1>1. ASSUME NEW g \in Loops, Check(g) PROVE IInv'
  BY <1>1 DEF Check
<1>2. ASSUME NEW g \in Loops, Begin(g) PROVE IInv'
  BY <1>2 DEF Begin
<1>3. ASSUME NEW g \in Loops, RemoveStale(g) PROVE IInv'
  BY <1>3 DEF RemoveStale
<1>4. ASSUME NEW g \in Loops, Listen(g) PROVE IInv'
  BY <1>4 DEF Listen
<1>5. ASSUME NEW g \in Loops, Fork(g) PROVE IInv'
  BY <1>5 DEF Fork
<1>6. ASSUME NEW g \in Loops, SpawnChild(g) PROVE IInv'
  BY <1>6 DEF SpawnChild
<1>7. ASSUME NEW g \in Loops, RecordPid(g) PROVE IInv'
  BY <1>7 DEF RecordPid
<1>8. ASSUME NEW g \in Loops, Reap(g) PROVE IInv'
  BY <1>8 DEF Reap
<1>9. ASSUME NEW g \in Loops, ClearPid(g) PROVE IInv'
  BY <1>9 DEF ClearPid
<1>10. ASSUME NEW g \in Loops, Unlink(g) PROVE IInv'
  BY <1>10 DEF Unlink
<1>11. ASSUME NEW g \in Loops, AfterExec(g) PROVE IInv'
  BY <1>11 DEF AfterExec
<1>12. ASSUME NEW g \in Loops, MarkRestarting(g) PROVE IInv'
  BY <1>12 DEF MarkRestarting
<1>13. ASSUME NEW g \in Loops, Backoff(g) PROVE IInv'
  BY <1>13 DEF Backoff
<1>14. ASSUME NEW g \in Loops, Quit(g) PROVE IInv'
  BY <1>14 DEF Quit
<1>15. ASSUME NEW g \in Loops, CloseStopped(g) PROVE IInv'
  BY <1>15 DEF CloseStopped
<1>16. ASSUME NEW g \in Loops, ChildExit(g) PROVE IInv'
  BY <1>16 DEF ChildExit, osUnchanged
<1>17. ASSUME NEW g \in Loops, WatcherKill(g) PROVE IInv'
  BY <1>17 DEF WatcherKill, osUnchanged
<1>18. CASE Start
  BY <1>18 DEF Start
<1>19. CASE StopRead
  BY <1>19 DEF StopRead
<1>20. CASE StopCancel
  BY <1>20 DEF StopCancel
<1>21. CASE StopTerm
  BY <1>21 DEF StopTerm
<1>22. CASE StopClosed
  BY <1>22 DEF StopClosed
<1>23. CASE StopTimeout
  BY <1>23 DEF StopTimeout
<1>24. CASE StopUnlink
  BY <1>24 DEF StopUnlink
<1>25. CASE StopMark
  BY <1>25 DEF StopMark
<1>26. CASE CancelParent
  BY <1>26 DEF CancelParent
<1>27. CASE HealthAnswer
  BY <1>27 DEF HealthAnswer
<1>28. CASE HealthSet
  BY <1>28 DEF HealthSet
<1>29. CASE UNCHANGED vars
  BY <1>29 DEF vars
<1> QED
  BY <1>1, <1>2, <1>3, <1>4, <1>5, <1>6, <1>7, <1>8, <1>9, <1>10, <1>11, <1>12, <1>13, <1>14, <1>15, <1>16, <1>17, <1>18, <1>19, <1>20, <1>21, <1>22, <1>23, <1>24, <1>25, <1>26, <1>27, <1>28, <1>29
  DEF Next, LoopStep, StopStep

\* The invariant holds in every behaviour of an instance.
THEOREM Invariance == Spec => []IInv
  BY InvInit, InvStep, PTL DEF Spec

(***************************************************************************)
(* What follows from it.                                                   *)
(***************************************************************************)

\* Every field keeps its type, however often the instance is started.
THEOREM TypeCorrect == Spec => []TypeOK
<1>1. IInv => TypeOK
  BY DEF IInv, Typed
<1> QED BY <1>1, Invariance, PTL

\* Every loop but the last one started is cancelled, timeouts or not.
THEOREM OneActiveLoopHolds == Spec => []OneActiveLoop
<1>1. IInv => OneActiveLoop
  BY DEF IInv, Typed, TypeOK, Order, OneActiveLoop, Loops, None
<1> QED BY <1>1, Invariance, PTL

\* A Stop that did not time out leaves no loop, no child, no pid, no file.
THEOREM StopLeavesNothingHolds == Spec => []StopLeavesNothing
<1>1. IInv => StopLeavesNothing
  BY DEF IInv, Typed, TypeOK, Kids, PidNamesChild, Sole, StopLeavesNothing
<1> QED BY <1>1, Invariance, PTL

\* One exporter process at a time until a Stop has timed out.
THEOREM OneProcessHolds == Spec => []OneProcess
<1>1. IInv => OneProcess
  BY DEF IInv, Kids, Sole, OneProcess
<1> QED BY <1>1, Invariance, PTL

\* The recorded pid is never one reaped long ago, timeouts or not.
THEOREM PidNamesChildHolds == Spec => []PidNamesChild
<1>1. IInv => PidNamesChild
  BY DEF IInv
<1> QED BY <1>1, Invariance, PTL

\* The child's listener is the one at SocketPath until a Stop has timed out.
THEOREM SocketServedHolds == Spec => []SocketServed
<1>1. IInv => SocketServed
  BY DEF IInv, Kids, Sole, SocketServed
<1> QED BY <1>1, Invariance, PTL

(***************************************************************************)
(* Instance implements Supervision.                                        *)
(***************************************************************************)

\* What each abstract phase says of a loop.
LEMMA PhaseOf ==
  ASSUME NEW g \in Loops
  PROVE  /\ pc[g] = "idle" <=> phase[g] = "unused"
         /\ pc[g] = "done" <=> phase[g] = "closed"
         /\ (pc[g] \notin {"idle", "done"} /\ Done(g)) <=> phase[g] = "draining"
         /\ (pc[g] \notin {"idle", "done"} /\ ~Done(g)) <=> phase[g] = "active"
  BY DEF phase

\* Moving between two inner points of a loop is invisible.
LEMMA InnerMove ==
  ASSUME TypeOK, UNCHANGED <<cancelled, parentDone>>,
         \A g \in Loops : /\ pc'[g] = "idle" <=> pc[g] = "idle"
                          /\ pc'[g] = "done" <=> pc[g] = "done"
  PROVE  phase' = phase
  BY DEF phase, Done

\* The generations that own a process depend on the children alone.
LEMMA SameChild == UNCHANGED child => UNCHANGED live
  BY DEF live

\* A loop step is a stutter, a Spawn, a Die or a Close.
LEMMA LoopRefines ==
  ASSUME IInv, NEW g \in Loops, LoopStep(g)
  PROVE  [Sup!AbsNext]_(Sup!absvars)
<1> USE DEF IInv, Typed, TypeOK, Goto, callerVars
<1>1. CASE Check(g) \/ Begin(g) \/ RemoveStale(g) \/ Listen(g) \/ Fork(g) \/ RecordPid(g)
  <2>1. UNCHANGED phase
    BY <1>1, InnerMove DEF Check, Begin, RemoveStale, Listen, Fork, RecordPid
  <2>2. UNCHANGED live
    BY <1>1, SameChild DEF Check, Begin, RemoveStale, Listen, Fork, RecordPid
  <2> QED BY <2>1, <2>2 DEF Sup!absvars
<1>2. CASE ClearPid(g) \/ Unlink(g) \/ AfterExec(g) \/ MarkRestarting(g) \/ Backoff(g) \/ Quit(g)
  <2>1. UNCHANGED phase
    BY <1>2, InnerMove DEF ClearPid, Unlink, AfterExec, MarkRestarting, Backoff, Quit
  <2>2. UNCHANGED live
    BY <1>2, SameChild DEF ClearPid, Unlink, AfterExec, MarkRestarting, Backoff, Quit
  <2> QED BY <2>1, <2>2 DEF Sup!absvars
<1>3. CASE SpawnChild(g)
  <2>1. UNCHANGED phase
    BY <1>3, InnerMove DEF SpawnChild
  <2>2. phase[g] \in {"active", "draining"}
    BY <1>3, PhaseOf DEF SpawnChild
  <2>3. CASE UNCHANGED child
    BY <2>1, <2>3, SameChild DEF Sup!absvars
  <2>4. CASE child' = [child EXCEPT ![g] = "running"]
    <3>1. child[g] = "none"
      BY <1>3 DEF SpawnChild, Kids
    <3>2. g \notin live /\ live' = live \cup {g}
      BY <2>4, <3>1 DEF live
    <3> QED BY <2>1, <2>2, <3>2 DEF Sup!AbsNext, Sup!Spawn
  <2> QED BY <1>3, <2>3, <2>4 DEF SpawnChild
<1>4. CASE Reap(g)
  <2>1. UNCHANGED phase
    BY <1>4, InnerMove DEF Reap
  <2>2. g \in live /\ live' = live \ {g}
    BY <1>4 DEF Reap, live
  <2> QED BY <2>1, <2>2 DEF Sup!AbsNext, Sup!Die
<1>5. CASE CloseStopped(g)
  <2>1. phase[g] = "draining"
    BY <1>5, PhaseOf DEF CloseStopped, Ends
  <2>2. g \notin live
    BY <1>5 DEF CloseStopped, Kids, live
  <2>3. phase' = [phase EXCEPT ![g] = "closed"]
    BY <1>5 DEF CloseStopped, phase, Done
  <2>4. UNCHANGED live
    BY <1>5, SameChild DEF CloseStopped
  <2> QED BY <2>1, <2>2, <2>3, <2>4 DEF Sup!AbsNext, Sup!Close
<1> QED BY <1>1, <1>2, <1>3, <1>4, <1>5 DEF LoopStep

\* Start opens the next generation, since all earlier ones are cancelled.
LEMMA StartRefines == IInv /\ Start => Sup!AbsNext
<1> SUFFICES ASSUME IInv, Start PROVE Sup!AbsNext
  OBVIOUS
<1> DEFINE n == cur + 1
<1> USE MaxStartsAssumption DEF IInv, Typed, TypeOK, Started, Order, Start, Loops, None
<1>1. n \in Loops /\ pc[n] = "idle"
  OBVIOUS
<1>2. phase[n] = "unused"
  BY <1>1, PhaseOf
<1>3. ASSUME NEW h \in Loops PROVE phase[h] # "active"
  <2>1. pc[h] = "idle" \/ h \in cancelled
    OBVIOUS
  <2> QED BY <2>1, PhaseOf DEF Done
<1>4. \E p \in {"active", "draining"} : phase' = [phase EXCEPT ![n] = p]
  <2>1. phase' = [phase EXCEPT ![n] = IF Done(n) THEN "draining" ELSE "active"]
    BY <1>1 DEF phase, Done
  <2> QED BY <2>1
<1>5. UNCHANGED live
  BY SameChild
<1> QED BY <1>1, <1>2, <1>3, <1>4, <1>5 DEF Sup!AbsNext, Sup!Open

\* A cancellation takes the loops it concerns out of the active phase.
LEMMA CancelRefines ==
  ASSUME TypeOK, StopCancel \/ CancelParent
  PROVE  Sup!AbsNext
<1> DEFINE G == {g \in Loops : phase[g] = "active" /\ Done(g)'}
<1> USE DEF StopCancel, CancelParent, loopVars, TypeOK
<1>1. phase' = [g \in Loops |-> IF g \in G THEN "draining" ELSE phase[g]]
  BY DEF phase, Done
<1>2. UNCHANGED live
  BY SameChild
<1>3. G \in SUBSET Loops /\ \A g \in G : phase[g] = "active"
  OBVIOUS
<1>4. \E H \in SUBSET Loops :
        /\ \A g \in H : phase[g] = "active"
        /\ phase' = [g \in Loops |-> IF g \in H THEN "draining" ELSE phase[g]]
  <2> HIDE DEF G
  <2> QED BY <1>1, <1>3
<1> QED BY <1>2, <1>4 DEF Sup!AbsNext, Sup!Revoke

\* Everything else is invisible.
LEMMA OtherRefines ==
  ASSUME TypeOK,
         \/ StopRead \/ StopTerm \/ StopClosed \/ StopTimeout \/ StopUnlink \/ StopMark
         \/ HealthAnswer \/ HealthSet \/ UNCHANGED vars
         \/ \E g \in Loops : ChildExit(g) \/ WatcherKill(g)
  PROVE  UNCHANGED Sup!absvars
<1> USE DEF StopRead, StopTerm, StopClosed, StopTimeout, StopUnlink, StopMark,
            HealthAnswer, HealthSet, vars, ChildExit, WatcherKill, osUnchanged, callerVars,
            loopVars, TypeOK, Alive
<1>1. UNCHANGED phase
  BY DEF phase, Done
<1>2. UNCHANGED live
  BY DEF live
<1> QED BY <1>1, <1>2 DEF Sup!absvars

\* A loop closes stoppedCh only when it is cancelled and its process is gone,
\* only one loop is active, and none of this depends on Stop's timer.
THEOREM Refinement == Spec => ImplementsSupervision
<1>1. Init => Sup!AbsInit
  BY DEF Init, Sup!AbsInit, phase, live
<1>2. IInv /\ [Next]_vars => [Sup!AbsNext]_(Sup!absvars)
  <2> SUFFICES ASSUME IInv, [Next]_vars PROVE [Sup!AbsNext]_(Sup!absvars)
    OBVIOUS
  <2>1. TypeOK
    BY DEF IInv, Typed
  <2> QED BY <2>1, LoopRefines, StartRefines, CancelRefines, OtherRefines DEF Next, StopStep
<1> QED BY <1>1, <1>2, Invariance, PTL DEF Spec, ImplementsSupervision, Sup!AbsSpec

(***************************************************************************)
(* What Supervision promises follows from its steps, and so holds of every *)
(* program that implements it, this one among them.                        *)
(***************************************************************************)
AbsInv == Sup!AbsTypeOK /\ Sup!AbsSafe

\* No step of Supervision breaks its promise.
LEMMA AbsStep == AbsInv /\ [Sup!AbsNext]_(Sup!absvars) => AbsInv'
<1> SUFFICES ASSUME AbsInv, [Sup!AbsNext]_(Sup!absvars) PROVE AbsInv'
  OBVIOUS
<1> USE DEF AbsInv, Sup!AbsTypeOK, Sup!AbsSafe
<1>1. ASSUME NEW g \in Loops, Sup!Open(g) PROVE AbsInv'
  <2>1. PICK p \in {"active", "draining"} : phase' = [phase EXCEPT ![g] = p]
    BY <1>1 DEF Sup!Open
  <2>2. phase[g] = "unused" /\ UNCHANGED live /\ \A h \in Loops : phase[h] # "active"
    BY <1>1 DEF Sup!Open
  <2> QED BY <2>1, <2>2
<1>2. CASE Sup!Revoke
  BY <1>2 DEF Sup!Revoke
<1>3. ASSUME NEW g \in Loops, Sup!Spawn(g) \/ Sup!Die(g) \/ Sup!Close(g) PROVE AbsInv'
  BY <1>3 DEF Sup!Spawn, Sup!Die, Sup!Close
<1>4. CASE UNCHANGED Sup!absvars
  BY <1>4 DEF Sup!absvars
<1> QED BY <1>1, <1>2, <1>3, <1>4 DEF Sup!AbsNext

\* One generation is active at a time and a closed one owns no process, in
\* whatever order generations open, drain, fork and close.
THEOREM SupervisionIsSafe == Sup!AbsSpec => [](Sup!AbsTypeOK /\ Sup!AbsSafe)
<1>1. Sup!AbsInit => AbsInv
  BY DEF Sup!AbsInit, AbsInv, Sup!AbsTypeOK, Sup!AbsSafe
<1>2. AbsInv <=> Sup!AbsTypeOK /\ Sup!AbsSafe
  BY DEF AbsInv
<1> QED BY <1>1, <1>2, AbsStep, PTL DEF Sup!AbsSpec

\* The loops of an Instance keep that promise: once stoppedCh is closed no
\* process of that loop is left, whatever runs beside it (instance.go 271-272).
THEOREM LoopsAreSafe == Spec => [](Sup!AbsTypeOK /\ Sup!AbsSafe)
  BY Refinement, SupervisionIsSafe, PTL DEF ImplementsSupervision

(***************************************************************************)
(* How far a cancelled loop is from its end.                               *)
(***************************************************************************)

\* The steps of the loop from a place to "done" once its context is cancelled,
\* on the longest way; those of its child until it is reaped.
Way(place) == CASE place = "done" -> 0    [] place = "closing" -> 1
                [] place = "quit" -> 2    [] place \in {"check", "after"} -> 3
                [] place \in {"backoff", "unlink", "abort"} -> 4
                [] place \in {"crashed", "clear"} -> 5
                [] place = "wait" -> 6    [] place = "record" -> 7
                [] place = "spawn" -> 8   [] place = "fork" -> 9
                [] place = "listen" -> 10 [] place = "stale" -> 11
                [] place = "begin" -> 12  [] place = "idle" -> 13
Dying(c) == CASE c = "none" -> 0 [] c = "zombie" -> 1 [] c = "killed" -> 2 [] c \in Alive -> 3

Left(g) == 4 * Way(pc[g]) + Dying(child[g])

\* The distance is a number, and depends on the loop and on its child alone.
LEMMA LeftIsNat ==
  /\ \A place \in PCs : Way(place) \in 0 .. 13
  /\ \A c \in Alive \cup {"none", "killed", "zombie"} : Dying(c) \in 0 .. 3
<1>1. \A place \in PCs : Way(place) \in 0 .. 13
  BY DEF Way, PCs
<1>2. \A c \in Alive \cup {"none", "killed", "zombie"} : Dying(c) \in 0 .. 3
  BY DEF Dying, Alive
<1> QED BY <1>1, <1>2

\* A cancelled loop that moves gets on by more than its child can throw it back.
LEMMA MoveGetsOn ==
  ASSUME TypeOK, TypeOK', NEW g \in Loops, Way(pc'[g]) < Way(pc[g])
  PROVE  Left(g)' < Left(g)
<1>1. Way(pc'[g]) \in 0 .. 13 /\ Way(pc[g]) \in 0 .. 13
  BY LeftIsNat DEF TypeOK
<1>2. Dying(child'[g]) \in 0 .. 3 /\ Dying(child[g]) \in 0 .. 3
  BY LeftIsNat DEF TypeOK
<1>3. Left(g)' = 4 * Way(pc'[g]) + Dying(child'[g])
  BY DEF Left, Way, Dying
<1> QED BY <1>1, <1>2, <1>3 DEF Left

\* Every step of a cancelled loop is a move towards its end.
LEMMA CancelledMoves ==
  ASSUME TypeOK, NEW g \in Loops, Done(g), LoopStep(g)
  PROVE  /\ Way(pc'[g]) < Way(pc[g])
         /\ \A h \in Loops \ {g} : pc'[h] = pc[h] /\ child'[h] = child[h]
<1> USE DEF TypeOK, Goto, Way
<1>1. CASE Check(g) \/ Begin(g) \/ RemoveStale(g) \/ Listen(g)
  BY <1>1 DEF Check, Begin, RemoveStale, Listen
<1>2. CASE Fork(g) \/ SpawnChild(g) \/ RecordPid(g) \/ Reap(g)
  BY <1>2 DEF Fork, SpawnChild, RecordPid, Reap
<1>3. CASE ClearPid(g) \/ Unlink(g) \/ AfterExec(g) \/ MarkRestarting(g)
  BY <1>3 DEF ClearPid, Unlink, AfterExec, MarkRestarting
<1>4. CASE Backoff(g) \/ Quit(g) \/ CloseStopped(g)
  BY <1>4 DEF Backoff, Quit, CloseStopped
<1> QED BY <1>1, <1>2, <1>3, <1>4 DEF LoopStep

\* A child gets nearer to its end by its own steps and by the signals of Stop.
LEMMA ChildGetsOn ==
  ASSUME TypeOK, TypeOK', NEW g \in Loops, pc'[g] = pc[g], Dying(child'[g]) <= Dying(child[g])
  PROVE  /\ Left(g)' <= Left(g)
         /\ Dying(child'[g]) < Dying(child[g]) => Left(g)' < Left(g)
<1>1. Way(pc[g]) \in 0 .. 13
  BY LeftIsNat DEF TypeOK
<1>2. Dying(child'[g]) \in 0 .. 3 /\ Dying(child[g]) \in 0 .. 3
  BY LeftIsNat DEF TypeOK
<1>3. Left(g)' = 4 * Way(pc[g]) + Dying(child'[g])
  BY DEF Left, Way, Dying
<1> QED BY <1>1, <1>2, <1>3 DEF Left

\* No other actor sends a cancelled loop back.
LEMMA OthersKeep ==
  ASSUME IInv, NEW g \in Loops, Done(g),
         \/ Start \/ StopStep \/ CancelParent \/ HealthAnswer \/ HealthSet \/ UNCHANGED vars
         \/ \E h \in Loops : ChildExit(h) \/ WatcherKill(h)
  PROVE  \/ Way(pc'[g]) < Way(pc[g])
         \/ pc'[g] = pc[g] /\ Dying(child'[g]) <= Dying(child[g])
<1> USE DEF IInv, Typed, TypeOK, Dying, Alive
<1>1. CASE Start
  <2>1. cur + 1 \in Loops /\ ~(cur + 1 <= cur)
    BY <1>1, MaxStartsAssumption DEF Start, Loops, None
  <2>2. pc[cur + 1] = "idle" /\ pc' = [pc EXCEPT ![cur + 1] = "check"] /\ child' = child
    BY <1>1, <2>1 DEF Start, Order
  <2> QED BY <2>2 DEF Way
<1>2. CASE StopStep
  BY <1>2 DEF StopStep, StopRead, StopCancel, StopTerm, StopClosed, StopTimeout, StopUnlink,
              StopMark, loopVars
<1>3. CASE CancelParent \/ HealthAnswer \/ HealthSet \/ UNCHANGED vars
  BY <1>3 DEF CancelParent, HealthAnswer, HealthSet, loopVars, vars
<1>4. ASSUME NEW h \in Loops, ChildExit(h) \/ WatcherKill(h)
      PROVE  pc'[g] = pc[g] /\ Dying(child'[g]) <= Dying(child[g])
  BY <1>4 DEF ChildExit, WatcherKill, osUnchanged
<1> QED BY <1>1, <1>2, <1>3, <1>4

\* A cancelled loop stays cancelled, every step of its goroutine, of its child
\* and of the watcher of its context brings it nearer to the end, and nobody
\* throws it back: neither Start nor Stop, whose timer it does not need, nor
\* another loop, nor the health check.  There are at most 55 such steps, so
\* that stoppedCh is closed if the goroutine, the child and the watcher go on
\* (instance.go 135-198 and 247-270).
THEOREM CancelledLoopGetsOn ==
  Spec => [][\A g \in Loops : Done(g) =>
               /\ Done(g)'
               /\ Left(g) \in 0 .. 55 /\ Left(g)' <= Left(g)
               /\ LoopStep(g) \/ ChildExit(g) \/ WatcherKill(g) => Left(g)' < Left(g)]_vars
<1>1. ASSUME IInv, IInv', [Next]_vars, NEW g \in Loops, Done(g)
      PROVE  /\ Done(g)'
             /\ Left(g) \in 0 .. 55 /\ Left(g)' <= Left(g)
             /\ LoopStep(g) \/ ChildExit(g) \/ WatcherKill(g) => Left(g)' < Left(g)
  <2>1. TypeOK /\ TypeOK'
    BY <1>1 DEF IInv, Typed
  <2>2. Way(pc[g]) \in 0 .. 13 /\ Dying(child[g]) \in 0 .. 3 /\ Left(g) \in 0 .. 55
    <3>1. Way(pc[g]) \in 0 .. 13 /\ Dying(child[g]) \in 0 .. 3
      BY <2>1, LeftIsNat DEF TypeOK
    <3> QED BY <3>1 DEF Left
  <2>3. Way(pc'[g]) \in 0 .. 13 /\ Dying(child'[g]) \in 0 .. 3 /\ Left(g)' \in 0 .. 55
    <3>1. Way(pc'[g]) \in 0 .. 13 /\ Dying(child'[g]) \in 0 .. 3
      BY <2>1, LeftIsNat DEF TypeOK
    <3>2. Left(g)' = 4 * Way(pc'[g]) + Dying(child'[g])
      BY DEF Left, Way, Dying
    <3> QED BY <3>1, <3>2
  <2>4. Done(g)'
    BY <1>1, <2>1 DEF Done, Next, LoopStep, Check, Begin, RemoveStale, Listen, Fork, SpawnChild,
                RecordPid, Reap, ClearPid, Unlink, AfterExec, MarkRestarting, Backoff, Quit,
                CloseStopped, Start, StopStep, StopRead, StopCancel, StopTerm, StopClosed,
                StopTimeout, StopUnlink, StopMark, CancelParent, HealthAnswer, HealthSet,
                ChildExit, WatcherKill, osUnchanged, callerVars, vars
  <2>5. LoopStep(g) => Left(g)' < Left(g)
    BY <1>1, <2>1, CancelledMoves, MoveGetsOn
  <2>6. ChildExit(g) \/ WatcherKill(g) => Left(g)' < Left(g)
    <3>1. ChildExit(g) \/ WatcherKill(g) => pc' = pc /\ Dying(child'[g]) < Dying(child[g])
      BY <2>1 DEF ChildExit, WatcherKill, osUnchanged, Dying, Alive, TypeOK
    <3> QED BY <2>1, <2>2, <2>3, <3>1, ChildGetsOn
  <2>7. ASSUME NEW h \in Loops, LoopStep(h), h # g PROVE pc'[g] = pc[g] /\ child'[g] = child[g]
    BY <2>1, <2>7 DEF TypeOK, Goto, LoopStep, Check, Begin, RemoveStale, Listen, Fork, SpawnChild,
                RecordPid, Reap, ClearPid, Unlink, AfterExec, MarkRestarting, Backoff, Quit,
                CloseStopped
  <2>8. Left(g)' <= Left(g)
    <3>1. \/ LoopStep(g) \/ Way(pc'[g]) < Way(pc[g])
          \/ pc'[g] = pc[g] /\ Dying(child'[g]) <= Dying(child[g])
      BY <1>1, <2>2, <2>7, OthersKeep DEF Next
    <3> QED BY <2>1, <2>2, <2>3, <2>5, <3>1, MoveGetsOn, ChildGetsOn
  <2> QED BY <2>2, <2>4, <2>5, <2>6, <2>8
<1>2. IInv /\ IInv' /\ [Next]_vars =>
        [\A g \in Loops : Done(g) =>
           /\ Done(g)'
           /\ Left(g) \in 0 .. 55 /\ Left(g)' <= Left(g)
           /\ LoopStep(g) \/ ChildExit(g) \/ WatcherKill(g) => Left(g)' < Left(g)]_vars
  BY <1>1
<1> QED BY <1>2, Invariance, PTL DEF Spec
=============================================================================
