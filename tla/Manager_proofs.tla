--------------------------- MODULE Manager_proofs ---------------------------
(***************************************************************************)
(* Theorems about Manager, for every set of ids, targets and loops.        *)
(***************************************************************************)
EXTENDS Manager, TLAPS

(***************************************************************************)
(* The inductive invariant.                                                *)
(***************************************************************************)
Holding == {"remove", "removing", "apply", "restarting", "stopping"}

\* Who holds m.mu is inside Reconcile or Shutdown; only main shuts down, and
\* it cancels the context first.
Locked ==
  /\ \A c \in Callers : step[c] \in Holding <=> mu = c
  /\ step["discovery"] \notin {"shutlock", "stopping", "exit"}
  /\ ctxDone <=> step["main"] \in {"shutlock", "stopping", "exit"}

\* The map and the loops: an instance owns its loop, alone.
Mapped ==
  /\ \A id \in Ids : loopOf[id] = NoLoop <=> target[id] = NoTarget
  /\ \A id \in Present : owner[loopOf[id]] = id

\* The child of the current loop of an instance was started for what that
\* instance serves now.
Fresh == \A g \in Loops : pc[g] = "up" /\ Current(g) => conf[g] = Served(target[owner[g]])

\* An instance is as a target has it.
AsListed(id, t) == Serves(target[id], t) /\ target[id].labels = t.labels

\* What Reconcile has done of its work.
Progress == \A c \in Callers :
  /\ step[c] \in {"removing", "restarting"} =>
       victim \in Present /\ loopOf[victim] \in cancelled
  /\ step[c] = "removing" => victim \notin DOMAIN goal
  /\ step[c] = "restarting" => victim \in todo
  /\ step[c] \in {"apply", "restarting"} =>
       /\ todo \subseteq DOMAIN goal
       /\ Present \subseteq DOMAIN goal
       /\ \A id \in DOMAIN goal \ todo : id \in Present /\ AsListed(id, goal[id])

\* Who stops loops cancels them, those of a Shutdown at once.
Stopping ==
  step["main"] = "stopping" => \A id \in Present : loopOf[id] \in cancelled

\* Before the shutdown, a current loop is cancelled only to be waited for.
Kept ==
  ~ctxDone => \A id \in Present :
    loopOf[id] \in cancelled =>
      victim = id /\ \E c \in Callers : step[c] \in {"removing", "restarting"}

Settled ==
  mu = "free" /\ ~ctxDone =>
    /\ Present = DOMAIN goal
    /\ \A id \in Present : AsListed(id, goal[id])

\* An instance has the endpoint and the namespace it was last desired with, if
\* that endpoint was a normalized one: of the list being applied if Reconcile
\* has left the instance behind, of the list before if it has not.
UnchangedBy(id, l) == id \in DOMAIN l /\ Normalized(l[id]) = l[id] => ~Changed(id, l[id])
Steady == \A id \in Present :
  /\ \A c \in Callers : /\ step[c] \in {"remove", "removing"} => UnchangedBy(id, former)
                        /\ step[c] \in {"apply", "restarting"} =>
                             UnchangedBy(id, IF id \in todo THEN former ELSE goal)
  /\ (\A c \in Callers : step[c] \notin {"remove", "removing", "apply", "restarting"})
       => UnchangedBy(id, goal)

IInv == /\ TypeOK /\ Locked /\ Mapped /\ NoLostLoop /\ Fresh /\ Progress /\ Stopping
        /\ Kept /\ Settled /\ QuietAfterShutdown /\ Steady

(***************************************************************************)
(* Facts about the data.                                                   *)
(***************************************************************************)

\* The desired map of a Reconcile sends ids to targets.
LEMMA DesiredFacts ==
  ASSUME NEW d \in Desired
  PROVE  /\ DOMAIN d \subseteq Ids
         /\ \A id \in DOMAIN d : d[id] \in Targets /\ d[id] \in Held
  BY TargetsAssumption DEF Desired

\* The empty list of targets is a desired map.
LEMMA NoIdsDesired == NoIds \in Desired /\ DOMAIN NoIds = {}
  BY DEF NoIds, Desired

\* What an instance holds may be served.
LEMMA HeldFacts ==
  ASSUME NEW t \in Held
  PROVE  /\ t.endpoint \in DOMAIN NormalizeEndpoint /\ t.netns \in {u.netns : u \in Targets}
         /\ Served(t) \in Exporters /\ t # NoTarget
  BY TargetsAssumption DEF Held, Exporters, Served

\* Normalizing the endpoint of a target does not change what it serves, nor its
\* labels.
LEMMA NormalizedServes ==
  ASSUME NEW t \in Held
  PROVE  /\ Normalized(t) \in Held /\ Serves(Normalized(t), t)
         /\ Normalized(t).labels = t.labels /\ Normalized(t).netns = t.netns
         /\ Normalized(t).endpoint = NormalizeEndpoint[t.endpoint]
  BY NormalizeIsIdempotent DEF Normalized, Serves, Held

\* Assigning the labels changes nothing else.
LEMMA LabelledFacts ==
  ASSUME NEW t \in Held, NEW u \in Held
  PROVE  LET new == [t EXCEPT !.labels = u.labels]
         IN  /\ new \in Held /\ new.labels = u.labels
             /\ new.endpoint = t.endpoint /\ new.netns = t.netns
  BY DEF Held

(***************************************************************************)
(* The invariant is inductive.                                             *)
(***************************************************************************)

\* The invariant holds for an empty map of instances.
LEMMA InvInit == Init => IInv
<1> SUFFICES ASSUME Init PROVE IInv
  OBVIOUS
<1> USE NoIdsDesired DEF Init, Callers, Present, history
<1>1. TypeOK
  BY DEF TypeOK
<1>2. Locked /\ Mapped /\ NoLostLoop /\ Fresh
  BY DEF Locked, Holding, Mapped, NoLostLoop, Fresh
<1>3. Progress /\ Stopping /\ Kept /\ Settled /\ QuietAfterShutdown
  BY DEF Progress, Stopping, Kept, Settled, QuietAfterShutdown
<1>4. Steady
  BY DEF Steady
<1> QED BY <1>1, <1>2, <1>3, <1>4 DEF IInv

\* Every step of both callers and of the loops preserves it.
LEMMA InvStep == IInv /\ [Next]_vars => IInv'
<1> SUFFICES ASSUME IInv, [Next]_vars PROVE IInv'
  OBVIOUS
<1> USE NoLoopAssumption, TargetsAssumption, NoIdsDesired, DesiredFacts, HeldFacts
    DEF IInv, TypeOK, Locked, Mapped, NoLostLoop, Fresh, Progress, Stopping, Kept, Settled,
        QuietAfterShutdown, Steady, UnchangedBy, AsListed, Changed, Callers, Holding, Present, Done,
        Current, loopVars, callVars, history,
        Goto, Move, loopUnchanged, StartLoop, StopLoop, FreeFor, StopReturns, Awaited
<1>1. ASSUME NEW c \in Callers, ReconcileCall(c) PROVE IInv'
  BY <1>1 DEF ReconcileCall
<1>2. ASSUME NEW c \in Callers, ReconcileLock(c) PROVE IInv'
  BY <1>2 DEF ReconcileLock
<1>3. ASSUME NEW c \in Callers, NEW id \in Ids, RemoveStop(c, id) PROVE IInv'
  BY <1>3 DEF RemoveStop
<1>4. ASSUME NEW c \in Callers, RemoveDelete(c) PROVE IInv'
  <2> USE <1>4 DEF RemoveDelete
  <2>1. TypeOK' /\ Locked'
    OBVIOUS
  <2>2. Mapped'
    OBVIOUS
  <2>3. NoLostLoop'
    <3> SUFFICES ASSUME NEW h \in Loops, pc'[h] # "ended"
                 PROVE  Current(h)' \/ (late' /\ h \in cancelled')
      OBVIOUS
    <3>1. CASE h = loopOf[victim] /\ pc[h] # "ended"
      <4>1. h \in Awaited
        BY <3>1
      <4> QED BY <3>1, <4>1
    <3>2. CASE h # loopOf[victim] \/ pc[h] = "ended"
      BY <3>2
    <3> QED BY <3>1, <3>2
  <2>4. Fresh'
    OBVIOUS
  <2>5. QuietAfterShutdown'
    OBVIOUS
  <2>6. Progress' /\ Stopping' /\ Kept'
    OBVIOUS
  <2>7. Settled'
    OBVIOUS
  <2>8. Steady'
    OBVIOUS
  <2> QED BY <2>1, <2>2, <2>3, <2>4, <2>5, <2>6, <2>7, <2>8
<1>5. ASSUME NEW c \in Callers, RemoveNone(c) PROVE IInv'
  BY <1>5 DEF RemoveNone
<1>6. ASSUME NEW c \in Callers, NEW id \in Ids, Add(c, id) PROVE IInv'
  BY <1>6, NormalizedServes DEF Add
<1>7. ASSUME NEW c \in Callers, NEW id \in Ids, RestartStop(c, id) PROVE IInv'
  BY <1>7 DEF RestartStop
<1>8. ASSUME NEW c \in Callers, RestartStart(c) PROVE IInv'
  <2> USE <1>8 DEF RestartStart, Serves
  <2>1. TypeOK' /\ Locked'
    OBVIOUS
  <2>2. Mapped'
    OBVIOUS
  <2>3. NoLostLoop'
    <3> SUFFICES ASSUME NEW h \in Loops, pc'[h] # "ended"
                 PROVE  Current(h)' \/ (late' /\ h \in cancelled')
      OBVIOUS
    <3>1. CASE h = loopOf[victim] /\ pc[h] # "ended"
      <4>1. h \in Awaited
        BY <3>1
      <4> QED BY <3>1, <4>1
    <3>2. CASE h # loopOf[victim] \/ pc[h] = "ended"
      BY <3>2
    <3> QED BY <3>1, <3>2
  <2>4. Fresh'
    OBVIOUS
  <2>5. QuietAfterShutdown'
    OBVIOUS
  <2>6. Progress' /\ Stopping' /\ Kept'
    OBVIOUS
  <2>7. Settled'
    OBVIOUS
  <2>8. Steady'
    OBVIOUS
  <2> QED BY <2>1, <2>2, <2>3, <2>4, <2>5, <2>6, <2>7, <2>8
<1>9. ASSUME NEW c \in Callers, NEW id \in Ids, Keep(c, id) PROVE IInv'
  BY <1>9, LabelledFacts DEF Keep, Serves, Served
<1>10. ASSUME NEW c \in Callers, ReconcileReturn(c) PROVE IInv'
  <2> USE <1>10 DEF ReconcileReturn
  <2>1. TypeOK' /\ Locked'
    OBVIOUS
  <2>2. Mapped'
    OBVIOUS
  <2>3. NoLostLoop'
    OBVIOUS
  <2>4. Fresh'
    OBVIOUS
  <2>5. QuietAfterShutdown'
    OBVIOUS
  <2>6. Progress' /\ Stopping' /\ Kept'
    OBVIOUS
  <2>7. Settled'
    <3>1. mu = c /\ Present = DOMAIN goal
      OBVIOUS
    <3>2. \A id \in DOMAIN goal : AsListed(id, goal[id])
      OBVIOUS
    <3> QED BY <3>1, <3>2
  <2>8. Steady'
    OBVIOUS
  <2> QED BY <2>1, <2>2, <2>3, <2>4, <2>5, <2>6, <2>7, <2>8
<1>11. CASE ShutdownCancel
  BY <1>11 DEF ShutdownCancel
<1>12. CASE ShutdownLock
  BY <1>12 DEF ShutdownLock
<1>13. CASE ShutdownWait
  <2> USE <1>13 DEF ShutdownWait
  <2>1. TypeOK' /\ Locked'
    OBVIOUS
  <2>2. Mapped'
    OBVIOUS
  <2>3. NoLostLoop'
    <3> SUFFICES ASSUME NEW h \in Loops, pc'[h] # "ended"
                 PROVE  late' /\ h \in cancelled'
      OBVIOUS
    <3>1. pc[h] # "ended" /\ ~Current(h)'
      OBVIOUS
    <3>2. CASE Current(h)
      <4>1. h \in Awaited /\ h \in cancelled
        BY <3>1, <3>2
      <4> QED BY <3>1, <4>1
    <3>3. CASE ~Current(h)
      BY <3>1, <3>3
    <3> QED BY <3>2, <3>3
  <2>4. Fresh'
    OBVIOUS
  <2>5. QuietAfterShutdown'
    <3> SUFFICES ASSUME NEW h \in Loops, pc'[h] # "ended"
                 PROVE  late' /\ ~Current(h)'
      OBVIOUS
    <3>1. pc[h] # "ended" /\ ~Current(h)'
      OBVIOUS
    <3>2. CASE Current(h)
      <4>1. h \in Awaited /\ h \in cancelled
        BY <3>1, <3>2
      <4> QED BY <3>1, <4>1
    <3>3. CASE ~Current(h)
      BY <3>1, <3>3
    <3> QED BY <3>2, <3>3
  <2>6. Progress' /\ Stopping' /\ Kept'
    OBVIOUS
  <2>7. Settled'
    OBVIOUS
  <2>8. Steady'
    OBVIOUS
  <2> QED BY <2>1, <2>2, <2>3, <2>4, <2>5, <2>6, <2>7, <2>8
<1>14. ASSUME NEW g \in Loops, LoopCheck(g) PROVE IInv'
  BY <1>14 DEF LoopCheck
<1>15. ASSUME NEW g \in Loops, LoopExec(g) PROVE IInv'
  BY <1>15 DEF LoopExec
<1>16. ASSUME NEW g \in Loops, LoopReap(g) PROVE IInv'
  BY <1>16 DEF LoopReap
<1>17. CASE UNCHANGED vars
  BY <1>17 DEF vars
<1> HIDE NoLoopAssumption, TargetsAssumption, NoIdsDesired, DesiredFacts, HeldFacts DEF IInv, Callers
<1> QED
  BY <1>1, <1>2, <1>3, <1>4, <1>5, <1>6, <1>7, <1>8, <1>9, <1>10, <1>11, <1>12, <1>13, <1>14, <1>15, <1>16, <1>17
  DEF Next, ReconcileStep, ShutdownStep

\* The invariant holds in every behaviour of the manager.
THEOREM Invariance == Spec => []IInv
  BY InvInit, InvStep, PTL DEF Spec

(***************************************************************************)
(* What follows from it.                                                   *)
(***************************************************************************)

\* Every variable keeps its type.
THEOREM TypeCorrect == Spec => []TypeOK
<1>1. IInv => TypeOK
  BY DEF IInv
<1> QED BY <1>1, Invariance, PTL

\* No loop escapes the map that nobody has told to end.
THEOREM NoLostLoopHolds == Spec => []NoLostLoop
<1>1. IInv => NoLostLoop
  BY DEF IInv
<1> QED BY <1>1, Invariance, PTL

\* After Shutdown no child is left that it has waited for, and none will be
\* started, whoever calls Reconcile afterwards.
THEOREM QuietAfterShutdownHolds == Spec => []QuietAfterShutdown
<1>1. IInv => QuietAfterShutdown
  BY DEF IInv
<1> QED BY <1>1, Invariance, PTL

\* Reconcile leaves the map and the children as the desired targets have them.
THEOREM MatchesGoalHolds == Spec => []MatchesGoal
<1>1. IInv => MatchesGoal
  <2> SUFFICES ASSUME IInv, mu = "free", ~ctxDone PROVE MatchesGoal
    BY DEF MatchesGoal
  <2> USE DEF IInv, Settled
  <2>1. Present = DOMAIN goal /\ \A id \in Present : AsListed(id, goal[id])
    OBVIOUS
  <2>2. \A c \in Callers : step[c] \notin {"removing", "restarting"}
    BY DEF Locked, Holding, Callers
  <2>3. ASSUME NEW g \in Loops, pc[g] # "ended", Current(g)
        PROVE  g \notin cancelled /\ (pc[g] = "up" => Serves(conf[g], goal[owner[g]]))
    <3>1. owner[g] \in Present
      BY <2>3, NoLoopAssumption DEF Current, Present, TypeOK
    <3>2. g \notin cancelled
      BY <2>2, <2>3, <3>1 DEF Kept, Current
    <3>3. ASSUME pc[g] = "up" PROVE Serves(conf[g], goal[owner[g]])
      <4>1. conf[g] = Served(target[owner[g]]) /\ Serves(target[owner[g]], goal[owner[g]])
        BY <2>1, <2>3, <3>1, <3>3 DEF Fresh, AsListed
      <4> QED BY <4>1 DEF Serves, Served
    <3> QED BY <3>2, <3>3
  <2>4. \A g \in Loops : pc[g] # "ended" /\ ~Current(g) => late /\ g \in cancelled
    BY DEF NoLostLoop
  <2> QED BY <2>1, <2>3, <2>4 DEF MatchesGoal, AsListed
<1> QED BY <1>1, Invariance, PTL

\* A target that is reported unchanged, in normalized form, keeps its child.
THEOREM SteadyTargetIsKeptHolds == Spec => SteadyTargetIsKept
<1>1. IInv /\ [Next]_vars =>
        [\A c \in Callers, id \in Ids :
           RestartStop(c, id) => ~ /\ id \in DOMAIN former
                                   /\ former[id] = goal[id]
                                   /\ Normalized(goal[id]) = goal[id]]_vars
  <2> SUFFICES ASSUME IInv, NEW c \in Callers, NEW id \in Ids, RestartStop(c, id),
                      id \in DOMAIN former, former[id] = goal[id],
                      Normalized(goal[id]) = goal[id]
               PROVE  FALSE
    OBVIOUS
  <2>1. UnchangedBy(id, former)
    BY DEF IInv, Steady, RestartStop, Goto
  <2>2. ~Changed(id, goal[id])
    BY <2>1 DEF UnchangedBy
  <2> QED BY <2>2 DEF RestartStop
<1> QED BY <1>1, Invariance, PTL DEF Spec, SteadyTargetIsKept

(***************************************************************************)
(* The manager implements the fleet.                                       *)
(***************************************************************************)

\* What may be served, what of it an instance means, and a list as a map on all
\* the ids, are the fleet's.
LEMMA MeaningFacts ==
  /\ \A t \in Held \cup Exporters : Meaning(t) \in Exporters /\ Meaning(t) # NoTarget
  /\ \A t \in Held : Meaning(Served(t)) = Meaning(t) /\ Meaning(Normalized(t)) = Meaning(t)
  /\ Meaning(NoTarget) = NoTarget
  /\ \A l \in Desired : Meanings(l) \in F!Assignments
<1>1. ASSUME NEW t \in Held \cup Exporters PROVE Meaning(t) \in Exporters /\ Meaning(t) # NoTarget
  <2>1. t # NoTarget
    BY TargetsAssumption
  <2>2. t.endpoint \in DOMAIN NormalizeEndpoint /\ t.netns \in {u.netns : u \in Targets}
    BY HeldFacts DEF Exporters
  <2>3. Meaning(t) \in Exporters
    BY <2>1, <2>2, NormalizeIsIdempotent DEF Meaning, Exporters
  <2> QED BY <2>3, TargetsAssumption
<1>2. ASSUME NEW t \in Held
      PROVE  Meaning(Served(t)) = Meaning(t) /\ Meaning(Normalized(t)) = Meaning(t)
  <2>1. Served(t) # NoTarget /\ Normalized(t) # NoTarget /\ t # NoTarget
    BY HeldFacts, NormalizedServes, TargetsAssumption
  <2>2. Served(t).endpoint = t.endpoint /\ Served(t).netns = t.netns
    BY DEF Served
  <2> QED BY <2>1, <2>2, NormalizedServes, HeldFacts, NormalizeIsIdempotent DEF Meaning
<1>3. Meaning(NoTarget) = NoTarget
  BY DEF Meaning
<1>4. ASSUME NEW l \in Desired PROVE Meanings(l) \in F!Assignments
  BY <1>1, DesiredFacts DEF Meanings, F!Assignments
<1> QED BY <1>1, <1>2, <1>3, <1>4

\* What serves the same means the same.
LEMMA ServesMeaning ==
  ASSUME NEW t \in Held, NEW u \in Held, Serves(t, u)
  PROVE  Meaning(t) = Meaning(u)
  BY HeldFacts DEF Serves, Meaning

\* Who applies a list holds the lock, so there is one at most.
LEMMA OneApplier ==
  ASSUME IInv
  PROVE  /\ mu = "free" => Applier = {}
         /\ \A c \in Callers : c \in Applier => Applier = {c} /\ mu = c
  BY DEF IInv, TypeOK, Locked, Holding, Applier, Callers

\* The children of the fleet, and the places it has given up, are changed by
\* the loops and by who replaces one.
LEMMA KidsStay ==
  ASSUME UNCHANGED <<pc, owner, conf, loopOf>>
  PROVE  Kids' = Kids /\ GivenUp' = GivenUp
  BY DEF Kids, Up, GivenUp, Current, Meaning

\* The initial states are those of the fleet.
LEMMA FleetInitHolds == Init => F!FleetInit
  BY NoIdsDesired DEF Init, F!FleetInit, F!Nothing, Meant, Meanings, Meaning, Kids, Up, GivenUp, Applier, Callers

\* The step that takes the lock begins to apply a list.
LEMMA LockBegins ==
  ASSUME IInv, IInv', NEW c \in Callers, ReconcileLock(c)
  PROVE  \E l \in F!Assignments : F!Begin(l)
<1>1. Applier = {} /\ Applier' # {}
  <2>1. Applier = {}
    BY OneApplier DEF ReconcileLock
  <2>2. c \in Applier'
    BY DEF ReconcileLock, Goto, Applier, IInv, TypeOK, Callers
  <2> QED BY <2>1, <2>2
<1>2. Meanings(goal') \in F!Assignments /\ Meanings(goal)' = Meanings(goal')
  BY MeaningFacts DEF IInv, TypeOK, Meanings, Meaning
<1>3. Kids' = Kids /\ GivenUp' = GivenUp /\ Meant' = Meant
  BY KidsStay DEF ReconcileLock, loopVars, Meant, Meaning
<1>4. (step["main"] = "exit")' = (step["main"] = "exit") /\ late' = late
  BY DEF ReconcileLock, Goto, IInv, TypeOK, Callers
<1> QED BY <1>1, <1>2, <1>3, <1>4 DEF F!Begin

\* Steps of a Reconcile that touch no instance, or only its labels, are none of
\* the fleet's.
LEMMA QuietSteps ==
  ASSUME IInv, IInv',
         \/ \E c \in Callers : \/ ReconcileCall(c) \/ RemoveNone(c)
                               \/ \E id \in Ids : RemoveStop(c, id) \/ RestartStop(c, id) \/ Keep(c, id)
         \/ ShutdownCancel \/ ShutdownLock \/ UNCHANGED vars
  PROVE  UNCHANGED F!fleetvars
<1> DEFINE Kept1 == \E c \in Callers, id \in Ids : Keep(c, id)
<1>1. UNCHANGED <<pc, owner, conf, goal, loopOf, late>>
  BY DEF ReconcileCall, RemoveNone, RemoveStop, RestartStop, Keep, ShutdownCancel, ShutdownLock,
         vars, loopVars, callVars, history
<1>2. Kids' = Kids /\ GivenUp' = GivenUp /\ Meanings(goal)' = Meanings(goal)
  BY <1>1, KidsStay DEF Meanings, Meaning
<1>3. Meant' = Meant
  <2>1. CASE Kept1
    <3>1. PICK c \in Callers, id \in Ids : Keep(c, id)
      BY <2>1
    <3>2. target[id] \in Held /\ goal[id] \in Held /\ target \in [Ids -> Held \cup {NoTarget}]
      <4>1. id \in DOMAIN goal /\ loopOf[id] # NoLoop
        BY <3>1 DEF Keep, Goto, IInv, Progress, Present
      <4> QED BY <4>1, DesiredFacts DEF IInv, Mapped, TypeOK
    <3>3. target' = [target EXCEPT ![id].labels = goal[id].labels]
      BY <3>1 DEF Keep
    <3>4. Meaning(target'[id]) = Meaning(target[id])
      <4>1. target'[id] = [target[id] EXCEPT !.labels = goal[id].labels]
        BY <3>2, <3>3
      <4>2. /\ target'[id] \in Held /\ target'[id].endpoint = target[id].endpoint
            /\ target'[id].netns = target[id].netns
        BY <3>2, <4>1, LabelledFacts
      <4> QED BY <3>2, <4>2, HeldFacts DEF Meaning
    <3>5. \A i \in Ids : Meaning(target'[i]) = Meaning(target[i])
      BY <3>2, <3>3, <3>4
    <3> QED BY <3>5 DEF Meant, Meaning
  <2>2. CASE ~Kept1
    <3>1. target' = target
      BY <2>2 DEF ReconcileCall, RemoveNone, RemoveStop, RestartStop, ShutdownCancel, ShutdownLock, vars
    <3> QED BY <3>1 DEF Meant, Meaning
  <2> QED BY <2>1, <2>2
<1>4. Applier' = Applier /\ (step["main"] = "exit")' = (step["main"] = "exit")
  BY DEF ReconcileCall, RemoveNone, RemoveStop, RestartStop, Keep, ShutdownCancel, ShutdownLock,
         vars, callVars, Goto, Applier, IInv, TypeOK, Callers
<1> QED BY <1>1, <1>2, <1>3, <1>4 DEF F!fleetvars

\* The list that is being applied stays the same through the steps that apply
\* it.
LEMMA ListStays ==
  ASSUME IInv, IInv', NEW c \in Callers,
         RemoveDelete(c) \/ RestartStart(c) \/ \E id \in Ids : Add(c, id)
  PROVE  /\ Applier # {} /\ Applier' # {}
         /\ Meanings(goal)' = Meanings(goal)
         /\ (step["main"] = "exit")' = (step["main"] = "exit")
<1>1. c \in Applier /\ c \in Applier' /\ goal' = goal
  BY DEF RemoveDelete, RestartStart, Add, Goto, Applier, IInv, TypeOK, Callers
<1>2. (step["main"] = "exit")' = (step["main"] = "exit")
  BY DEF RemoveDelete, RestartStart, Add, Goto, IInv, TypeOK, Callers
<1> QED BY <1>1, <1>2 DEF Meanings, Meaning

\* An instance gets another loop, one that had ended, or none; places is where
\* its old loop has not ended.
Replaces(id, places) ==
  /\ \A h \in Loops : h \in places <=> h = loopOf[id] /\ pc[h] # "ended"
  /\ \A i \in Ids \ {id} : loopOf'[i] = loopOf[i]
  /\ \A h \in Loops :
       /\ pc[h] # "ended" => /\ pc'[h] = pc[h] /\ owner'[h] = owner[h] /\ conf'[h] = conf[h]
                             /\ loopOf'[id] # h
       /\ pc[h] = "ended" => pc'[h] = "ended" \/ (pc'[h] = "check" /\ loopOf'[owner'[h]] = h)

\* Then the fleet loses the child of that id and gives up its place, if the old
\* loop has not ended.
LEMMA Replaced ==
  ASSUME IInv, NEW id \in Ids, NEW places \in SUBSET Loops, Replaces(id, places)
  PROVE  /\ F!Of(id) = F!In(places)
         /\ Kids' = Kids \ F!In(places)
         /\ GivenUp' = GivenUp \cup places
<1> USE DEF Replaces
<1> DEFINE kid(h) == [place |-> h, id |-> owner[h], target |-> Meaning(conf[h])]
<1>1. owner \in [Loops -> Ids] /\ \A i \in Ids : loopOf[i] # NoLoop => owner[loopOf[i]] = i
  BY DEF IInv, TypeOK, Mapped, Present
<1>2. \A h \in Up : h \in Loops /\ pc[h] = "up" /\ (owner[h] = id <=> h \in places)
  BY <1>1, NoLoopAssumption DEF Up, Current
<1>3. Kids = {kid(h) : h \in Up}
  BY DEF Kids
<1>4. F!Of(id) = F!In(places)
  BY <1>2, <1>3 DEF F!Of, F!In
<1>5. Up' = Up \ places
  <2>1. ASSUME NEW h \in Loops PROVE h \in Up' <=> h \in Up \ places
    <3>1. CASE pc[h] = "ended"
      BY <3>1 DEF Up
    <3>2. CASE pc[h] # "ended" /\ owner[h] = id
      BY <3>2 DEF Up, Current
    <3>3. CASE pc[h] # "ended" /\ owner[h] # id
      BY <1>1, <3>3, NoLoopAssumption DEF Up, Current
    <3> QED BY <3>1, <3>2, <3>3
  <2> QED BY <2>1 DEF Up
<1>6. Kids' = {kid(h) : h \in Up \ places}
  <2>1. \A h \in Up \ places : owner'[h] = owner[h] /\ conf'[h] = conf[h]
    BY <1>2
  <2> QED BY <1>5, <2>1 DEF Kids, Meaning
<1>7. Kids' = Kids \ F!In(places)
  BY <1>3, <1>6 DEF F!In
<1>8. GivenUp' = GivenUp \cup places
  <2>1. ASSUME NEW h \in Loops PROVE h \in GivenUp' <=> h \in GivenUp \cup places
    <3>1. CASE pc[h] = "ended"
      BY <3>1 DEF GivenUp, Current
    <3>2. CASE pc[h] # "ended" /\ owner[h] = id
      BY <3>2 DEF GivenUp, Current
    <3>3. CASE pc[h] # "ended" /\ owner[h] # id
      BY <1>1, <3>3, NoLoopAssumption DEF GivenUp, Current
    <3> QED BY <3>1, <3>2, <3>3
  <2> QED BY <2>1 DEF GivenUp
<1> QED BY <1>4, <1>7, <1>8

\* Replacing or deleting an instance gives its id the meaning that the list
\* has for it.
LEMMA AppliesOne ==
  ASSUME IInv, IInv', NEW c \in Callers,
         RemoveDelete(c) \/ RestartStart(c) \/ \E id \in Ids : Add(c, id)
  PROVE  \E id \in Ids, places \in SUBSET Loops : F!Assign(id, places)
<1> DEFINE Same == /\ Applier # {} /\ Applier' # {}
                   /\ Meanings(goal)' = Meanings(goal)
                   /\ (step["main"] = "exit")' = (step["main"] = "exit")
<1>1. Same
  BY ListStays
<1> HIDE DEF Same
<1>2. /\ target \in [Ids -> Held \cup {NoTarget}] /\ goal \in Desired /\ victim \in Ids
      /\ pc \in [Loops -> {"ended", "check", "exec", "up"}] /\ owner \in [Loops -> Ids]
      /\ loopOf \in [Ids -> Loops \cup {NoLoop}]
  BY DEF IInv, TypeOK
<1>3. ASSUME NEW id \in Ids, NEW places \in SUBSET Loops, NEW t \in Held \cup {NoTarget},
             target' = [target EXCEPT ![id] = t], Meaning(t) = Meanings(goal)[id],
             F!Of(id) = F!In(places), Kids' = Kids \ F!In(places),
             GivenUp' = GivenUp \cup places, late' = (late \/ places # {})
      PROVE  F!Assign(id, places)
  <2>1. Meant' = [Meant EXCEPT ![id] = Meanings(goal)[id]]
    BY <1>2, <1>3 DEF Meant, Meaning
  <2> QED BY <1>1, <1>3, <2>1 DEF F!Assign, F!GiveUp, Same
<1>4. CASE RemoveDelete(c)
  <2> USE <1>2, <1>4 DEF RemoveDelete
  <2>1. victim \notin DOMAIN goal /\ Meaning(NoTarget) = Meanings(goal)[victim]
    BY MeaningFacts DEF Goto, IInv, Progress, Meanings
  <2>2. mu = c /\ step[mu] # "stopping" /\ loopOf[victim] \in Loops
    BY DEF Goto, IInv, Locked, Holding, Progress, Present
  <2>3. Awaited \in SUBSET Loops /\ late' = (late \/ Awaited # {})
        /\ \A h \in Loops : h \in Awaited <=> h = loopOf[victim] /\ pc[h] # "ended"
    BY <2>2 DEF Awaited, StopReturns
  <2> HIDE DEF RemoveDelete
  <2>4. /\ F!Of(victim) = F!In(Awaited) /\ Kids' = Kids \ F!In(Awaited)
        /\ GivenUp' = GivenUp \cup Awaited
    <3>1. Replaces(victim, Awaited)
      BY <1>4, <2>3, NoLoopAssumption DEF RemoveDelete, loopVars, Replaces
    <3> QED BY <2>3, <3>1, Replaced
  <2> QED BY <1>3, <2>1, <2>3, <2>4 DEF RemoveDelete
<1>5. CASE RestartStart(c)
  <2> USE <1>2, <1>5 DEF RestartStart
  <2>1. victim \in DOMAIN goal
    BY DEF Goto, IInv, Progress
  <2>2. goal[victim] \in Held /\ Meaning(goal[victim]) = Meanings(goal)[victim]
    BY <2>1, DesiredFacts DEF Meanings
  <2>3. mu = c /\ step[mu] # "stopping" /\ loopOf[victim] \in Loops
    BY DEF Goto, IInv, Locked, Holding, Progress, Present
  <2>4. Awaited \in SUBSET Loops /\ late' = (late \/ Awaited # {})
        /\ \A h \in Loops : h \in Awaited <=> h = loopOf[victim] /\ pc[h] # "ended"
    BY <2>3 DEF Awaited, StopReturns
  <2>5. PICK g \in FreeFor(victim) :
          /\ loopOf' = [loopOf EXCEPT ![victim] = g] /\ owner' = [owner EXCEPT ![g] = victim]
          /\ pc' = [pc EXCEPT ![g] = "check"] /\ conf' = conf
    BY DEF StartLoop
  <2> HIDE DEF RestartStart
  <2>6. g \in Loops /\ pc[g] = "ended" /\ loopOf'[owner'[g]] = g
    BY <2>5 DEF FreeFor
  <2>7. /\ F!Of(victim) = F!In(Awaited) /\ Kids' = Kids \ F!In(Awaited)
        /\ GivenUp' = GivenUp \cup Awaited
    <3>1. Replaces(victim, Awaited)
      BY <2>4, <2>5, <2>6 DEF Replaces
    <3> QED BY <2>4, <3>1, Replaced
  <2> QED BY <1>3, <2>2, <2>4, <2>7 DEF RestartStart
<1>6. ASSUME NEW id \in Ids, Add(c, id) PROVE F!Assign(id, {})
  <2> USE <1>2, <1>6 DEF Add
  <2>1. id \in DOMAIN goal /\ loopOf[id] = NoLoop
    BY DEF Goto, IInv, Progress, Present
  <2>2. Normalized(goal[id]) \in Held /\ Meaning(Normalized(goal[id])) = Meanings(goal)[id]
    BY <2>1, DesiredFacts, NormalizedServes, MeaningFacts DEF Meanings
  <2>3. PICK g \in FreeFor(id) :
          /\ loopOf' = [loopOf EXCEPT ![id] = g] /\ owner' = [owner EXCEPT ![g] = id]
          /\ pc' = [pc EXCEPT ![g] = "check"] /\ conf' = conf
    BY DEF StartLoop
  <2>4. late' = (late \/ {} # {})
    BY DEF history, IInv, TypeOK
  <2> HIDE DEF Add
  <2>5. g \in Loops /\ pc[g] = "ended" /\ loopOf'[owner'[g]] = g
    BY <2>3 DEF FreeFor
  <2>6. F!Of(id) = F!In({}) /\ Kids' = Kids \ F!In({}) /\ GivenUp' = GivenUp \cup {}
    <3>1. Replaces(id, {})
      BY <2>1, <2>3, <2>5, NoLoopAssumption DEF Replaces
    <3> QED BY <3>1, Replaced
  <2> QED BY <1>3, <2>2, <2>4, <2>6 DEF Add
<1> QED BY <1>2, <1>4, <1>5, <1>6 DEF RemoveDelete

\* When Reconcile returns, every id means what the list says.
LEMMA ReturnEnds ==
  ASSUME IInv, IInv', NEW c \in Callers, ReconcileReturn(c)
  PROVE  F!End
<1>1. Applier = {c} /\ Applier' = {}
  <2>1. c \in Applier /\ Applier' = Applier \ {c}
    BY DEF ReconcileReturn, Goto, Applier, IInv, TypeOK, Callers
  <2> QED BY <2>1, OneApplier
<1>2. Kids' = Kids /\ GivenUp' = GivenUp /\ Meant' = Meant /\ Meanings(goal)' = Meanings(goal)
      /\ late' = late /\ (step["main"] = "exit")' = (step["main"] = "exit")
  BY KidsStay DEF ReconcileReturn, loopVars, Meant, Meanings, Meaning, Goto, IInv, TypeOK, Callers
<1>3. ASSUME NEW id \in Ids PROVE Meaning(target[id]) = Meanings(goal)[id]
  <2>1. target[id] \in Held \cup {NoTarget} /\ Present = DOMAIN goal /\ goal \in Desired
    BY DEF ReconcileReturn, Goto, IInv, TypeOK, Progress
  <2>2. CASE id \in Present
    <3>1. target[id] \in Held /\ goal[id] \in Held
      BY <2>1, <2>2, DesiredFacts DEF IInv, Mapped, Present
    <3>2. Serves(target[id], goal[id])
      BY <2>1, <2>2 DEF ReconcileReturn, Goto, IInv, Progress, AsListed
    <3> QED BY <2>1, <2>2, <3>1, <3>2, ServesMeaning DEF Meanings
  <2>3. CASE id \notin Present
    <3>1. target[id] = NoTarget
      BY <2>3 DEF IInv, Mapped, Present
    <3> QED BY <2>1, <2>3, <3>1, MeaningFacts DEF Meanings
  <2> QED BY <2>2, <2>3
<1>4. Meant = Meanings(goal)
  BY <1>3 DEF Meant, Meanings
<1> QED BY <1>1, <1>2, <1>4 DEF F!End

\* When Shutdown has waited for every loop, or given some up, the fleet is
\* closed.
LEMMA WaitCloses ==
  ASSUME IInv, IInv', ShutdownWait
  PROVE  \E places \in SUBSET Loops : F!Close(places)
<1>1. /\ mu = "main" /\ step["main"] = "stopping" /\ step'["main"] = "exit"
      /\ pc' = pc /\ owner' = owner /\ conf' = conf
      /\ loopOf' = [id \in Ids |-> NoLoop] /\ target' = [id \in Ids |-> NoTarget]
      /\ goal' = goal /\ late' = (late \/ Awaited # {})
  BY DEF ShutdownWait, StopReturns, Goto, loopVars, IInv, TypeOK, Locked, Holding, Callers
<1>2. Applier = {} /\ Applier' = {}
  <2>1. step["main"] \notin {"remove", "removing", "apply", "restarting"}
    BY <1>1
  <2>2. Applier = {}
    BY <1>1, <2>1, OneApplier DEF Applier, Callers
  <2>3. Applier' = {}
    BY OneApplier, <2>2 DEF ShutdownWait, Goto, Applier, IInv, TypeOK, Callers
  <2> QED BY <2>2, <2>3
<1>3. Meanings(goal)' = Meanings(goal)
  BY <1>1 DEF Meanings, Meaning
<1>4. Awaited = {h \in {loopOf[id] : id \in Present} : pc[h] # "ended"}
  BY <1>1 DEF Awaited
<1>5. Awaited \in SUBSET Loops
  BY <1>4 DEF Present, IInv, TypeOK
<1>6. \A h \in Loops : h \in Awaited <=> pc[h] # "ended" /\ Current(h)
  <2>1. ASSUME NEW h \in Loops, pc[h] # "ended", Current(h) PROVE h \in Awaited
    <3>1. owner[h] \in Present /\ loopOf[owner[h]] = h
      BY <2>1, NoLoopAssumption DEF Current, Present, IInv, TypeOK
    <3> QED BY <1>4, <2>1, <3>1
  <2>2. ASSUME NEW h \in Loops, h \in Awaited PROVE pc[h] # "ended" /\ Current(h)
    BY <1>4, <2>2 DEF Current, IInv, Mapped
  <2> QED BY <2>1, <2>2
<1>7. \A h \in Loops : ~Current(h)'
  BY <1>1, NoLoopAssumption DEF Current, IInv, TypeOK
<1>8. Kids = F!In(Awaited) /\ Kids' = {}
  <2>1. \A h \in Up : h \in Awaited
    BY <1>6 DEF Up
  <2>2. Up' = {}
    BY <1>7 DEF Up
  <2> QED BY <2>1, <2>2 DEF Kids, F!In
<1>9. GivenUp' = GivenUp \cup Awaited
  <2>1. ASSUME NEW h \in Loops PROVE h \in GivenUp' <=> h \in GivenUp \cup Awaited
    BY <1>1, <1>6, <1>7 DEF GivenUp
  <2> QED BY <1>5, <2>1 DEF GivenUp
<1>10. Meant' = F!Nothing
  BY <1>1 DEF Meant, Meaning, F!Nothing
<1>11. F!Close(Awaited)
  BY <1>1, <1>2, <1>3, <1>8, <1>9, <1>10 DEF F!Close, F!GiveUp
<1> QED BY <1>5, <1>11

\* A loop starts a child for what its instance says, stops one, leaves a place
\* that was given up, or does nothing the fleet sees.
LEMMA LoopMaps ==
  ASSUME IInv, IInv', NEW g \in Loops, LoopCheck(g) \/ LoopExec(g) \/ LoopReap(g)
  PROVE  \/ \E id \in Ids : F!Start(g, id)
         \/ \E c \in Kids : F!Stop(c)
         \/ g \in GivenUp /\ F!Release(g)
         \/ UNCHANGED F!fleetvars
<1>1. UNCHANGED <<Applier, Meanings(goal), Meant, step["main"] = "exit", late>>
  <2>1. UNCHANGED <<target, goal, step, mu, late>>
    BY DEF LoopCheck, LoopExec, LoopReap, loopUnchanged, callVars, history
  <2> QED BY <2>1 DEF Applier, Meant, Meanings, Meaning
<1>2. /\ owner' = owner /\ loopOf' = loopOf /\ owner[g] \in Ids
      /\ pc \in [Loops -> {"ended", "check", "exec", "up"}]
      /\ conf \in [Loops -> Exporters \cup {NoTarget}]
  BY DEF LoopCheck, LoopExec, LoopReap, loopUnchanged, IInv, TypeOK
<1>3. \A h \in Loops : Current(h)' = Current(h)
  BY <1>2 DEF Current
<1> DEFINE same == /\ Up' = Up /\ \A h \in Up : conf'[h] = conf[h]
<1>4. ASSUME same PROVE Kids' = Kids
  BY <1>2, <1>4 DEF Kids, Meaning
<1>5. ASSUME pc'[g] # "ended", \A h \in Loops \ {g} : pc'[h] = pc[h], pc[g] # "ended"
      PROVE  GivenUp' = GivenUp
  BY <1>3, <1>5 DEF GivenUp
<1> HIDE DEF same
<1>6. CASE LoopCheck(g)
  <2>1. /\ pc[g] = "check" /\ pc'[g] \in {"ended", "exec"}
        /\ \A h \in Loops \ {g} : pc'[h] = pc[h]
        /\ conf' = conf
    BY <1>2, <1>6 DEF LoopCheck, Move
  <2>2. Kids' = Kids
    BY <1>2, <1>3, <1>4, <2>1 DEF Up, same
  <2>3. CASE pc'[g] = "exec"
    BY <1>1, <1>5, <2>1, <2>2, <2>3 DEF F!fleetvars
  <2>4. CASE pc'[g] = "ended" /\ Current(g)
    <3>1. GivenUp' = GivenUp
      BY <1>3, <2>1, <2>4 DEF GivenUp
    <3> QED BY <1>1, <2>2, <3>1 DEF F!fleetvars
  <2>5. CASE pc'[g] = "ended" /\ ~Current(g)
    <3>1. g \in GivenUp /\ GivenUp' = GivenUp \ {g}
      BY <1>3, <2>1, <2>5 DEF GivenUp
    <3> QED BY <1>1, <2>2, <3>1 DEF F!Release
  <2> QED BY <2>1, <2>3, <2>4, <2>5
<1>7. CASE LoopExec(g) \/ LoopReap(g)
  <2>1. /\ pc[g] # "ended" /\ pc'[g] # "ended"
        /\ \A h \in Loops \ {g} : pc'[h] = pc[h] /\ conf'[h] = conf[h]
    BY <1>2, <1>7 DEF LoopExec, LoopReap, Move
  <2>2. GivenUp' = GivenUp
    BY <1>5, <2>1
  <2>3. CASE ~Current(g) \/ (pc[g] # "up" /\ pc'[g] # "up")
    <3>1. Kids' = Kids
      BY <1>3, <1>4, <2>1, <2>3 DEF Up, same
    <3> QED BY <1>1, <2>2, <3>1 DEF F!fleetvars
  <2>4. CASE Current(g) /\ pc'[g] = "up" /\ pc[g] # "up"
    <3> DEFINE id == owner[g]
               new == [place |-> g, id |-> id, target |-> Meant[id]]
    <3>1. pc[g] = "exec" /\ conf'[g] = Served(target[id])
      BY <1>2, <1>7, <2>4 DEF LoopExec, LoopReap, Move
    <3>2. Up' = Up \cup {g} /\ g \notin Up
      BY <1>3, <2>1, <2>4 DEF Up
    <3>3. loopOf[id] = g /\ target[id] \in Held
      BY <1>2, <2>4, NoLoopAssumption DEF IInv, Current, Mapped, TypeOK
    <3>4. Meant[id] = Meaning(target[id]) /\ Meant[id] # NoTarget
      BY <1>2, <3>3, MeaningFacts DEF Meant
    <3>5. Kids' = Kids \cup {new}
      <4>1. \A h \in Up : conf'[h] = conf[h]
        BY <2>1, <3>2 DEF Up
      <4>2. Meaning(conf'[g]) = Meant[id]
        BY <3>1, <3>3, <3>4, MeaningFacts
      <4>3. Kids' = {[place |-> h, id |-> owner[h], target |-> Meaning(conf'[h])] : h \in Up \cup {g}}
        BY <1>2, <3>2 DEF Kids, Meaning
      <4> QED BY <4>1, <4>2, <4>3 DEF Kids
    <3>6. F!Of(id) = {} /\ F!In({g}) = {} /\ g \notin GivenUp
      BY <2>4, <3>2, <3>3 DEF F!Of, F!In, Kids, Up, GivenUp, Current
    <3>7. step["main"] # "exit"
      BY <2>4, <3>1 DEF IInv, QuietAfterShutdown
    <3>8. F!Start(g, id)
      BY <1>1, <2>2, <3>4, <3>5, <3>6, <3>7 DEF F!Start
    <3> QED BY <1>2, <3>8
  <2>5. CASE Current(g) /\ pc[g] = "up"
    <3> DEFINE old == [place |-> g, id |-> owner[g], target |-> Meaning(conf[g])]
    <3>1. pc'[g] # "up"
      BY <1>2, <1>7, <2>5 DEF LoopExec, LoopReap, Move
    <3>2. g \in Up /\ Up' = Up \ {g} /\ \A h \in Up' : conf'[h] = conf[h]
      BY <1>3, <2>1, <2>5, <3>1 DEF Up
    <3>3. Kids' = {[place |-> h, id |-> owner[h], target |-> Meaning(conf[h])] : h \in Up \ {g}}
      BY <1>2, <3>2 DEF Kids, Meaning
    <3>4. old \in Kids /\ Kids' = Kids \ {old}
      BY <3>2, <3>3 DEF Kids
    <3>5. F!Stop(old)
      BY <1>1, <2>2, <3>4 DEF F!Stop
    <3> QED BY <3>4, <3>5
  <2> QED BY <2>3, <2>4, <2>5
<1> QED BY <1>6, <1>7

\* Every step is one of the fleet or none.
LEMMA FleetStep == IInv /\ IInv' /\ [Next]_vars => [F!FleetNext]_F!fleetvars
<1> SUFFICES ASSUME IInv, IInv', [Next]_vars PROVE F!FleetNext \/ UNCHANGED F!fleetvars
  OBVIOUS
<1>1. ASSUME NEW c \in Callers, ReconcileCall(c) \/ ReconcileStep(c)
      PROVE  F!FleetNext \/ UNCHANGED F!fleetvars
  BY <1>1, LockBegins, QuietSteps, AppliesOne, ReturnEnds DEF ReconcileStep, F!FleetNext
<1>2. CASE ShutdownCancel \/ ShutdownStep \/ UNCHANGED vars
  BY <1>2, QuietSteps, WaitCloses DEF ShutdownStep, F!FleetNext
<1>3. ASSUME NEW g \in Loops, LoopCheck(g) \/ LoopExec(g) \/ LoopReap(g)
      PROVE  F!FleetNext \/ UNCHANGED F!fleetvars
  BY <1>3, LoopMaps DEF F!FleetNext
<1> QED BY <1>1, <1>2, <1>3 DEF Next

\* Reconcile and Shutdown under m.mu, beside the supervision loops, keep the
\* promises of the fleet, for any targets, loops and normalization.
THEOREM FleetRefinement == Spec => ImplementsFleet
  BY FleetInitHolds, FleetStep, Invariance, PTL DEF Spec, ImplementsFleet, F!FleetSpec

\* The steps of the fleet preserve its promises, which are inductive together.
LEMMA FleetSafeStep ==
  F!FleetTypeOK /\ F!FleetSafe /\ [F!FleetNext]_F!fleetvars => (F!FleetTypeOK /\ F!FleetSafe)'
<1> SUFFICES ASSUME F!FleetTypeOK, F!FleetSafe, [F!FleetNext]_F!fleetvars
             PROVE  (F!FleetTypeOK /\ F!FleetSafe)'
  OBVIOUS
<1> USE DEF F!FleetTypeOK, F!FleetSafe, F!Assignments, F!Nothing, F!Of, F!In, F!GiveUp
<1>1. ASSUME NEW l \in F!Assignments, F!Begin(l) PROVE (F!FleetTypeOK /\ F!FleetSafe)'
  BY <1>1 DEF F!Begin
<1>2. CASE F!End
  BY <1>2 DEF F!End
<1>3. ASSUME NEW places \in SUBSET Loops, F!Close(places) PROVE (F!FleetTypeOK /\ F!FleetSafe)'
  BY <1>3 DEF F!Close
<1>4. ASSUME NEW id \in Ids, NEW places \in SUBSET Loops, F!Assign(id, places)
      PROVE  (F!FleetTypeOK /\ F!FleetSafe)'
  BY <1>4 DEF F!Assign
<1>5. ASSUME NEW g \in Loops, NEW id \in Ids, F!Start(g, id) PROVE (F!FleetTypeOK /\ F!FleetSafe)'
  BY <1>5 DEF F!Start
<1>6. ASSUME NEW c \in Kids, F!Stop(c) PROVE (F!FleetTypeOK /\ F!FleetSafe)'
  BY <1>6 DEF F!Stop
<1>7. ASSUME NEW g \in GivenUp, F!Release(g) PROVE (F!FleetTypeOK /\ F!FleetSafe)'
  BY <1>7 DEF F!Release
<1>8. CASE UNCHANGED F!fleetvars
  BY <1>8 DEF F!fleetvars
<1> QED BY <1>1, <1>2, <1>3, <1>4, <1>5, <1>6, <1>7, <1>8 DEF F!FleetNext

\* So in every fleet no two children serve one id, each serves what its id
\* means, and between two lists that is what the last list says.
THEOREM FleetIsSafe == F!FleetSpec => [](F!FleetTypeOK /\ F!FleetSafe)
<1>1. F!FleetInit => F!FleetTypeOK /\ F!FleetSafe
  BY DEF F!FleetInit, F!FleetTypeOK, F!FleetSafe, F!Assignments, F!Nothing
<1> QED BY <1>1, FleetSafeStep, PTL DEF F!FleetSpec

\* So do the children of the manager, also while a Shutdown waits for them and
\* while lists are still applied after it.
THEOREM ChildrenServeTheList == Spec => []F!FleetSafe
  BY FleetRefinement, FleetIsSafe, PTL DEF ImplementsFleet

(***************************************************************************)
(* What a Reconcile has left to do.                                        *)
(***************************************************************************)

\* The steps a cancelled loop may still take.
ToEnd(place) == CASE place = "ended" -> 0 [] place = "check" -> 1
                  [] place = "up" -> 2    [] place = "exec" -> 3

\* A loop that looks at its context has one step left, and so on.
LEMMA ToEndIs == ToEnd("ended") = 0 /\ ToEnd("check") = 1 /\ ToEnd("up") = 2 /\ ToEnd("exec") = 3
  BY DEF ToEnd

\* The loop a Reconcile waits for gets nearer to its end by each of its steps,
\* and nobody replaces it, starts it again or makes the Reconcile wait for
\* another (manager.go 77-83 and 103-106).
THEOREM AwaitedLoopGetsOn ==
  Spec => [][\A c \in Callers : step[c] \in {"removing", "restarting"} /\ step'[c] = step[c] =>
               LET g == loopOf[victim]
               IN  /\ g \in Loops /\ g \in cancelled'
                   /\ victim' = victim /\ loopOf'[victim] = g
                   /\ ToEnd(pc'[g]) <= ToEnd(pc[g])
                   /\ LoopCheck(g) \/ LoopExec(g) \/ LoopReap(g)
                        => ToEnd(pc'[g]) < ToEnd(pc[g])]_vars
<1>1. ASSUME IInv, [Next]_vars, NEW c \in Callers,
             step[c] \in {"removing", "restarting"}, step'[c] = step[c]
      PROVE  /\ loopOf[victim] \in Loops /\ loopOf[victim] \in cancelled'
             /\ victim' = victim /\ loopOf'[victim] = loopOf[victim]
             /\ ToEnd(pc'[loopOf[victim]]) <= ToEnd(pc[loopOf[victim]])
             /\ LoopCheck(loopOf[victim]) \/ LoopExec(loopOf[victim]) \/ LoopReap(loopOf[victim])
                  => ToEnd(pc'[loopOf[victim]]) < ToEnd(pc[loopOf[victim]])
  <2> DEFINE g == loopOf[victim]
  <2>1. mu = c /\ g \in Loops /\ g \in cancelled /\ victim \in Ids
    BY <1>1 DEF IInv, TypeOK, Locked, Holding, Progress, Present
  <2>2. \A d \in Callers : mu = d => d = c
    BY <2>1
  <2>3. ASSUME NEW h \in Loops, LoopCheck(h) \/ LoopExec(h) \/ LoopReap(h)
        PROVE  /\ UNCHANGED <<loopOf, victim, cancelled>>
               /\ h # g => pc'[g] = pc[g]
               /\ h = g => ToEnd(pc'[g]) < ToEnd(pc[g])
    <3>1. UNCHANGED <<loopOf, victim, cancelled>>
      BY <2>3 DEF LoopCheck, LoopExec, LoopReap, loopUnchanged, callVars
    <3>2. h # g => pc'[g] = pc[g]
      BY <1>1, <2>1, <2>3 DEF LoopCheck, LoopExec, LoopReap, Move, IInv, TypeOK
    <3>3. h = g => \/ pc[g] = "check" /\ pc'[g] = "ended"
                   \/ pc[g] = "exec" /\ pc'[g] \in {"up", "check"}
                   \/ pc[g] = "up" /\ pc'[g] = "check"
      BY <1>1, <2>1, <2>3 DEF LoopCheck, LoopExec, LoopReap, Move, Done, IInv, TypeOK
    <3> QED BY <3>1, <3>2, <3>3, ToEndIs
  <2>4. ASSUME ~\E h \in Loops : LoopCheck(h) \/ LoopExec(h) \/ LoopReap(h)
        PROVE  UNCHANGED <<loopOf, victim, pc>> /\ g \in cancelled'
    BY <1>1, <2>1, <2>2, <2>4
    DEF Next, ReconcileCall, ReconcileStep, ReconcileLock, RemoveStop, RemoveDelete, RemoveNone, Add,
        RestartStop, RestartStart, Keep, ReconcileReturn, ShutdownCancel, ShutdownStep, ShutdownLock,
        ShutdownWait, Goto, loopVars, callVars, vars, IInv, TypeOK, Locked, Holding, Callers
  <2>5. ToEnd(pc[g]) \in Nat /\ pc[g] \in {"ended", "check", "exec", "up"}
    BY <1>1, <2>1, ToEndIs DEF IInv, TypeOK
  <2>6. CASE \E h \in Loops : LoopCheck(h) \/ LoopExec(h) \/ LoopReap(h)
    <3>1. PICK h \in Loops : LoopCheck(h) \/ LoopExec(h) \/ LoopReap(h)
      BY <2>6
    <3>2. h = g => ToEnd(pc'[g]) < ToEnd(pc[g])
      BY <2>3, <3>1
    <3>3. ToEnd(pc'[g]) <= ToEnd(pc[g])
      <4>1. CASE h = g
        <5>1. pc'[g] \in {"ended", "check", "exec", "up"}
          BY <1>1, <2>1, InvStep DEF IInv, TypeOK
        <5> QED BY <2>5, <3>2, <4>1, <5>1, ToEndIs
      <4>2. CASE h # g
        BY <2>3, <2>5, <3>1, <4>2
      <4> QED BY <4>1, <4>2
    <3>4. LoopCheck(g) \/ LoopExec(g) \/ LoopReap(g) => ToEnd(pc'[g]) < ToEnd(pc[g])
      BY <2>1, <2>3
    <3> QED BY <2>1, <2>3, <3>1, <3>3, <3>4
  <2>7. CASE ~\E h \in Loops : LoopCheck(h) \/ LoopExec(h) \/ LoopReap(h)
    BY <2>1, <2>4, <2>5, <2>7
  <2> QED BY <2>6, <2>7
<1>2. IInv /\ [Next]_vars =>
        [\A c \in Callers : step[c] \in {"removing", "restarting"} /\ step'[c] = step[c] =>
           LET g == loopOf[victim]
           IN  /\ g \in Loops /\ g \in cancelled'
               /\ victim' = victim /\ loopOf'[victim] = g
               /\ ToEnd(pc'[g]) <= ToEnd(pc[g])
               /\ LoopCheck(g) \/ LoopExec(g) \/ LoopReap(g)
                    => ToEnd(pc'[g]) < ToEnd(pc[g])]_vars
  BY <1>1
<1> QED BY <1>2, Invariance, PTL DEF Spec

\* While a Reconcile holds m.mu nobody adds to its work: it removes instances
\* and none appears, then it goes through its targets and none comes back, and
\* it goes from the one to the other and to its end without turning (manager.go
\* 77-112).
THEOREM ReconcileGetsOn ==
  Spec => [][\A c \in Callers :
               /\ step[c] \in {"remove", "removing"} =>
                    step'[c] \in {"remove", "removing", "apply"} /\ Present' \subseteq Present
               /\ step[c] \in {"apply", "restarting"} /\ step'[c] # "idle" =>
                    step'[c] \in {"apply", "restarting"} /\ todo' \subseteq todo
               /\ RemoveDelete(c) => Present' # Present
               /\ RestartStart(c) \/ (\E id \in Ids : Add(c, id) \/ Keep(c, id)) => todo' # todo]_vars
<1>1. ASSUME IInv, [Next]_vars, NEW c \in Callers
      PROVE  /\ step[c] \in {"remove", "removing"} =>
                  step'[c] \in {"remove", "removing", "apply"} /\ Present' \subseteq Present
             /\ step[c] \in {"apply", "restarting"} /\ step'[c] # "idle" =>
                  step'[c] \in {"apply", "restarting"} /\ todo' \subseteq todo
             /\ RemoveDelete(c) => Present' # Present
             /\ RestartStart(c) \/ (\E id \in Ids : Add(c, id) \/ Keep(c, id)) => todo' # todo
  <2> USE DEF IInv, TypeOK, Progress, Locked, Holding, Callers, Goto, Present
  <2>1. RemoveDelete(c) => Present' # Present
    BY <1>1 DEF RemoveDelete
  <2>2. RestartStart(c) \/ (\E id \in Ids : Add(c, id) \/ Keep(c, id)) => todo' # todo
    BY <1>1 DEF RestartStart, Add, Keep
  <2>3. ASSUME step[c] \in {"remove", "removing"}
        PROVE  step'[c] \in {"remove", "removing", "apply"} /\ Present' \subseteq Present
    BY <1>1, <2>3, NoLoopAssumption
    DEF Next, ReconcileCall, ReconcileStep, ReconcileLock, RemoveStop, RemoveDelete, RemoveNone, Add,
        RestartStop, RestartStart, Keep, ReconcileReturn, ShutdownCancel, ShutdownStep, ShutdownLock,
        ShutdownWait, LoopCheck, LoopExec, LoopReap, loopUnchanged, loopVars, callVars, vars
  <2>4. ASSUME step[c] \in {"apply", "restarting"}, step'[c] # "idle"
        PROVE  step'[c] \in {"apply", "restarting"} /\ todo' \subseteq todo
    BY <1>1, <2>4
    DEF Next, ReconcileCall, ReconcileStep, ReconcileLock, RemoveStop, RemoveDelete, RemoveNone, Add,
        RestartStop, RestartStart, Keep, ReconcileReturn, ShutdownCancel, ShutdownStep, ShutdownLock,
        ShutdownWait, LoopCheck, LoopExec, LoopReap, loopUnchanged, loopVars, callVars, vars
  <2> QED BY <2>1, <2>2, <2>3, <2>4
<1>2. IInv /\ [Next]_vars =>
        [\A c \in Callers :
           /\ step[c] \in {"remove", "removing"} =>
                step'[c] \in {"remove", "removing", "apply"} /\ Present' \subseteq Present
           /\ step[c] \in {"apply", "restarting"} /\ step'[c] # "idle" =>
                step'[c] \in {"apply", "restarting"} /\ todo' \subseteq todo
           /\ RemoveDelete(c) => Present' # Present
           /\ RestartStart(c) \/ (\E id \in Ids : Add(c, id) \/ Keep(c, id)) => todo' # todo]_vars
  BY <1>1
<1> QED BY <1>2, Invariance, PTL DEF Spec

=============================================================================
