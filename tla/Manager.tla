------------------------------ MODULE Manager ------------------------------
(***************************************************************************)
(* The supervisor manager, internal/pkg/supervisor/manager.go: Reconcile   *)
(* and Shutdown on the map of instances, and the supervision loops they    *)
(* start and stop.                                                         *)
(*                                                                         *)
(* Two goroutines call the manager: the consumer of discovery snapshots    *)
(* (Reconcile) and the main goroutine (Reconcile on SIGHUP, Shutdown on a  *)
(* signal).  Reconcile holds m.mu from its first line to its last and      *)
(* waits inside it for every loop it stops.  A loop is Instance.tla's with *)
(* only the steps the manager's promises depend on: the check of its       *)
(* context, the start of the child with the Target of that moment, the     *)
(* child's exit, and the end of the loop.  Stop returns when the loop has  *)
(* ended or when its timer strikes first; then the loop is given up: it is *)
(* cancelled, nothing refers to it, and it goes on beside the next one.    *)
(*                                                                         *)
(* A Target is what Reconcile compares, endpoint and netns, what it assigns *)
(* to an instance it keeps, labels (the Labels and the Tenant), and what   *)
(* it does neither with, name (and the custom arguments).  The list given  *)
(* to Reconcile is modelled as the map it builds of it.                    *)
(***************************************************************************)
EXTENDS Naturals, Sequences, FiniteSets

CONSTANTS
  Ids,               \* target ids
  Targets,           \* the targets discovery may report
  NormalizeEndpoint, \* netutil.NormalizeEndpoint, as a function on endpoints
  Loops,             \* supervision loops; one that has ended is used again
  NoLoop, NoTarget,  \* the instance does not exist
  TimersStrike       \* the timer of a Stop may strike before its loop ends

(* The targets an instance may hold, and what of them its child serves.    *)
Exporters == [endpoint : DOMAIN NormalizeEndpoint, netns : {t.netns : t \in Targets}]
Held      == [endpoint : DOMAIN NormalizeEndpoint, netns : {t.netns : t \in Targets},
              name : {t.name : t \in Targets}, labels : {t.labels : t \in Targets}]

ASSUME NormalizeIsIdempotent ==
  \A e \in DOMAIN NormalizeEndpoint :
    /\ NormalizeEndpoint[e] \in DOMAIN NormalizeEndpoint
    /\ NormalizeEndpoint[NormalizeEndpoint[e]] = NormalizeEndpoint[e]
ASSUME NoLoopAssumption == NoLoop \notin Loops
ASSUME TargetsAssumption == Targets \subseteq Held /\ NoTarget \notin Held \cup Exporters

VARIABLES
  loopOf,    \* m.instances: the current loop of each instance, NoLoop if none
  target,    \* the Target field of each instance in the map
  ctxDone,   \* m.ctx is cancelled
  mu,        \* the goroutine that holds m.mu, or "free"
  step,      \* where each goroutine is
  goal,      \* the desired targets of the Reconcile that last took the lock
  todo,      \* the ids the holder's second loop has not reached
  victim,    \* the id of the instance the holder is stopping
  cancelled, \* the loops whose context was cancelled by a Stop
  pc,        \* where each loop is
  owner,     \* the id of the instance each loop belongs to
  conf,      \* what each loop's child serves
  former,    \* history: those of the one before, until this one returns
  late       \* history: some Stop has given up waiting for its loop

callVars == <<ctxDone, mu, step, goal, todo, victim>>
loopVars == <<cancelled, pc, owner, conf>>
history == <<former, late>>
vars == <<loopOf, target, callVars, loopVars, history>>

Callers == {"discovery", "main"}
Desired == UNION {[S -> Targets] : S \in SUBSET Ids}
NoIds   == [id \in {} |-> NoTarget]

TypeOK ==
  /\ loopOf \in [Ids -> Loops \cup {NoLoop}]
  /\ target \in [Ids -> Held \cup {NoTarget}]
  /\ ctxDone \in BOOLEAN
  /\ mu \in Callers \cup {"free"}
  /\ step \in [Callers -> {"idle", "lock", "remove", "removing", "apply", "restarting",
                           "shutlock", "stopping", "exit"}]
  /\ goal \in Desired
  /\ todo \in SUBSET Ids
  /\ victim \in Ids
  /\ cancelled \in SUBSET Loops
  /\ pc \in [Loops -> {"ended", "check", "exec", "up"}]
  /\ owner \in [Loops -> Ids]
  /\ conf \in [Loops -> Exporters \cup {NoTarget}]
  /\ former \in Desired
  /\ late \in BOOLEAN

Init ==
  /\ loopOf = [id \in Ids |-> NoLoop]
  /\ target = [id \in Ids |-> NoTarget]
  /\ ctxDone = FALSE
  /\ mu = "free"
  /\ step = [c \in Callers |-> "idle"]
  /\ goal = NoIds
  /\ todo = {}
  /\ victim \in Ids
  /\ cancelled = {}
  /\ pc = [g \in Loops |-> "ended"]
  /\ owner = [g \in Loops |-> victim]
  /\ conf = [g \in Loops |-> NoTarget]
  /\ former = NoIds
  /\ late = FALSE

Done(g)    == ctxDone \/ g \in cancelled
Current(g) == loopOf[owner[g]] = g
Present    == {id \in Ids : loopOf[id] # NoLoop}
FreeFor(id) == {g \in Loops : /\ pc[g] = "ended"
                               /\ \A other \in Ids \ {id} : loopOf[other] # g}

(* NewInstance normalizes the endpoint of the Target it keeps.             *)
Normalized(t) == [t EXCEPT !.endpoint = NormalizeEndpoint[t.endpoint]]

(* What a child is told of a Target on its command line and by its netns.  *)
Served(t) == [endpoint |-> t.endpoint, netns |-> t.netns]

-----------------------------------------------------------------------------
(* Reconcile.                                                              *)

Goto(c, from, to) == step[c] = from /\ step' = [step EXCEPT ![c] = to]

ReconcileCall(c) == /\ Goto(c, "idle", "lock")
                    /\ UNCHANGED <<loopOf, target, ctxDone, mu, goal, todo, victim, loopVars, history>>

\* With the desired targets it was called with.
ReconcileLock(c) == /\ mu = "free"
                    /\ mu' = c
                    /\ Goto(c, "lock", "remove")
                    /\ goal' \in Desired
                    /\ former' = goal
                    /\ UNCHANGED <<loopOf, target, ctxDone, todo, victim, loopVars, late>>

\* inst.Start under m.ctx, with a new context of its own.
StartLoop(id) == \E g \in FreeFor(id) :
  /\ loopOf' = [loopOf EXCEPT ![id] = g]
  /\ owner' = [owner EXCEPT ![g] = id]
  /\ pc' = [pc EXCEPT ![g] = "check"]
  /\ cancelled' = cancelled \ {g}

\* Mutant: the context of the loop is left alone.
StopLoopMut(id) == victim' = id /\ UNCHANGED cancelled

StopLoop(id) == /\ victim' = id
                /\ cancelled' = cancelled \cup {loopOf[id]}

\* The loops the holder of the lock waits for, and the return of their Stops:
\* all of them have ended, or the timer of one has struck before.
Awaited     == {g \in IF step[mu] = "stopping" THEN {loopOf[id] : id \in Present}
                                             ELSE {loopOf[victim]} : pc[g] # "ended"}
StopReturns == (Awaited = {} \/ TimersStrike) /\ late' = (late \/ Awaited # {})

RemoveStop(c, id) == /\ Goto(c, "remove", "removing")
                     /\ id \in Present \ DOMAIN goal
                     /\ StopLoop(id)
                     /\ UNCHANGED <<loopOf, target, ctxDone, mu, goal, todo, pc, owner, conf, history>>

RemoveDelete(c) == /\ Goto(c, "removing", "remove")
                   /\ StopReturns
                   /\ loopOf' = [loopOf EXCEPT ![victim] = NoLoop]
                   /\ target' = [target EXCEPT ![victim] = NoTarget]
                   /\ UNCHANGED <<ctxDone, mu, goal, todo, victim, loopVars, former>>

RemoveNone(c) == /\ Goto(c, "remove", "apply")
                 /\ Present \subseteq DOMAIN goal
                 /\ todo' = DOMAIN goal
                 /\ UNCHANGED <<loopOf, target, ctxDone, mu, goal, victim, loopVars, history>>

Add(c, id) == /\ Goto(c, "apply", "apply")
              /\ id \in todo \ Present
              /\ todo' = todo \ {id}
              /\ target' = [target EXCEPT ![id] = Normalized(goal[id])]
              /\ StartLoop(id)
              /\ UNCHANGED <<ctxDone, mu, goal, victim, conf, history>>

\* Mutant: only the endpoint is compared.
ChangedMut(id, t) == target[id].endpoint # t.endpoint

Changed(id, t) == target[id].endpoint # t.endpoint \/ target[id].netns # t.netns

RestartStop(c, id) == /\ Goto(c, "apply", "restarting")
                      /\ id \in todo \cap Present
                      /\ Changed(id, goal[id])
                      /\ StopLoop(id)
                      /\ UNCHANGED <<loopOf, target, ctxDone, mu, goal, todo, pc, owner, conf, history>>

\* Mutant: the instance is restarted with the target it had.
RestartStartMut(c) == /\ Goto(c, "restarting", "apply")
                      /\ StopReturns
                      /\ todo' = todo \ {victim}
                      /\ StartLoop(victim)
                      /\ UNCHANGED <<target, ctxDone, mu, goal, victim, conf, former>>

\* existing.Target = t, then Start.  NewInstance's normalization is not redone.
RestartStart(c) == /\ Goto(c, "restarting", "apply")
                   /\ StopReturns
                   /\ todo' = todo \ {victim}
                   /\ target' = [target EXCEPT ![victim] = goal[victim]]
                   /\ StartLoop(victim)
                   /\ UNCHANGED <<ctxDone, mu, goal, victim, conf, former>>

\* Mutant: the whole Target is copied, as if the endpoint reached the child.
KeepMut(c, id) == /\ Goto(c, "apply", "apply")
                  /\ id \in todo \cap Present
                  /\ todo' = todo \ {id}
                  /\ target' = [target EXCEPT ![id] = goal[id]]
                  /\ UNCHANGED <<loopOf, ctxDone, mu, goal, victim, loopVars, history>>

\* The Labels and the Tenant are assigned in place, the Name is not.
Keep(c, id) == /\ Goto(c, "apply", "apply")
               /\ id \in todo \cap Present
               /\ ~Changed(id, goal[id])
               /\ todo' = todo \ {id}
               /\ target' = [target EXCEPT ![id].labels = goal[id].labels]
               /\ UNCHANGED <<loopOf, ctxDone, mu, goal, victim, loopVars, history>>

ReconcileReturn(c) == /\ Goto(c, "apply", "idle")
                      /\ todo = {}
                      /\ mu' = "free"
                      /\ former' = NoIds
                      /\ UNCHANGED <<loopOf, target, ctxDone, goal, todo, victim, loopVars, late>>

ReconcileStep(c) == \/ ReconcileLock(c) \/ RemoveDelete(c) \/ RemoveNone(c)
                    \/ RestartStart(c) \/ ReconcileReturn(c)
                    \/ \E id \in Ids : RemoveStop(c, id) \/ Add(c, id)
                                         \/ RestartStop(c, id) \/ Keep(c, id)

-----------------------------------------------------------------------------
(* Shutdown, called once by the main goroutine.                            *)

\* Mutant: the context is left alone.
ShutdownCancelMut == /\ Goto("main", "idle", "shutlock")
                     /\ UNCHANGED <<loopOf, target, ctxDone, mu, goal, todo, victim, loopVars, history>>

\* m.cancel() comes before the lock.
ShutdownCancel == /\ Goto("main", "idle", "shutlock")
                  /\ ctxDone' = TRUE
                  /\ UNCHANGED <<loopOf, target, mu, goal, todo, victim, loopVars, history>>

ShutdownLock == /\ mu = "free"
                /\ mu' = "main"
                /\ Goto("main", "shutlock", "stopping")
                /\ cancelled' = cancelled \cup {loopOf[id] : id \in Present}
                /\ UNCHANGED <<loopOf, target, ctxDone, goal, todo, victim, pc, owner, conf, history>>

\* Mutant: Shutdown does not wait for the Stops it started.
ShutdownWaitMut == /\ Goto("main", "stopping", "exit")
                   /\ mu' = "free"
                   /\ loopOf' = [id \in Ids |-> NoLoop]
                   /\ target' = [id \in Ids |-> NoTarget]
                   /\ UNCHANGED <<ctxDone, goal, todo, victim, loopVars, history>>

\* wg.Wait() for all the Stops, clear(m.instances).
ShutdownWait == /\ Goto("main", "stopping", "exit")
                /\ StopReturns
                /\ mu' = "free"
                /\ loopOf' = [id \in Ids |-> NoLoop]
                /\ target' = [id \in Ids |-> NoTarget]
                /\ UNCHANGED <<ctxDone, goal, todo, victim, loopVars, former>>

ShutdownStep == ShutdownLock \/ ShutdownWait

-----------------------------------------------------------------------------
(* The loops.                                                              *)

Move(g, from, to) == pc[g] = from /\ pc' = [pc EXCEPT ![g] = to]
loopUnchanged == UNCHANGED <<loopOf, target, callVars, cancelled, owner, history>>

\* Mutant: the loop never looks at its context.
LoopCheckMut(g) == /\ Move(g, "check", "exec")
                   /\ UNCHANGED conf /\ loopUnchanged

LoopCheck(g) == /\ Move(g, "check", IF Done(g) THEN "ended" ELSE "exec")
                /\ UNCHANGED conf /\ loopUnchanged

\* execProcess reads inst.Target when it builds the command; it may fail.  What
\* a loop that has been given up reads there is not followed.
LoopExec(g) == /\ \/ /\ Move(g, "exec", "up")
                     /\ conf' = [conf EXCEPT ![g] = IF Current(g) THEN Served(target[owner[g]])
                                                                  ELSE NoTarget]
                  \/ /\ Move(g, "exec", "check")
                     /\ UNCHANGED conf
               /\ loopUnchanged

\* The child exits by itself, or is killed because the context is done.
LoopReap(g) == /\ Move(g, "up", "check")
               /\ conf' = [conf EXCEPT ![g] = NoTarget]
               /\ loopUnchanged

Next == \/ \E c \in Callers : ReconcileCall(c) \/ ReconcileStep(c)
        \/ ShutdownCancel \/ ShutdownStep
        \/ \E g \in Loops : LoopCheck(g) \/ LoopExec(g) \/ LoopReap(g)

Spec == Init /\ [][Next]_vars

(* Loops run, killed children die, a goroutine that waits for m.mu gets it *)
(* (Go's mutexes do not starve a waiter).  The timers of Stop are not      *)
(* counted on: a Stop is only sure to return when its loop has ended.      *)
Waits(c) == step[c] \in {"removing", "restarting"} /\ Awaited # {}
Fairness ==
  /\ \A g \in Loops : /\ WF_vars(LoopCheck(g) \/ LoopExec(g))
                      /\ WF_vars(Done(g) /\ LoopReap(g))
  /\ \A c \in Callers : WF_vars(ReconcileStep(c) /\ ~Waits(c)) /\ SF_vars(ReconcileLock(c))
  /\ WF_vars(ShutdownWait /\ Awaited = {}) /\ SF_vars(ShutdownLock)

FairSpec == Spec /\ Fairness

-----------------------------------------------------------------------------
(* Safety.                                                                 *)

\* The same process for the exporter's eyes: endpoint up to normalization and
\* network namespace.
Serves(t, u) == /\ NormalizeEndpoint[t.endpoint] = NormalizeEndpoint[u.endpoint]
                /\ t.netns = u.netns

\* Between two Reconciles the map holds exactly the targets of the last one,
\* each labelled as that one says, and every loop of the process is the only
\* one of its instance, still wanted, its child serving the endpoint and the
\* namespace listed; any other was told to end by a Stop that did not see the
\* end of it (Reconcile, manager.go 64-113, with the loops beside it).
MatchesGoal ==
  mu = "free" /\ ~ctxDone =>
    /\ Present = DOMAIN goal
    /\ \A id \in Present : target[id].labels = goal[id].labels
    /\ \A g \in Loops : pc[g] # "ended" =>
         IF Current(g)
         THEN g \notin cancelled /\ (pc[g] = "up" => Serves(conf[g], goal[owner[g]]))
         ELSE late /\ g \in cancelled

\* Once Shutdown has returned no child is left, but that of a loop a Stop has
\* given up, and none is ever started, even by a Reconcile that runs after it
\* (manager.go 205-222: m.cancel() before the lock; a loop started under the
\* cancelled context ends at once).
QuietAfterShutdown ==
  step["main"] = "exit" =>
    \A g \in Loops : pc[g] \in {"ended", "check"} \/ (late /\ ~Current(g))

\* No instance loses track of a loop that may go on: one that has not ended is
\* the current loop of its instance, or a Stop cancelled it and lost patience.
NoLostLoop ==
  \A g \in Loops : pc[g] # "ended" => Current(g) \/ (late /\ g \in cancelled)

\* A target whose description did not change since the last Reconcile, and
\* was normalized in it, keeps its child (manager.go 96-112).
SteadyTargetIsKept ==
  [][\A c \in Callers, id \in Ids :
       RestartStop(c, id) => ~ /\ id \in DOMAIN former
                               /\ former[id] = goal[id]
                               /\ Normalized(goal[id]) = goal[id]]_vars

-----------------------------------------------------------------------------
(* What the manager promises.                                              *)

\* What a child is to serve, up to the normalization of its endpoint, and a
\* list of targets as a map on all the ids.
Meaning(t) == IF t = NoTarget THEN NoTarget
              ELSE [endpoint |-> NormalizeEndpoint[t.endpoint], netns |-> t.netns]
Meanings(l) == [id \in Ids |-> IF id \in DOMAIN l THEN Meaning(l[id]) ELSE NoTarget]

Applier == {c \in Callers : step[c] \in {"remove", "removing", "apply", "restarting"}}
Meant   == [id \in Ids |-> Meaning(target[id])]
Up      == {g \in Loops : pc[g] = "up" /\ Current(g)}
Kids    == {[place |-> g, id |-> owner[g], target |-> Meaning(conf[g])] : g \in Up}
GivenUp == {g \in Loops : pc[g] # "ended" /\ ~Current(g)}

F == INSTANCE Fleet WITH Places <- Loops, Targets <- Exporters, list <- Meanings(goal),
                         applying <- Applier # {}, meant <- Meant, children <- Kids,
                         given <- GivenUp, closed <- step["main"] = "exit"

\* Reconcile and Shutdown, with the loops running beside them, are what Fleet
\* promises: a list is applied one instance at a time, each while it has no
\* child or its child is given up, no other list is taken up before it is
\* applied, a child serves what the map says at its start, and after Shutdown
\* there is none (manager.go 53-113 and 203-222).
ImplementsFleet == F!FleetSpec

-----------------------------------------------------------------------------
(* Liveness.                                                               *)

\* Reconcile and Shutdown return, whatever the loops they wait for do, whoever
\* else wants the lock, and although no timer of a Stop strikes.
CallsReturn == \A c \in Callers : (step[c] # "idle") ~> (step[c] \in {"idle", "exit"})

-----------------------------------------------------------------------------
(* What the repository says of the program and the program does not do.    *)

\* manager.go 96: an instance is restarted if its endpoint or critical
\* configuration changed, and a target reported twice has not changed.
RestartOnlyIfChanged ==
  [][\A c \in Callers, id \in Ids :
       RestartStop(c, id) => ~(id \in DOMAIN former /\ former[id] = goal[id])]_vars
=============================================================================
