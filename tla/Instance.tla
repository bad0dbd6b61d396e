------------------------------ MODULE Instance ------------------------------
(***************************************************************************)
(* One supervised child exporter: internal/pkg/supervisor/instance.go.     *)
(*                                                                         *)
(* Four kinds of actor work on the fields of one Instance and on the       *)
(* socket file it owns:                                                    *)
(*   - its supervision loops (runLoop and the execProcess it calls), one   *)
(*     goroutine per Start, each with its own context and stoppedCh;       *)
(*   - the caller of Start and Stop (Reconcile and Shutdown call them      *)
(*     under the manager's lock, so one call at a time);                   *)
(*   - the health loop, whose CheckHealth writes state when the HTTP       *)
(*     answer comes, whatever happened since the request;                  *)
(*   - the operating system: the child, which may exit at any moment, and  *)
(*     the watcher of exec.CommandContext, which kills it on cancellation. *)
(*                                                                         *)
(* A loop is named by the number of the Start that made it, and so are its *)
(* context, its channel, its listener and the pid of its child, which it   *)
(* has one of at a time.  A pid that Stop copied and that was reaped since *)
(* is only a number (Gone), which Stop signals all the same.               *)
(***************************************************************************)
EXTENDS Integers

CONSTANT MaxStarts       \* bound: how many times Start may be called

ASSUME MaxStartsAssumption == MaxStarts \in Nat \ {0}

Loops == 1 .. MaxStarts
None  == 0               \* no loop: a zero pid, a missing file, no Start yet
Stale == -1              \* a socket file left behind by an earlier supervisor
Gone  == -2              \* the pid of a child that has been reaped

VARIABLES
  state,       \* Instance.state
  pid,         \* Instance.pid
  cur,         \* the loop of Instance.cancelFunc and Instance.stoppedCh
  cancelled,   \* the loops whose own context was cancelled by a Stop
  parentDone,  \* the manager's context is cancelled
  pc,          \* where each loop is
  child,       \* the child process of each loop
  sock,        \* the listener the file at SocketPath belongs to
  ctl,         \* where the caller of Start and Stop is
  stopPid,     \* the local pid of Stop
  late,        \* history: some Stop has given up waiting for its loop
  probe        \* the answer CheckHealth has got and not yet recorded

vars == <<state, pid, cur, cancelled, parentDone, pc, child, sock,
          ctl, stopPid, late, probe>>

States == {"starting", "running", "unhealthy", "restarting", "stopped"}
Alive  == {"running", "terminating"}   \* still executing its own code
PCs    == {"idle", "check", "begin", "stale", "listen", "fork", "spawn",
           "record", "wait", "clear", "unlink", "abort", "after", "crashed", "backoff",
           "quit", "closing", "done"}

TypeOK ==
  /\ state \in States
  /\ pid \in Loops \cup {None}
  /\ cur \in Loops \cup {None}
  /\ cancelled \in SUBSET Loops
  /\ parentDone \in BOOLEAN
  /\ pc \in [Loops -> PCs]
  /\ child \in [Loops -> Alive \cup {"none", "killed", "zombie"}]
  /\ sock \in Loops \cup {None, Stale}
  /\ ctl \in {"new", "running", "cancel", "term", "await", "unlink", "mark", "stopped"}
  /\ stopPid \in Loops \cup {None, Gone}
  /\ late \in BOOLEAN
  /\ probe \in {"idle", "up", "down"}

(* NewInstance: no loop yet; the socket path may hold an old file.         *)
Init ==
  /\ state = "starting"
  /\ pid = None
  /\ cur = None
  /\ cancelled = {}
  /\ parentDone = FALSE
  /\ pc = [g \in Loops |-> "idle"]
  /\ child = [g \in Loops |-> "none"]
  /\ sock \in {None, Stale}
  /\ ctl = "new"
  /\ stopPid = None
  /\ late = FALSE
  /\ probe = "idle"

(* ctx.Done() of loop g: its own cancel function, or the manager's.        *)
Done(g) == parentDone \/ g \in cancelled

Goto(g, from, to) == pc[g] = from /\ pc' = [pc EXCEPT ![g] = to]

callerVars == <<cur, cancelled, parentDone, ctl, stopPid, late, probe>>

-----------------------------------------------------------------------------
(* The supervision loop: runLoop, and execProcess inlined at its call.     *)

\* The select at the head of the for loop.
Check(g) == /\ Goto(g, "check", IF Done(g) THEN "quit" ELSE "begin")
            /\ UNCHANGED <<state, pid, child, sock, callerVars>>

Begin(g) == /\ Goto(g, "begin", "stale")
            /\ state' = "starting"
            /\ UNCHANGED <<pid, child, sock, callerVars>>

\* os.Remove of whatever file is at the socket path.
RemoveStale(g) == /\ Goto(g, "stale", "listen")
                  /\ sock' = None
                  /\ UNCHANGED <<state, pid, child, callerVars>>

\* net.Listen binds the path if it is free, and it may fail in any case
\* (then execProcess returns before its deferred removal is registered).
Listen(g) == /\ \/ /\ sock = None
                   /\ Goto(g, "listen", "fork")
                   /\ sock' = g
                \/ /\ Goto(g, "listen", "after")
                   /\ UNCHANGED sock
             /\ UNCHANGED <<state, pid, child, callerVars>>

\* Mutant: without SetUnlinkOnClose(false), listener.Close() removes the file.
ForkMut(g) == /\ \/ ~Done(g) /\ Goto(g, "fork", "spawn") /\ sock' = None
                 \/ Goto(g, "fork", "abort") /\ UNCHANGED sock
              /\ UNCHANGED <<state, pid, child, callerVars>>

\* cmd.Start looks at the context first; it, File() and the pipes may fail.
Fork(g) == /\ \/ ~Done(g) /\ Goto(g, "fork", "spawn")
              \/ Goto(g, "fork", "abort")
           /\ UNCHANGED <<state, pid, child, sock, callerVars>>

\* ... then it starts the process, which may fail too.
SpawnChild(g) == /\ \/ /\ Goto(g, "spawn", "record")
                       /\ child' = [child EXCEPT ![g] = "running"]
                    \/ /\ Goto(g, "spawn", "abort")
                       /\ UNCHANGED child
                 /\ UNCHANGED <<state, pid, sock, callerVars>>

RecordPid(g) == /\ Goto(g, "record", "wait")
                /\ pid' = g
                /\ state' = "running"
                /\ UNCHANGED <<child, sock, callerVars>>

\* Mutant: execProcess leaves on cancellation without waiting for the child.
ReapMut(g) == /\ Goto(g, "wait", "clear")
              /\ child[g] = "zombie" \/ Done(g)
              /\ child' = [child EXCEPT ![g] = IF @ = "zombie" THEN "none" ELSE @]
              /\ stopPid' = IF stopPid = g THEN Gone ELSE stopPid
              /\ UNCHANGED <<state, pid, sock, cur, cancelled, parentDone, ctl, late, probe>>

\* cmd.Wait reaps the child: from now on its pid is anybody's.
Reap(g) == /\ Goto(g, "wait", "clear")
           /\ child[g] = "zombie"
           /\ child' = [child EXCEPT ![g] = "none"]
           /\ stopPid' = IF stopPid = g THEN Gone ELSE stopPid
           /\ UNCHANGED <<state, pid, sock, cur, cancelled, parentDone, ctl, late, probe>>

ClearPid(g) == /\ Goto(g, "clear", "unlink")
               /\ pid' = None
               /\ UNCHANGED <<state, child, sock, callerVars>>

\* The deferred os.Remove of execProcess, after a child or without one, whoever
\* bound the file by then.
Unlink(g) == /\ Goto(g, "unlink", "after") \/ Goto(g, "abort", "after")
             /\ sock' = None
             /\ UNCHANGED <<state, pid, child, callerVars>>

\* Mutant: the exit of the child is final.
AfterExecMut(g) == /\ Goto(g, "after", "quit")
                   /\ UNCHANGED <<state, pid, child, sock, callerVars>>

\* Back in runLoop: ctx.Err() decides between leaving and restarting.
AfterExec(g) == /\ Goto(g, "after", IF Done(g) THEN "quit" ELSE "crashed")
                /\ UNCHANGED <<state, pid, child, sock, callerVars>>

MarkRestarting(g) == /\ Goto(g, "crashed", "backoff")
                     /\ state' = "restarting"
                     /\ UNCHANGED <<pid, child, sock, callerVars>>

\* Mutant: the pause listens to nothing but a timer that is never armed.
BackoffMut(g) == /\ FALSE
                 /\ Goto(g, "backoff", "check")
                 /\ UNCHANGED <<state, pid, child, sock, callerVars>>

\* The select on ctx.Done() and time.After(backoff); both may be ready.
Backoff(g) == /\ \/ Done(g) /\ Goto(g, "backoff", "quit")
                 \/ Goto(g, "backoff", "check")
              /\ UNCHANGED <<state, pid, child, sock, callerVars>>

Quit(g) == /\ Goto(g, "quit", "closing")
           /\ state' = "stopped"
           /\ UNCHANGED <<pid, child, sock, callerVars>>

\* The deferred close(stoppedCh), the last thing a loop does.
CloseStopped(g) == /\ Goto(g, "closing", "done")
                   /\ UNCHANGED <<state, pid, child, sock, callerVars>>

LoopStep(g) ==
  \/ Check(g) \/ Begin(g) \/ RemoveStale(g) \/ Listen(g) \/ Fork(g)
  \/ SpawnChild(g) \/ RecordPid(g) \/ Reap(g) \/ ClearPid(g) \/ Unlink(g)
  \/ AfterExec(g) \/ MarkRestarting(g) \/ Backoff(g) \/ Quit(g) \/ CloseStopped(g)

-----------------------------------------------------------------------------
(* The operating system.                                                   *)

osUnchanged == UNCHANGED <<state, pid, pc, sock, callerVars>>

\* The child exits: on its own, on SIGTERM, or because it was killed.
ChildExit(g) == /\ child[g] \in Alive \cup {"killed"}
                /\ child' = [child EXCEPT ![g] = "zombie"]
                /\ osUnchanged

\* The goroutine of exec.CommandContext kills the child once ctx is done.
WatcherKill(g) == /\ Done(g)
                  /\ child[g] \in Alive
                  /\ child' = [child EXCEPT ![g] = "killed"]
                  /\ osUnchanged

-----------------------------------------------------------------------------
(* Start and Stop, called one at a time, Stop only after a Start, and the  *)
(* cancellation of the manager's context, which may come at any moment.    *)

loopVars == <<pc, sock, probe>>

Start == /\ ctl \in {"new", "stopped"}
         /\ cur < MaxStarts
         /\ cur' = cur + 1
         /\ pc' = [pc EXCEPT ![cur + 1] = "check"]
         /\ ctl' = "running"
         /\ UNCHANGED <<state, pid, cancelled, parentDone, child, sock, stopPid, late, probe>>

\* Stop copies cancelFunc, pid and stoppedCh under inst.mu.
StopRead == /\ ctl = "running"
            /\ ctl' = "cancel"
            /\ stopPid' = IF pid # None /\ child[pid] = "none" THEN Gone ELSE pid
            /\ UNCHANGED <<state, pid, cur, cancelled, parentDone, child, late, loopVars>>

StopCancel == /\ ctl = "cancel"
              /\ ctl' = "term"
              /\ cancelled' = cancelled \cup {cur}
              /\ UNCHANGED <<state, pid, cur, parentDone, child, stopPid, late, loopVars>>

\* Whom a signal to the copied pid reaches: the child it names, or, once that
\* one has been reaped, whoever has the number by then, which is a process of
\* somebody else or a child of a later fork.
Receivers == CASE stopPid \in Loops -> {{stopPid}}
               [] stopPid = None    -> {{}}
               [] stopPid = Gone    -> {{}} \cup {{g} : g \in Loops}

\* SIGTERM to the pid copied before the cancellation.
StopTerm == /\ ctl = "term"
            /\ ctl' = "await"
            /\ \E hit \in Receivers :
                 child' = [g \in Loops |-> IF g \in hit /\ child[g] = "running"
                                           THEN "terminating" ELSE child[g]]
            /\ UNCHANGED <<state, pid, cur, cancelled, parentDone, stopPid, late, loopVars>>

\* Mutant: Stop does not wait for stoppedCh.
StopClosedMut == /\ ctl = "await"
                 /\ ctl' = "unlink"
                 /\ UNCHANGED <<state, pid, cur, cancelled, parentDone, child, stopPid, late, loopVars>>

StopClosed == /\ ctl = "await"
              /\ pc[cur] = "done"
              /\ ctl' = "unlink"
              /\ UNCHANGED <<state, pid, cur, cancelled, parentDone, child, stopPid, late, loopVars>>

\* ShutdownTimeout elapses first: SIGKILL to the same pid, and go on.
StopTimeout == /\ ctl = "await"
               /\ ctl' = "unlink"
               /\ \E hit \in Receivers :
                    child' = [g \in Loops |-> IF g \in hit /\ child[g] \in Alive
                                              THEN "killed" ELSE child[g]]
               /\ late' = TRUE
               /\ UNCHANGED <<state, pid, cur, cancelled, parentDone, stopPid, loopVars>>

StopUnlink == /\ ctl = "unlink"
              /\ ctl' = "mark"
              /\ sock' = None
              /\ UNCHANGED <<state, pid, cur, cancelled, parentDone, pc, child,
                             stopPid, late, probe>>

StopMark == /\ ctl = "mark"
            /\ ctl' = "stopped"
            /\ state' = "stopped"
            /\ stopPid' = None
            /\ UNCHANGED <<pid, cur, cancelled, parentDone, child, late, loopVars>>

StopStep == StopRead \/ StopCancel \/ StopTerm \/ StopClosed \/ StopTimeout
              \/ StopUnlink \/ StopMark

CancelParent == /\ ~parentDone
                /\ parentDone' = TRUE
                /\ UNCHANGED <<state, pid, cur, cancelled, child, ctl, stopPid, late, loopVars>>

-----------------------------------------------------------------------------
(* CheckHealth, called by one goroutine for every instance it knew of.     *)

\* The HTTP exchange over the socket, or over a connection kept alive: only
\* an exporter that still executes can answer 200, and only while the context
\* of the request, a child of the manager's, is not cancelled.
HealthAnswer == /\ probe = "idle"
                /\ cur # None
                /\ \/ /\ ~parentDone
                      /\ \E g \in Loops : child[g] \in Alive
                      /\ probe' = "up"
                   \/ probe' = "down"
                /\ UNCHANGED <<state, pid, cur, cancelled, parentDone, pc, child,
                               sock, ctl, stopPid, late>>

\* Mutant: a state outside the enumeration.
HealthSetMut == /\ probe # "idle"
                /\ state' = IF probe = "up" THEN "healthy" ELSE "unhealthy"
                /\ probe' = "idle"
                /\ UNCHANGED <<pid, cur, cancelled, parentDone, pc, child, sock,
                               ctl, stopPid, late>>

\* Mutant: a health answer does not bring back an instance that is stopped.
HealthSetLateMut == /\ probe # "idle"
                    /\ state' = CASE state = "stopped" -> state
                                  [] state # "stopped" /\ probe = "up" -> "running"
                                  [] OTHER -> "unhealthy"
                    /\ probe' = "idle"
                    /\ UNCHANGED <<pid, cur, cancelled, parentDone, pc, child, sock,
                                   ctl, stopPid, late>>

\* The state is written when the answer is processed.
HealthSet == /\ probe # "idle"
             /\ state' = IF probe = "up" THEN "running" ELSE "unhealthy"
             /\ probe' = "idle"
             /\ UNCHANGED <<pid, cur, cancelled, parentDone, pc, child, sock,
                            ctl, stopPid, late>>

-----------------------------------------------------------------------------
Next == \/ Start
        \/ StopStep
        \/ CancelParent
        \/ HealthAnswer
        \/ HealthSet
        \/ \E g \in Loops : LoopStep(g) \/ ChildExit(g) \/ WatcherKill(g)

Spec == Init /\ [][Next]_vars

(* Goroutines that can run do run, a killed process dies, the watcher of a *)
(* cancelled context wakes up.  A child that was not killed need not exit, *)
(* a timeout need not strike, nobody has to call Start or Stop.            *)
Fairness ==
  /\ \A g \in Loops : /\ WF_vars(LoopStep(g))
                      /\ WF_vars(child[g] = "killed" /\ ChildExit(g))
                      /\ WF_vars(WatcherKill(g))
  /\ WF_vars(StopCancel) /\ WF_vars(StopTerm) /\ WF_vars(StopClosed)
  /\ WF_vars(StopUnlink) /\ WF_vars(StopMark)

FairSpec == Spec /\ Fairness

-----------------------------------------------------------------------------
(* Safety.                                                                 *)

\* Start and Stop never leave two loops that both keep a child running: every
\* loop but the last one started is cancelled, even when Stop gave up waiting
\* (Stop's cancel(), instance.go 332-334).
OneActiveLoop ==
  \A g \in Loops : pc[g] # "idle" /\ g # cur => g \in cancelled

\* When Stop returns without having timed out, nothing of the instance is
\* left: every loop has ended, every child is reaped, no pid is recorded and
\* the socket file is gone (Stop, instance.go 325-365, and what runLoop does
\* before it closes stoppedCh).
StopLeavesNothing ==
  ctl = "stopped" /\ ~late =>
    /\ \A g \in Loops : pc[g] \in {"idle", "done"} /\ child[g] = "none"
    /\ pid = None
    /\ sock = None

\* One exporter process per instance as long as no Stop has timed out: a
\* restart never overlaps the child it replaces.
OneProcess ==
  ~late => \A g, h \in Loops : child[g] # "none" /\ child[h] # "none" => g = h

\* The recorded pid is that of a child its loop is waiting for or has just
\* reaped, however many Stops have timed out.  This is all that is promised of
\* the pid Stop copies: it may be reaped before Stop signals it, and the line
\* that clears it may clear the pid of the next loop's child (instance.go 307),
\* which is then ended by the cancellation of its context alone.
PidNamesChild == pid # None => pc[pid] \in {"wait", "clear"}

\* While a child runs the file at SocketPath is its listener, until a Stop
\* times out (execProcess removes, binds and keeps the file, and no other
\* step of any actor takes it away).
SocketServed ==
  ~late => \A g \in Loops : child[g] # "none" => sock = g

-----------------------------------------------------------------------------
(* Liveness.                                                               *)

\* Every cancelled loop ends: the child is killed and reaped and stoppedCh is
\* closed, wherever the cancellation finds the loop (runLoop's two selects,
\* its check after execProcess, the watcher of CommandContext), and whomever
\* Stop's signals reach, if an older loop has wiped the pid or it was reaped;
\* and Stop returns, without the help of its timer (instance.go 344-358).
CancellationEnds ==
  /\ \A g \in Loops : (pc[g] # "idle" /\ Done(g)) ~> (pc[g] = "done")
  /\ (ctl = "cancel") ~> (ctl = "stopped")

\* A child that exits is started again, or its loop was cancelled: the loop
\* comes back to execProcess (instance.go 158-195).
CrashIsRetried ==
  \A g \in Loops : (pc[g] = "clear") ~> (pc[g] = "stale" \/ Done(g))

\* A health answer that is written after the child has died says running of an
\* instance without a process (instance.go 403, which /health repeats), but not
\* for ever: unless it is being stopped it gets a child or loses that state.
FalseRunningEnds ==
  LET untouched == ctl = "running" /\ ~parentDone
      childless == \A g \in Loops : child[g] = "none"
  IN  (state = "running" /\ childless /\ untouched)
        ~> (state # "running" \/ ~childless \/ ~untouched)

\* An instance that was started again is not shown as stopped for ever, although
\* a loop whose Stop timed out says so when it ends, over whatever the next loop
\* has written (instance.go 161 and 170): when the health loop comes round it
\* writes state as well (manager.go 129-142).
FalseStoppedEnds ==
  LET untouched == ctl = "running" /\ ~parentDone
  IN  WF_vars(HealthAnswer \/ HealthSet) =>
        ((state = "stopped" /\ untouched) ~> (state # "stopped" \/ ~untouched))

-----------------------------------------------------------------------------
(* The abstract specification, and what the loops mean in it.              *)

phase == [g \in Loops |-> CASE pc[g] = "idle" -> "unused"
                             [] pc[g] = "done" -> "closed"
                             [] pc[g] \notin {"idle", "done"} /\ Done(g) -> "draining"
                             [] OTHER -> "active"]
live == {g \in Loops : child[g] # "none"}

Sup == INSTANCE Supervision WITH Gens <- Loops

\* The loops, the signals and the socket implement Supervision: a loop closes
\* stoppedCh only when it is cancelled and its process is gone, and then it
\* never has one again.
ImplementsSupervision == Sup!AbsSpec

-----------------------------------------------------------------------------
(* What the repository says of the program and the program does not do.    *)

\* config.example.yaml 40, README 223: SIGKILL is sent when shutdown_timeout
\* has elapsed after SIGTERM, not before.
KilledOnlyAfterTimeout ==
  \A g \in Loops : child[g] = "killed" => late \/ parentDone

\* instance.go 204: what execProcess removes from the path is a stale socket;
\* the removal it defers for the end of its child takes away its own file or a
\* stale one, never that of a later loop.
DeferredRemoveOwnsFile ==
  [][\A g \in Loops : Unlink(g) /\ pc[g] = "unlink" => ~(sock > g)]_vars
=============================================================================
