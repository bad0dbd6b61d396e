-------------------------------- MODULE App --------------------------------
(***************************************************************************)
(* The application, pkg/cmd/app.go: runSupervisor's main goroutine, which  *)
(* handles signals and the failure of the HTTP server, and the goroutine   *)
(* that consumes the inventory snapshots.  They share two things without   *)
(* a lock of their own: the variable netnsResolver, and the supervisor     *)
(* manager, whose Reconcile each of them calls with a list of its own.     *)
(*                                                                         *)
(* The parts around them are used through what their own modules show:     *)
(* discovery puts a merged list into its bounded channel, in one step that *)
(* may drop the oldest (Snapshots.tla, which Discovery.tla implements); a  *)
(* Reconcile is atomic, starts nothing once the manager is shut down, and  *)
(* ends with exactly the instances it was given (Manager.tla).  Two        *)
(* providers are there: the static one, which reports the targets of the   *)
(* first configuration once, and one that polls.  A target is its id and   *)
(* the namespace it resolves to; a target with an explicit namespace       *)
(* resolves alike everywhere.                                              *)
(***************************************************************************)
EXTENDS Naturals, Sequences

CONSTANTS
  Ids,          \* target ids
  Polled,       \* the ids the polling provider may list
  Files,        \* the contents the configuration file may have
  FirstFile,    \* the one it has at start
  StaticIn,     \* StaticIn[f]: the ids of discovery.static.targets in f
  StaticOn,     \* the files with discovery.static.enabled
  NsOf,         \* NsOf[c][id]: the namespace c's resolver finds for id
  Namespaces, Absent,
  QueueCap      \* capacity of targetCh, 10 in the code

\* A file, and whether the flags of the command line were applied to it; none
\* of them is about a provider.
Configs == [file : Files, flags : BOOLEAN]
LoadConfigFile(f) == [file |-> f, flags |-> FALSE]
Override(c) == [c EXCEPT !.flags = TRUE]
First == Override(LoadConfigFile(FirstFile))

ASSUME ConfigsAssumption ==
  /\ FirstFile \in Files
  /\ StaticIn \in [Files -> SUBSET Ids]
  /\ StaticOn \subseteq Files
  /\ NsOf \in [Configs -> [Ids -> Namespaces]]
  /\ \A f \in Files : StaticIn[f] \cap Polled = {}
ASSUME PolledAssumption == Polled \subseteq Ids
ASSUME AbsentAssumption == Absent \notin Namespaces
ASSUME QueueCapAssumption == QueueCap \in Nat \ {0}

VARIABLES
  cfg,       \* the configuration of cfg and netnsResolver
  reported,  \* the ids discovery has merged last
  staticIn,  \* the static provider has reported
  targetCh,  \* the snapshots in the channel, sets of ids
  step,      \* where the consumer is
  snap,      \* the targets of its snapshot that are not resolved yet
  plan,      \* the targets of its snapshot that are, with their namespaces
  main,      \* where the main goroutine is
  sigCh,     \* the signal in sigCh's one place
  shut,      \* the manager is shut down
  ctxDone,   \* the application's context is cancelled
  running,   \* the namespace each child runs in, Absent if there is none
  last       \* history: whose Reconcile came last

vars == <<cfg, reported, staticIn, targetCh, step, snap, plan, main, sigCh,
          shut, ctxDone, running, last>>

discoveryVars == <<reported, staticIn, targetCh>>
consumerVars  == <<step, snap, plan>>

NoPlan  == [id \in {} |-> Absent]
Nothing == [id \in Ids |-> Absent]
Plans   == UNION {[S -> Namespaces] : S \in SUBSET Ids}

TypeOK ==
  /\ cfg \in Configs
  /\ reported \in SUBSET Ids
  /\ staticIn \in BOOLEAN
  /\ targetCh \in Seq(SUBSET Ids)
  /\ Len(targetCh) <= QueueCap
  /\ step \in {"recv", "resolve", "quit"}
  /\ snap \in SUBSET Ids
  /\ plan \in Plans
  /\ main \in {"serve", "reload", "closing", "shutdown", "cancel", "exit"}
  /\ sigCh \in {"empty", "HUP", "TERM"}
  /\ shut \in BOOLEAN
  /\ ctxDone \in BOOLEAN
  /\ running \in [Ids -> Namespaces \cup {Absent}]
  /\ last \in {"none", "snapshot", "reload"}

Init ==
  /\ cfg = First
  /\ reported = {}
  /\ staticIn = FALSE
  /\ targetCh = <<>>
  /\ step = "recv"
  /\ snap = {}
  /\ plan = NoPlan
  /\ main = "serve"
  /\ sigCh = "empty"
  /\ shut = FALSE
  /\ ctxDone = FALSE
  /\ running = Nothing
  /\ last = "none"

Up == main # "exit"      \* when runSupervisor returns the process ends

-----------------------------------------------------------------------------
(* Discovery, as Discovery.tla has it.                                     *)

\* Mutant: a full channel drops the new list.
SendMut(list) == targetCh' = IF Len(targetCh) < QueueCap THEN Append(targetCh, list) ELSE targetCh

\* The oldest list is dropped if the channel was full at the first of the two
\* selects, whatever the consumer has taken out of it by the second.
Send(list) == \/ Len(targetCh) < QueueCap /\ targetCh' = Append(targetCh, list)
              \/ targetCh # <<>> /\ targetCh' = Append(Tail(targetCh), list)

\* The polling provider reports what it has found this time.
Poll == /\ Up /\ ~ctxDone
        /\ \E S \in SUBSET Polled : reported' = (reported \ Polled) \cup S
        /\ Send(reported')
        /\ UNCHANGED <<cfg, staticIn, consumerVars, main, sigCh, shut, ctxDone, running, last>>

\* The static provider is registered if it is enabled and has targets.
StaticReport == /\ Up /\ ~ctxDone
                /\ FirstFile \in StaticOn
                /\ StaticIn[FirstFile] # {}
                /\ ~staticIn
                /\ staticIn' = TRUE
                /\ reported' = reported \cup StaticIn[FirstFile]
                /\ Send(reported')
                /\ UNCHANGED <<cfg, consumerVars, main, sigCh, shut, ctxDone, running, last>>

-----------------------------------------------------------------------------
(* Reconcile, as Manager.tla has it.                                       *)

\* Mutant: the children are started under a context of their own.
ReconcileMut(desired, who) ==
  /\ running' = [id \in Ids |-> IF id \in DOMAIN desired THEN desired[id] ELSE Absent]
  /\ last' = who

\* Instances started under the cancelled context never get a child.
Reconcile(desired, who) ==
  /\ running' = [id \in Ids |-> IF id \in DOMAIN desired /\ ~shut THEN desired[id] ELSE Absent]
  /\ last' = who

-----------------------------------------------------------------------------
(* The consumer of the snapshots.                                          *)

Receive == /\ Up
           /\ step = "recv"
           /\ targetCh # <<>>
           /\ step' = "resolve"
           /\ snap' = Head(targetCh)
           /\ targetCh' = Tail(targetCh)
           /\ UNCHANGED <<cfg, reported, staticIn, plan, main, sigCh, shut, ctxDone, running, last>>

\* select prefers neither ctx.Done() nor the channel.
Quit == /\ Up
        /\ step = "recv"
        /\ ctxDone
        /\ step' = "quit"
        /\ UNCHANGED <<cfg, discoveryVars, snap, plan, main, sigCh, shut, ctxDone, running, last>>

\* Mutant: each target is resolved by the resolver of the start.
ResolveMut(id) == /\ Up
                  /\ step = "resolve"
                  /\ id \in snap
                  /\ snap' = snap \ {id}
                  /\ plan' = [i \in DOMAIN plan \cup {id} |->
                                IF i = id THEN NsOf[First][id] ELSE plan[i]]
                  /\ UNCHANGED <<cfg, discoveryVars, step, main, sigCh, shut, ctxDone, running, last>>

\* One target at a time; netnsResolver is read anew for each of them.
Resolve(id) == /\ Up
               /\ step = "resolve"
               /\ id \in snap
               /\ snap' = snap \ {id}
               /\ plan' = [i \in DOMAIN plan \cup {id} |->
                             IF i = id THEN NsOf[cfg][id] ELSE plan[i]]
               /\ UNCHANGED <<cfg, discoveryVars, step, main, sigCh, shut, ctxDone, running, last>>

\* Mutant: the consumer returns after its first snapshot.
SnapshotReconcileOnceMut == /\ Up
                            /\ step = "resolve"
                            /\ snap = {}
                            /\ Reconcile(plan, "snapshot")
                            /\ step' = "quit"
                            /\ plan' = NoPlan
                            /\ UNCHANGED <<cfg, discoveryVars, snap, main, sigCh, shut, ctxDone>>

SnapshotReconcile == /\ Up
                     /\ step = "resolve"
                     /\ snap = {}
                     /\ Reconcile(plan, "snapshot")
                     /\ step' = "recv"
                     /\ plan' = NoPlan
                     /\ UNCHANGED <<cfg, discoveryVars, snap, main, sigCh, shut, ctxDone>>

-----------------------------------------------------------------------------
(* The main goroutine.                                                     *)

\* signal.Notify never blocks: a signal that finds sigCh full is lost.
Signal == /\ Up
          /\ sigCh = "empty"
          /\ sigCh' \in {"HUP", "TERM"}
          /\ UNCHANGED <<cfg, discoveryVars, consumerVars, main, shut, ctxDone, running, last>>

\* SIGHUP: the file is read, as whatever it holds by now, or there is none or
\* it is unreadable.  The flags are not applied again.
Hup == /\ main = "serve"
       /\ sigCh = "HUP"
       /\ sigCh' = "empty"
       /\ \/ \E f \in Files : /\ cfg' = LoadConfigFile(f)
                              /\ main' = IF f \in StaticOn THEN "reload" ELSE "serve"
          \/ UNCHANGED <<cfg, main>>
       /\ UNCHANGED <<discoveryVars, consumerVars, shut, ctxDone, running, last>>

\* The static targets of the new configuration, and only they, are reconciled.
ReloadReconcile == /\ main = "reload"
                   /\ Reconcile([id \in StaticIn[cfg.file] |-> NsOf[cfg][id]], "reload")
                   /\ main' = "serve"
                   /\ UNCHANGED <<cfg, discoveryVars, consumerVars, sigCh, shut, ctxDone>>

\* Mutant: the termination signals are taken for a reload that failed.
TermMut == /\ main = "serve"
           /\ sigCh = "TERM"
           /\ sigCh' = "empty"
           /\ UNCHANGED <<cfg, discoveryVars, consumerVars, main, shut, ctxDone, running, last>>

Term == /\ main = "serve"
        /\ sigCh = "TERM"
        /\ sigCh' = "empty"
        /\ main' = "closing"
        /\ UNCHANGED <<cfg, discoveryVars, consumerVars, shut, ctxDone, running, last>>

\* srv.Shutdown returns, at the latest when its ten seconds are over.
ServerClosed == /\ main = "closing"
                /\ main' = "shutdown"
                /\ UNCHANGED <<cfg, discoveryVars, consumerVars, sigCh, shut, ctxDone, running, last>>

\* srv.Run has failed.
ServerError == /\ main = "serve"
               /\ main' = "shutdown"
               /\ UNCHANGED <<cfg, discoveryVars, consumerVars, sigCh, shut, ctxDone, running, last>>

\* mgr.Shutdown: the manager's context first, then every instance.
Shutdown == /\ main = "shutdown"
            /\ main' = "cancel"
            /\ shut' = TRUE
            /\ running' = Nothing
            /\ UNCHANGED <<cfg, discoveryVars, consumerVars, sigCh, ctxDone, last>>

\* cancel(), called or deferred.
Cancel == /\ main = "cancel"
          /\ ~ctxDone
          /\ ctxDone' = TRUE
          /\ UNCHANGED <<cfg, discoveryVars, consumerVars, main, sigCh, shut, running, last>>

Return == /\ main = "cancel"
          /\ ctxDone
          /\ main' = "exit"
          /\ UNCHANGED <<cfg, discoveryVars, consumerVars, sigCh, shut, ctxDone, running, last>>

-----------------------------------------------------------------------------
ConsumerStep == Receive \/ Quit \/ SnapshotReconcile \/ \E id \in Ids : Resolve(id)
MainStep == Hup \/ ReloadReconcile \/ Term \/ ServerClosed \/ Shutdown \/ Cancel \/ Return

Next == Poll \/ StaticReport \/ ConsumerStep \/ Signal \/ ServerError \/ MainStep

Spec == Init /\ [][Next]_vars

(* Both goroutines run, the static provider reports and the polling one    *)
(* keeps reporting (its ticker never stops, libvirt's scan never fails); a *)
(* report into a full channel may leave everything as it was, so fairness  *)
(* asks for those that find room.  Nobody has to send signals, and the     *)
(* server need not fail.                                                   *)
Fairness == WF_vars(Poll /\ Len(targetCh) < QueueCap) /\ WF_vars(StaticReport)
              /\ WF_vars(ConsumerStep) /\ WF_vars(MainStep)

FairSpec == Spec /\ Fairness

-----------------------------------------------------------------------------
(* Safety.                                                                 *)

Served == {id \in Ids : running[id] # Absent}

\* When the process ends no child is left behind, although the consumer goes on
\* reconciling between mgr.Shutdown and cancel (app.go 396-397, 356-358).
NothingRunsAtExit == main = "exit" => Served = {}

\* When the consumer has nothing to do and no reload came after its last
\* Reconcile, the children are those of the last merged list, however many
\* lists the full channel has dropped meanwhile (app.go 311-337).
InventoryIsServed ==
  step = "recv" /\ targetCh = <<>> /\ last = "snapshot" /\ ~shut => Served = reported

-----------------------------------------------------------------------------
(* Liveness.                                                               *)

\* A VM that the provider does not cease to list is monitored again and again,
\* whatever reloads take it away, until the supervisor ends; one that it has
\* ceased to list loses its exporter for good (app.go 311-337).
PolledIsFollowed ==
  \A id \in Polled :
    /\ <>[](id \in reported) => []<>(running[id] # Absent) \/ <>(main = "exit")
    /\ <>[](id \notin reported) => <>[](running[id] = Absent)

\* Once the configuration does not change any more every child is in the
\* namespace it gives its target, even if a snapshot was half resolved when
\* the configuration was replaced (app.go 320-323 and 367).
NamespacesConverge ==
  \A c \in Configs : <>[](cfg = c) => <>[](\A id \in Served : running[id] = NsOf[c][id])

\* A termination signal that sigCh has taken ends the process.
TermEndsProcess == (sigCh = "TERM") ~> (main = "exit")

-----------------------------------------------------------------------------
(* The abstract specification of the channel.                              *)

Channel == INSTANCE Snapshots WITH Lists <- SUBSET Ids, NoList <- {}, Capacity <- QueueCap,
                                   newest <- reported, queue <- targetCh

\* The application uses the channel as Discovery.tla provides it: every list
\* put into it is the last one merged (app.go 311-314).
ImplementsSnapshots == Channel!SnapSpec

-----------------------------------------------------------------------------
(* What the repository says of the program and the program does not do.    *)

\* README 14: VMs are detected automatically by whatever provider finds them,
\* static configuration among others; a reload of the static targets does not
\* take away the exporter of a VM that another provider lists.
ReloadKeepsDiscovered ==
  [][ReloadReconcile => \A id \in reported \cap Polled :
       running[id] # Absent => running'[id] # Absent]_vars
=============================================================================
