----------------------------- MODULE App_proofs -----------------------------
(***************************************************************************)
(* Proofs about App: its types, and that the children are those of the     *)
(* last merged inventory or, at the end of the process, none.              *)
(*                                                                         *)
(* The invariant follows the newest list: it is in the channel, or, once   *)
(* the channel is empty, in the consumer's hands, or among the children.   *)
(***************************************************************************)
EXTENDS App, SequenceTheorems, TLAPS

\* The newest list in the channel is the last one merged.
NewestQueued == targetCh # <<>> => targetCh[Len(targetCh)] = reported

\* A consumer at work on the last list of the channel works on the last merged.
NewestInHand == step = "resolve" /\ targetCh = <<>> => snap \cup DOMAIN plan = reported

\* An idle consumer holds nothing.
IdleHandsEmpty == step # "resolve" => snap = {} /\ plan = NoPlan

\* The manager is shut down before the context is cancelled, and nothing runs then.
ShutMeansNothing == /\ shut => Served = {}
                    /\ ctxDone => shut
                    /\ main \in {"cancel", "exit"} <=> shut

IInv == TypeOK /\ NewestQueued /\ NewestInHand /\ IdleHandsEmpty
          /\ ShutMeansNothing /\ InventoryIsServed

\* The plan of a consumer that has resolved nothing.
LEMMA NoPlanFacts == NoPlan \in Plans /\ DOMAIN NoPlan = {}
<1>1. NoPlan \in [{} -> Namespaces] /\ DOMAIN NoPlan = {}
  BY DEF NoPlan
<1>2. {} \in SUBSET Ids
  OBVIOUS
<1>3. QED
  BY <1>1, <1>2 DEF Plans

\* The invariant holds before the first snapshot.
LEMMA InvInit == Init => IInv
<1> SUFFICES ASSUME Init PROVE IInv
  OBVIOUS
<1> USE ConfigsAssumption, QueueCapAssumption DEF Init
<1>1. TypeOK
  <2>1. targetCh \in Seq(SUBSET Ids) /\ Len(targetCh) = 0
    BY EmptySeq, Zenon DEF Init
  <2>2. running \in [Ids -> Namespaces \cup {Absent}]
    BY DEF Nothing
  <2>3. plan \in Plans
    BY NoPlanFacts
  <2>4. Len(targetCh) <= QueueCap
    BY <2>1
  <2>5. cfg \in Configs /\ reported \in SUBSET Ids /\ snap \in SUBSET Ids
    BY DEF Configs, First, Override, LoadConfigFile
  <2>6. QED
    BY <2>1, <2>2, <2>3, <2>4, <2>5 DEF TypeOK
<1>2. NewestQueued /\ NewestInHand /\ IdleHandsEmpty
  BY DEF NewestQueued, NewestInHand, IdleHandsEmpty
<1>3. ShutMeansNothing /\ InventoryIsServed
  BY DEF ShutMeansNothing, InventoryIsServed, Served, Nothing
<1>4. QED
  BY <1>1, <1>2, <1>3 DEF IInv

\* What the bounded channel does to a list: it arrives, as the newest one.
LEMMA SendFacts ==
  ASSUME NEW list \in SUBSET Ids, TypeOK, Send(list)
  PROVE  /\ targetCh' \in Seq(SUBSET Ids)
         /\ Len(targetCh') \in 1 .. QueueCap
         /\ targetCh'[Len(targetCh')] = list
<1> USE QueueCapAssumption DEF TypeOK
<1>1. CASE Len(targetCh) < QueueCap /\ targetCh' = Append(targetCh, list)
  BY <1>1
<1>2. CASE targetCh # <<>> /\ targetCh' = Append(Tail(targetCh), list)
  <2>1. /\ Tail(targetCh) \in Seq(SUBSET Ids) /\ Len(Tail(targetCh)) = Len(targetCh) - 1
        /\ Len(targetCh) \in Nat \ {0}
    BY <1>2, EmptySeq
  <2>2. QED
    BY <1>2, <2>1
<1>3. QED
  BY <1>1, <1>2 DEF Send

\* What taking the oldest element out of a queue leaves in it.
LEMMA TailFacts ==
  ASSUME NEW S, NEW q \in Seq(S), q # <<>>
  PROVE  /\ Head(q) \in S
         /\ Tail(q) \in Seq(S)
         /\ Len(Tail(q)) = Len(q) - 1
         /\ Tail(q) # <<>> => Tail(q)[Len(Tail(q))] = q[Len(q)]
         /\ Tail(q) = <<>> => Head(q) = q[Len(q)]
<1>1. Len(q) \in Nat /\ Len(q) # 0 /\ Head(q) = q[1]
  BY EmptySeq
<1>2. /\ Head(q) \in S
      /\ Tail(q) \in Seq(S)
      /\ Len(Tail(q)) = Len(q) - 1
      /\ \A i \in 1 .. Len(Tail(q)) : Tail(q)[i] = q[i + 1]
  BY HeadTailProperties
<1>3. ASSUME Tail(q) # <<>> PROVE Tail(q)[Len(Tail(q))] = q[Len(q)]
  <2>1. Len(Tail(q)) \in 1 .. Len(q) - 1
    BY <1>1, <1>2, <1>3, EmptySeq
  <2>2. Len(Tail(q)) \in 1 .. Len(Tail(q)) /\ Len(Tail(q)) + 1 = Len(q)
    BY <1>1, <1>2, <2>1
  <2>3. Tail(q)[Len(Tail(q))] = q[Len(Tail(q)) + 1]
    BY <1>2, <2>2
  <2>4. QED
    BY <2>2, <2>3
<1>4. ASSUME Tail(q) = <<>> PROVE Head(q) = q[Len(q)]
  <2>1. Len(Tail(q)) = 0
    BY <1>4, EmptySeq
  <2>2. ASSUME NEW n \in Nat, 0 = n - 1 PROVE n = 1
    BY <2>2
  <2>3. Len(Tail(q)) = Len(q) - 1
    BY <1>2
  <2>4. Len(q) = 1
    BY <1>1, <2>1, <2>2, <2>3
  <2>5. QED
    BY <1>1, <2>4
<1>5. QED
  BY <1>2, <1>3, <1>4

\* A configuration that was loaded again is one, without the flags.
LEMMA LoadedIsConfig == \A f \in Files : LoadConfigFile(f) \in Configs
  BY DEF LoadConfigFile, Configs

\* Every step of both goroutines, of discovery and of a signal preserves it.
LEMMA InvStep == IInv /\ [Next]_vars => IInv'
<1> SUFFICES ASSUME IInv, [Next]_vars PROVE IInv'
  OBVIOUS
<1> USE ConfigsAssumption, PolledAssumption, AbsentAssumption, QueueCapAssumption
<1>1. CASE Poll
  <2>1. reported' \in SUBSET Ids /\ Send(reported')
    BY <1>1 DEF Poll, IInv, TypeOK
  <2>2. /\ targetCh' \in Seq(SUBSET Ids)
        /\ Len(targetCh') \in 1 .. QueueCap
        /\ targetCh'[Len(targetCh')] = reported'
        /\ targetCh' # <<>>
    BY <2>1, SendFacts DEF IInv
  <2>3. QED
    BY <1>1, <2>1, <2>2 DEF Poll, IInv, TypeOK, NewestQueued, NewestInHand, IdleHandsEmpty,
       ShutMeansNothing, InventoryIsServed, Served, consumerVars
<1>2. CASE StaticReport
  <2>1. reported' \in SUBSET Ids /\ Send(reported')
    BY <1>2 DEF StaticReport, IInv, TypeOK
  <2>2. /\ targetCh' \in Seq(SUBSET Ids)
        /\ Len(targetCh') \in 1 .. QueueCap
        /\ targetCh'[Len(targetCh')] = reported'
        /\ targetCh' # <<>>
    BY <2>1, SendFacts DEF IInv
  <2>3. QED
    BY <1>2, <2>1, <2>2 DEF StaticReport, IInv, TypeOK, NewestQueued, NewestInHand,
       IdleHandsEmpty, ShutMeansNothing, InventoryIsServed, Served, consumerVars
<1>3. CASE Receive
  <2>1. /\ Head(targetCh) \in SUBSET Ids
        /\ Tail(targetCh) \in Seq(SUBSET Ids)
        /\ Len(Tail(targetCh)) = Len(targetCh) - 1
        /\ Tail(targetCh) # <<>> => Tail(targetCh)[Len(Tail(targetCh))] = targetCh[Len(targetCh)]
        /\ Tail(targetCh) = <<>> => Head(targetCh) = targetCh[Len(targetCh)]
    BY <1>3, TailFacts DEF Receive, IInv, TypeOK
  <2>2. snap' \cup DOMAIN plan' = Head(targetCh)
    BY <1>3, NoPlanFacts DEF Receive, IInv, IdleHandsEmpty
  <2>3. TypeOK'
    BY <1>3, <2>1 DEF Receive, IInv, TypeOK
  <2>4. (NewestQueued /\ NewestInHand)'
    BY <1>3, <2>1, <2>2 DEF Receive, IInv, NewestQueued, NewestInHand
  <2>5. (IdleHandsEmpty /\ ShutMeansNothing /\ InventoryIsServed)'
    BY <1>3 DEF Receive, IInv, IdleHandsEmpty, ShutMeansNothing, InventoryIsServed, Served
  <2>6. QED
    BY <2>3, <2>4, <2>5 DEF IInv
<1>4. CASE Quit
  BY <1>4 DEF Quit, IInv, TypeOK, NewestQueued, NewestInHand, IdleHandsEmpty,
     ShutMeansNothing, InventoryIsServed, Served, discoveryVars
<1>5. ASSUME NEW id \in Ids, Resolve(id) PROVE IInv'
  <2>1. /\ DOMAIN plan' = DOMAIN plan \cup {id}
        /\ snap' \cup DOMAIN plan' = snap \cup DOMAIN plan
    BY <1>5 DEF Resolve
  <2>2. plan' \in Plans
    <3>1. PICK S \in SUBSET Ids : plan \in [S -> Namespaces]
      BY DEF IInv, TypeOK, Plans
    <3>2. NsOf[cfg][id] \in Namespaces
      BY DEF IInv, TypeOK
    <3>3. plan' \in [S \cup {id} -> Namespaces]
      BY <1>5, <3>1, <3>2 DEF Resolve
    <3>4. S \cup {id} \in SUBSET Ids
      OBVIOUS
    <3>5. QED
      BY <3>3, <3>4 DEF Plans
  <2>3. TypeOK'
    BY <1>5, <2>2 DEF Resolve, IInv, TypeOK, discoveryVars
  <2>4. QED
    BY <1>5, <2>1, <2>3 DEF Resolve, IInv, NewestQueued, NewestInHand, IdleHandsEmpty,
       ShutMeansNothing, InventoryIsServed, Served, discoveryVars
<1>6. CASE SnapshotReconcile
  <2>1. PICK S \in SUBSET Ids : plan \in [S -> Namespaces]
    BY DEF IInv, TypeOK, Plans
  <2>2. running' \in [Ids -> Namespaces \cup {Absent}]
    BY <1>6, <2>1 DEF SnapshotReconcile, Reconcile
  <2>3. Served' = IF shut THEN {} ELSE DOMAIN plan
    BY <1>6, <2>1 DEF SnapshotReconcile, Reconcile, Served
  <2>4. TypeOK'
    BY <1>6, <2>2, NoPlanFacts DEF SnapshotReconcile, Reconcile, IInv, TypeOK, discoveryVars
  <2>5. QED
    BY <1>6, <2>3, <2>4 DEF SnapshotReconcile, Reconcile, IInv, NewestQueued, NewestInHand,
       IdleHandsEmpty, ShutMeansNothing, InventoryIsServed, discoveryVars
<1>7. CASE Signal \/ Hup \/ Term \/ ServerClosed \/ ServerError \/ Cancel \/ Return
  <2>1. UNCHANGED <<reported, staticIn, targetCh, step, snap, plan, shut, running, last>>
    BY <1>7 DEF Signal, Hup, Term, ServerClosed, ServerError, Cancel, Return, discoveryVars, consumerVars
  <2>2. (NewestQueued /\ NewestInHand /\ IdleHandsEmpty /\ InventoryIsServed)'
    BY <2>1 DEF IInv, NewestQueued, NewestInHand, IdleHandsEmpty, InventoryIsServed, Served
  <2>3. cfg' \in Configs /\ sigCh' \in {"empty", "HUP", "TERM"}
    BY <1>7, LoadedIsConfig DEF Signal, Hup, Term, ServerClosed, ServerError, Cancel, Return, IInv, TypeOK
  <2>4. /\ main' \in {"serve", "reload", "closing", "shutdown", "cancel", "exit"}
        /\ main' \in {"cancel", "exit"} <=> shut
        /\ ctxDone' \in BOOLEAN
        /\ ctxDone' => shut
    <3>1. /\ main \in {"serve", "reload", "closing", "shutdown", "cancel", "exit"}
          /\ main \in {"cancel", "exit"} <=> shut
          /\ ctxDone \in BOOLEAN
          /\ ctxDone => shut
      BY DEF IInv, TypeOK, ShutMeansNothing
    <3>2. CASE UNCHANGED <<main, ctxDone>>
      BY <3>1, <3>2
    <3>3. CASE main \in {"serve", "closing"} /\ main' \in {"serve", "reload", "closing", "shutdown"}
                 /\ UNCHANGED ctxDone
      BY <3>1, <3>3
    <3>4. CASE main = "cancel" /\ main' \in {"cancel", "exit"} /\ ctxDone' = TRUE
      BY <3>1, <3>4
    <3>5. QED
      BY <1>7, <3>1, <3>2, <3>3, <3>4
         DEF Signal, Hup, Term, ServerClosed, ServerError, Cancel, Return
  <2>5. QED
    BY <2>1, <2>2, <2>3, <2>4 DEF IInv, TypeOK, ShutMeansNothing, Served
<1>8. CASE ReloadReconcile
  <2>1. running' \in [Ids -> Namespaces \cup {Absent}]
    BY <1>8 DEF ReloadReconcile, Reconcile, IInv, TypeOK
  <2>2. shut => Served' = {}
    BY <1>8 DEF ReloadReconcile, Reconcile, Served
  <2>3. QED
    BY <1>8, <2>1, <2>2 DEF ReloadReconcile, Reconcile, IInv, TypeOK, NewestQueued,
       NewestInHand, IdleHandsEmpty, ShutMeansNothing, InventoryIsServed, discoveryVars, consumerVars
<1>9. CASE Shutdown
  BY <1>9 DEF Shutdown, IInv, TypeOK, NewestQueued, NewestInHand, IdleHandsEmpty,
     ShutMeansNothing, InventoryIsServed, Served, Nothing, discoveryVars, consumerVars
<1>10. CASE UNCHANGED vars
  BY <1>10 DEF vars, IInv, TypeOK, NewestQueued, NewestInHand, IdleHandsEmpty,
     ShutMeansNothing, InventoryIsServed, Served
<1>11. QED
  BY <1>1, <1>2, <1>3, <1>4, <1>5, <1>6, <1>7, <1>8, <1>9, <1>10 DEF Next, ConsumerStep, MainStep

\* The invariant holds in every behaviour of the application.
THEOREM Invariance == Spec => []IInv
  BY InvInit, InvStep, PTL DEF Spec

-----------------------------------------------------------------------------
\* Every variable keeps its type, for any targets, configurations and capacity.
THEOREM TypeCorrect == Spec => []TypeOK
<1>1. IInv => TypeOK
  BY DEF IInv
<1>2. QED
  BY <1>1, Invariance, PTL

\* No child is left when the process ends (app.go 392-399 and 356-358).
THEOREM NothingRunsAtExitHolds == Spec => []NothingRunsAtExit
<1>1. IInv => NothingRunsAtExit
  BY DEF IInv, ShutMeansNothing, NothingRunsAtExit
<1>2. QED
  BY <1>1, Invariance, PTL

\* An idle consumer has brought the children in line with the last merged list,
\* whatever lists the channel has dropped (app.go 311-337).
THEOREM InventoryIsServedHolds == Spec => []InventoryIsServed
<1>1. IInv => InventoryIsServed
  BY DEF IInv
<1>2. QED
  BY <1>1, Invariance, PTL

-----------------------------------------------------------------------------
\* What discovery sends and the consumer takes are the channel's two steps, and
\* nothing else in the application touches it (app.go 311-314).
THEOREM ChannelRefinement == Spec => ImplementsSnapshots
<1>1. Init => Channel!SnapInit
  BY DEF Init, Channel!SnapInit
<1>2. IInv /\ [Next]_vars => [Channel!SnapNext]_(Channel!snapvars)
  <2> SUFFICES ASSUME IInv, [Next]_vars PROVE [Channel!SnapNext]_(Channel!snapvars)
    OBVIOUS
  <2>1. ASSUME Poll \/ StaticReport PROVE \E l \in SUBSET Ids : Channel!Put(l)
    <3>1. reported' \in SUBSET Ids /\ Send(reported')
      BY <2>1, ConfigsAssumption, PolledAssumption DEF Poll, StaticReport, IInv, TypeOK
    <3>2. QED
      BY <3>1 DEF Send, Channel!Put
  <2>2. CASE Receive
    BY <2>2 DEF Receive, Channel!Get, Channel!SnapNext
  <2>3. ASSUME UNCHANGED <<reported, targetCh>> PROVE UNCHANGED Channel!snapvars
    BY <2>3 DEF Channel!snapvars
  <2>4. CASE \/ Quit \/ SnapshotReconcile \/ Signal \/ ServerError \/ MainStep \/ UNCHANGED vars
             \/ \E id \in Ids : Resolve(id)
    BY <2>3, <2>4 DEF Quit, SnapshotReconcile, Signal, ServerError, MainStep, Hup, ReloadReconcile,
       Term, ServerClosed, Shutdown, Cancel, Return, Resolve, discoveryVars, vars
  <2>5. QED
    BY <2>1, <2>2, <2>4 DEF Next, ConsumerStep, Channel!SnapNext
<1>3. QED
  BY <1>1, <1>2, Invariance, PTL DEF Spec, ImplementsSnapshots, Channel!SnapSpec
=============================================================================
