---------------------------- MODULE Server_proofs ----------------------------
(***************************************************************************)
(* Theorems about Server, on top of those about Manager: the handlers are  *)
(* readers, so that what holds of the manager holds beside them.           *)
(***************************************************************************)
EXTENDS Server, Manager_proofs

(***************************************************************************)
(* The inductive invariant.                                                *)
(***************************************************************************)

\* A handler has data and fields only of the instances it holds, and it holds
\* none before it has had the lock.
Clean ==
  /\ phase # "serve" => held = {}
  /\ \A id \in Ids \ held : /\ data[id] = Unread /\ since[id] = {}
                           /\ \A f \in Fields : read[id][f] = Unread

\* An instance that is held and not frozen is in the map.
Pointers == \A id \in held : frozen[id] = NoTarget => target[id] \in Held

\* Labels are read after the metrics.
Ordered ==
  kind \in Scraping =>
    \A id \in Ids : data[id] = Unread => \A f \in Fields : read[id][f] = Unread

\* Of the Targets since the answer, one is what the child serves, one is the
\* Target now, and the labels read are theirs.
Followed ==
  \A id \in Ids : since[id] # {} =>
    /\ TargetOf(id) \in since[id]
    /\ \E t \in since[id] : Served(t) = data[id]
    /\ \A f \in Fields : read[id][f] \in {t[f] : t \in since[id]} \cup {Unread}

SInv == ServerTypeOK /\ Clean /\ Pointers /\ Ordered /\ Followed

\* The fields of a target are among the values a handler may read.
LEMMA FieldFacts ==
  ASSUME NEW t \in Held, NEW f \in Fields
  PROVE  t[f] \in Values
  BY DEF Fields, Values, Held

(***************************************************************************)
(* The handlers change nothing of the manager.                             *)
(***************************************************************************)

\* Every step of the server is a step of the manager or leaves it alone.
LEMMA ServerStepMaps == [ServerNext]_serverVars => [Next]_vars
  BY DEF ServerNext, ManagerStep, Request, LockStep, ServeStep, ListInstances, GetInstance,
         Hold, Scrape, ReadField, Respond, serverVars

\* The manager beside handlers behaves as the manager alone does.
THEOREM ManagerUnaffected == ServerSpec => Spec
<1>1. ServerInit => Init
  BY DEF ServerInit
<1> QED BY <1>1, ServerStepMaps, PTL DEF ServerSpec, Spec

\* So the manager is the fleet it promises to be also while requests are
\* served: no handler can make it start, stop or mean anything else.
THEOREM ServedFleet == ServerSpec => ImplementsFleet
  BY ManagerUnaffected, FleetRefinement, PTL

(***************************************************************************)
(* The invariant is inductive.                                             *)
(***************************************************************************)

\* The invariant holds before the first request.
LEMMA SInvInit == ServerInit => SInv
  BY DEF ServerInit, SInv, ServerTypeOK, Clean, Pointers, Ordered, Followed, Nobody, NoData, NoRead,
         NoneYet, Scraping

\* Steps of the manager add to what may be read.
LEMMA ManagerKeeps == SInv /\ IInv /\ IInv' /\ ManagerStep => SInv'
<1> SUFFICES ASSUME SInv, IInv, IInv', ManagerStep PROVE SInv'
  OBVIOUS
<1> USE DEF SInv, ManagerStep, requestVars
<1>1. target \in [Ids -> Held \cup {NoTarget}] /\ target' \in [Ids -> Held \cup {NoTarget}]
  BY DEF IInv, TypeOK
<1>2. Pointers'
  <2> SUFFICES ASSUME NEW id \in held, frozen'[id] = NoTarget PROVE target'[id] \in Held
    BY DEF Pointers
  <2>1. id \in Ids
    BY DEF ServerTypeOK
  <2>2. frozen[id] = NoTarget /\ target[id] \in Held /\ loopOf'[id] # NoLoop
    BY <2>1, TargetsAssumption DEF Pointers
  <2> QED BY <1>1, <2>1, <2>2 DEF IInv, Mapped
<1>3. ASSUME NEW id \in held PROVE TargetOf(id)' \in Held
  <2>1. id \in Ids /\ frozen'[id] \in Held \cup {NoTarget}
    BY <1>1 DEF ServerTypeOK
  <2> QED BY <1>2, <2>1 DEF TargetOf, Pointers
<1>4. ServerTypeOK'
  <2>1. frozen' \in [Ids -> Held \cup {NoTarget}]
    BY <1>1 DEF ServerTypeOK
  <2>2. ASSUME NEW id \in Ids PROVE since'[id] \in SUBSET Held
    <3>1. CASE since[id] = {} \/ late'
      BY <3>1
    <3>2. CASE since[id] # {} /\ ~late'
      <4>1. id \in held
        BY <3>2 DEF Clean
      <4>2. since'[id] = since[id] \cup {TargetOf(id)'}
        BY <3>2 DEF TargetOf
      <4> QED BY <1>3, <4>1, <4>2 DEF ServerTypeOK
    <3> QED BY <3>1, <3>2
  <2>3. since' \in [Ids -> SUBSET Held]
    BY <2>2
  <2> QED BY <2>1, <2>3 DEF ServerTypeOK
<1>5. Clean' /\ Ordered'
  BY DEF Clean, Ordered, ServerTypeOK
<1>6. Followed'
  <2> SUFFICES ASSUME NEW id \in Ids, since'[id] # {}
               PROVE  /\ TargetOf(id)' \in since'[id]
                      /\ \E t \in since'[id] : Served(t) = data'[id]
                      /\ \A f \in Fields : read'[id][f] \in {t[f] : t \in since'[id]} \cup {Unread}
    BY DEF Followed
  <2>1. since[id] # {} /\ since'[id] = since[id] \cup {TargetOf(id)'}
    BY DEF TargetOf
  <2>2. /\ \E t \in since[id] : Served(t) = data[id]
        /\ \A f \in Fields : read[id][f] \in {t[f] : t \in since[id]} \cup {Unread}
    BY <2>1 DEF Followed
  <2> QED BY <2>1, <2>2
<1> QED BY <1>2, <1>4, <1>5, <1>6

\* So do those of the handlers, which read what is there.
LEMMA HandlerKeeps ==
  SInv /\ IInv /\ (Request \/ LockStep \/ ServeStep) => SInv'
<1> SUFFICES ASSUME SInv, IInv PROVE Request \/ LockStep \/ ServeStep => SInv'
  OBVIOUS
<1> USE DEF SInv, ServerTypeOK, Clean, Pointers, Ordered, Followed, TargetOf, vars
<1>1. target \in [Ids -> Held \cup {NoTarget}]
  BY DEF IInv, TypeOK
<1>2. \A id \in Present : target[id] \in Held
  BY <1>1 DEF IInv, Mapped, Present
<1>3. CASE Request
  BY <1>3 DEF Request, Scraping
<1>4. ASSUME NEW ids \in SUBSET Present, Hold(ids) PROVE SInv'
  <2>1. ids \in SUBSET Ids /\ held = {} /\ \A id \in Ids : since[id] = {}
    BY <1>4 DEF Present, Hold
  <2> QED BY <1>2, <1>4, <2>1 DEF Hold, Nobody, Present
<1>5. CASE LockStep
  BY <1>4, <1>5 DEF LockStep, ListInstances, GetInstance
<1>6. ASSUME NEW id \in Ids, Scrape(id) PROVE SInv'
  <2>1. PICK got \in {Failed} \cup {conf[g] : g \in {h \in Loops : owner[h] = id /\ pc[h] = "up"}} :
          data' = [data EXCEPT ![id] = got]
    BY <1>6 DEF Scrape
  <2>2. /\ phase = "serve" /\ kind \in Scraping /\ id \in held /\ data[id] = Unread
        /\ UNCHANGED <<vars, kind, phase, held, frozen, read>>
        /\ since' = [since EXCEPT ![id] =
             IF data'[id] = Failed \/ frozen[id] # NoTarget \/ late THEN {} ELSE {target[id]}]
    BY <1>6 DEF Scrape
  <2>3. got \in Exporters \cup {NoTarget, Failed} /\ data'[id] = got
    BY <2>1 DEF IInv, TypeOK
  <2>4. got # Failed /\ ~late => got = Served(target[id])
    BY <2>1 DEF IInv, NoLostLoop, Fresh
  <2>5. \A f \in Fields : read[id][f] = Unread
    BY <2>2
  <2>6. frozen[id] = NoTarget => target[id] \in Held
    BY <2>2
  <2>7. \A i \in Ids \ {id} : data'[i] = data[i] /\ since'[i] = since[i]
    BY <2>1, <2>2
  <2>8. ServerTypeOK'
    BY <2>1, <2>2, <2>3, <2>6
  <2>9. Clean' /\ Pointers' /\ Ordered'
    BY <2>1, <2>2, <2>5, <2>7
  <2>10. Followed'
    <3> SUFFICES ASSUME NEW i \in Ids, since'[i] # {}
                 PROVE  /\ TargetOf(i)' \in since'[i]
                        /\ \E t \in since'[i] : Served(t) = data'[i]
                        /\ \A f \in Fields : read'[i][f] \in {t[f] : t \in since'[i]} \cup {Unread}
      OBVIOUS
    <3>1. CASE i # id
      BY <2>2, <2>7, <3>1
    <3>2. CASE i = id
      <4>1. since'[id] = {target[id]} /\ got = Served(target[id]) /\ frozen[id] = NoTarget
        BY <2>2, <2>3, <2>4, <3>2
      <4> QED BY <2>2, <2>3, <2>5, <3>2, <4>1
    <3> QED BY <3>1, <3>2
  <2> QED BY <2>8, <2>9, <2>10
<1>7. ASSUME NEW id \in Ids, NEW f \in Fields, ReadField(id, f) PROVE SInv'
  <2>1. /\ id \in held /\ phase = "serve" /\ (kind \in Scraping => data[id] # Unread)
        /\ read' = [read EXCEPT ![id][f] = TargetOf(id)[f]]
        /\ UNCHANGED <<vars, kind, phase, held, frozen, data, since>>
    BY <1>7 DEF ReadField, Reads
  <2>2. TargetOf(id) \in Held
    BY <1>1, <2>1
  <2>3. ServerTypeOK'
    BY <2>1, <2>2, FieldFacts
  <2>4. Clean' /\ Pointers' /\ Ordered'
    BY <2>1
  <2>5. Followed'
    <3> SUFFICES ASSUME NEW i \in Ids, since[i] # {}, NEW e \in Fields
                 PROVE  read'[i][e] \in {t[e] : t \in since[i]} \cup {Unread}
      BY <2>1
    <3>1. CASE i = id /\ e = f
      BY <2>1, <3>1
    <3>2. CASE i # id \/ e # f
      BY <2>1, <3>2
    <3> QED BY <3>1, <3>2
  <2> QED BY <2>3, <2>4, <2>5
<1>8. CASE Respond
  BY <1>8 DEF Respond, Nobody, NoData, NoRead, NoneYet, Scraping
<1> QED BY <1>3, <1>5, <1>6, <1>7, <1>8 DEF ServeStep

\* The invariant holds in every behaviour of the server.
THEOREM ServerInvariance == ServerSpec => []SInv
<1>1. SInv /\ IInv /\ IInv' /\ [ServerNext]_serverVars => SInv'
  <2>1. CASE UNCHANGED serverVars
    BY <2>1 DEF serverVars, requestVars, vars, SInv, ServerTypeOK, Clean, Pointers, Ordered, Followed, TargetOf
  <2> QED BY <2>1, ManagerKeeps, HandlerKeeps DEF ServerNext
<1> QED BY <1>1, SInvInit, ManagerUnaffected, Invariance, PTL DEF ServerSpec

(***************************************************************************)
(* What follows from it.                                                   *)
(***************************************************************************)

\* Every variable of the handlers keeps its type.
THEOREM ServerTypeCorrect == ServerSpec => []ServerTypeOK
<1>1. SInv => ServerTypeOK
  BY DEF SInv
<1> QED BY <1>1, ServerInvariance, PTL

\* Metrics are labelled as the Target the child that answered serves, or as a
\* later one of the same instance.
THEOREM LabelsFollowTheChildHolds == ServerSpec => []LabelsFollowTheChild
<1>1. SInv => LabelsFollowTheChild
  BY DEF SInv, Followed, LabelsFollowTheChild, ServerTypeOK
<1> QED BY <1>1, ServerInvariance, PTL

\* Whoever still scrapes after the shutdown gets no data, if every Stop has seen
\* the end of its loop.
THEOREM NoSampleAfterShutdownHolds == ServerSpec => NoSampleAfterShutdown
<1>1. IInv /\ SInv => [\A id \in Ids : Scrape(id) /\ step["main"] = "exit" /\ ~late
                                  => data'[id] = Failed]_serverVars
  BY DEF Scrape, IInv, QuietAfterShutdown, SInv, ServerTypeOK
<1> QED BY <1>1, ServerInvariance, ManagerUnaffected, Invariance, PTL DEF NoSampleAfterShutdown
=============================================================================
