------------------------------- MODULE Server -------------------------------
(***************************************************************************)
(* The HTTP handlers, internal/pkg/server/server.go, beside the manager    *)
(* whose instances they read.                                              *)
(*                                                                         *)
(* A handler takes m.mu for as long as it copies pointers out of the map   *)
(* (ListInstances, GetInstance) and uses them without it: it asks the      *)
(* child behind the instance's socket for its metrics, and then reads the  *)
(* Target of the instance for the labels, which Reconcile may be assigning *)
(* at that moment: a data race, so that every field is read in a step of   *)
(* its own.  An instance that is gone from the map keeps its last Target,  *)
(* but its socket path is the path of whatever instance has its id now.    *)
(*                                                                         *)
(* One request is served at a time: handlers share nothing but the lock,   *)
(* which they take for reading.  The body of an answer, its labels and     *)
(* counters, is Relabel.tla's.                                             *)
(***************************************************************************)
EXTENDS Manager

CONSTANTS Failed, Unread   \* a scrape without data; a field not read yet

(* The fields the labels of a sample are made of, and what they may say.   *)
Fields == {"name", "labels"}
Values == {t.name : t \in Targets} \cup {t.labels : t \in Targets}

ASSUME ServerAssumption == /\ {Failed, Unread} \cap (Exporters \cup {NoTarget}) = {}
                           /\ Unread \notin Values

VARIABLES
  kind,    \* the route of the request
  phase,   \* where its handler is
  held,    \* the ids whose instance it holds a pointer to
  frozen,  \* the Target of an instance it holds that is gone from the map
  data,    \* what each scrape got: what the child that answered serves
  read,    \* the fields of each Target that the handler has read
  since    \* history: the Targets of an instance, it being in the map when its
           \* scrape was answered, since that moment

requestVars == <<kind, phase, held, data, read>>
serverVars  == <<vars, requestVars, frozen, since>>

Scraping == {"metrics", "probe"}    \* /targets and /health do not

ServerTypeOK ==
  /\ kind \in Scraping \cup {"targets"}
  /\ phase \in {"idle", "lock", "serve"}
  /\ held \in SUBSET Ids
  /\ frozen \in [Ids -> Held \cup {NoTarget}]
  /\ data \in [Ids -> Exporters \cup {NoTarget, Failed, Unread}]
  /\ read \in [Ids -> [Fields -> Values \cup {Unread}]]
  /\ since \in [Ids -> SUBSET Held]

Nobody == [id \in Ids |-> NoTarget]
NoData == [id \in Ids |-> Unread]
NoneYet == [id \in Ids |-> {}]
NoRead == [id \in Ids |-> [f \in Fields |-> Unread]]

ServerInit ==
  /\ Init
  /\ kind = "targets"
  /\ phase = "idle"
  /\ held = {}
  /\ frozen = Nobody
  /\ data = NoData
  /\ read = NoRead
  /\ since = NoneYet

(* The Target behind a pointer the handler holds.                          *)
TargetOf(id) == IF frozen[id] = NoTarget THEN target[id] ELSE frozen[id]

-----------------------------------------------------------------------------
(* A step of the manager, and what it means for the pointers.              *)

ManagerStep ==
  /\ Next
  /\ frozen' = [id \in Ids |->
       IF id \in held /\ frozen[id] = NoTarget /\ loopOf'[id] = NoLoop THEN target[id]
                                                                       ELSE frozen[id]]
  /\ since' = [id \in Ids |-> IF since[id] = {} \/ late' THEN {} ELSE since[id] \cup {TargetOf(id)'}]
  /\ UNCHANGED requestVars

-----------------------------------------------------------------------------
(* The handlers.                                                           *)

Request == /\ phase = "idle"
           /\ phase' = "lock"
           /\ kind' \in Scraping \cup {"targets"}
           /\ UNCHANGED <<vars, held, frozen, data, read, since>>

Hold(ids) == /\ phase = "lock"
             /\ phase' = "serve"
             /\ held' = ids
             /\ frozen' = Nobody
             /\ UNCHANGED <<vars, kind, data, read, since>>

ListInstances == /\ kind # "probe"
                 /\ mu = "free"
                 /\ Hold(Present)

\* By id, or else the first instance found with that name; or there is none.
GetInstance == /\ kind = "probe"
               /\ mu = "free"
               /\ \E ids \in {{}} \cup {{id} : id \in Present} : Hold(ids)

\* Whoever listens on the socket path of the id answers; a scrape may fail in
\* any case, and fails when the deadline of its request is over.
Scrape(id) == /\ phase = "serve" /\ kind \in Scraping
              /\ id \in held /\ data[id] = Unread
              /\ \E got \in {Failed} \cup
                            {conf[g] : g \in {h \in Loops : owner[h] = id /\ pc[h] = "up"}} :
                   data' = [data EXCEPT ![id] = got]
              /\ since' = [since EXCEPT ![id] =
                   IF data'[id] = Failed \/ frozen[id] # NoTarget \/ late THEN {} ELSE {target[id]}]
              /\ UNCHANGED <<vars, kind, phase, held, frozen, read>>

\* Mutant: the labels are made before the child is asked.
ReadsMut(id) == id \in held /\ (kind = "probe" => data[id] # Failed)

\* ScrapeAll copies the Target of a failed scrape too; /probe has answered.
Reads(id) == /\ id \in held
             /\ kind \in Scraping => data[id] # Unread
             /\ kind = "probe" => data[id] # Failed

ReadField(id, f) == /\ phase = "serve"
                    /\ Reads(id) /\ read[id][f] = Unread
                    /\ read' = [read EXCEPT ![id][f] = TargetOf(id)[f]]
                    /\ UNCHANGED <<vars, kind, phase, held, frozen, data, since>>

Respond == /\ phase = "serve"
           /\ \A id \in held : /\ kind \in Scraping => data[id] # Unread
                               /\ Reads(id) => \A f \in Fields : read[id][f] # Unread
           /\ phase' = "idle" /\ kind' = "targets"
           /\ held' = {} /\ data' = NoData /\ read' = NoRead
           /\ frozen' = Nobody /\ since' = NoneYet
           /\ UNCHANGED vars

ServeStep == Respond \/ \E id \in Ids : Scrape(id) \/ \E f \in Fields : ReadField(id, f)
LockStep  == ListInstances \/ GetInstance

ServerNext == ManagerStep \/ Request \/ LockStep \/ ServeStep

ServerSpec == ServerInit /\ [][ServerNext]_serverVars

(* The manager's, and for the handlers: a scrape ends with its deadline,   *)
(* a reader that waits for m.mu gets it.                                   *)
ServerFairSpec == ServerSpec /\ Fairness /\ WF_serverVars(ServeStep) /\ SF_serverVars(LockStep)

-----------------------------------------------------------------------------
(* Safety.                                                                 *)

\* What a child reports is never labelled as a Target replaced before that child
\* was started.  The Target the child serves was the instance's when it answered,
\* and every label is that one's or a later one's, although neither the scrape
\* nor the reading of the labels holds a lock, and Reconcile may replace the
\* Target, assign its Labels in place or restart the child at any moment in
\* between (ScrapeAll, manager.go 188-191; handleProbe, server.go 235-246;
\* Reconcile, manager.go 97-111).  An instance removed before the answer is
\* excepted: its socket path may be another one's by then.
LabelsFollowTheChild ==
  \A id \in held : since[id] # {} =>
    /\ \E t \in since[id] : Served(t) = data[id]
    /\ \A f \in Fields : read[id][f] \in {t[f] : t \in since[id]} \cup {Unread}

\* A handler that outlives the shutdown of the server (it waits ten seconds,
\* app.go 393) gets no metrics once mgr.Shutdown has returned, the pointers it
\* holds notwithstanding, unless a Stop has lost patience with some loop.
NoSampleAfterShutdown ==
  [][\A id \in Ids : Scrape(id) /\ step["main"] = "exit" /\ ~late => data'[id] = Failed]_serverVars

-----------------------------------------------------------------------------
(* Liveness.                                                               *)

\* Every request is answered: the lock it waits for is released by Reconcile
\* and Shutdown, which hold it while they wait for children to end.
RequestReturns == (phase = "lock") ~> (phase = "idle")
=============================================================================
