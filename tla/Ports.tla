-------------------------------- MODULE Ports --------------------------------
(***************************************************************************)
(* The port allocator, internal/pkg/allocator/allocator.go: two maps, each *)
(* the other's inverse, changed under one mutex, so that every operation   *)
(* is one step.  Its Get and ActiveAllocations change nothing.             *)
(***************************************************************************)
EXTENDS Naturals

CONSTANTS
  Ids,                \* target ids
  StartPort, EndPort, \* the range, both ends included
  NoPort, NoId        \* the entry is not in the map

PortsAssumption ==
  /\ StartPort \in Nat /\ EndPort \in Nat /\ StartPort <= EndPort
  /\ NoPort \notin StartPort .. EndPort /\ NoId \notin Ids

VARIABLES
  allocated, \* target id -> port
  usedPorts, \* port -> target id
  refused    \* history: the last Allocate found no port

Range == StartPort .. EndPort
Free  == {p \in Range : usedPorts[p] = NoId}

PortsTypeOK == /\ allocated \in [Ids -> Range \cup {NoPort}]
               /\ usedPorts \in [Range -> Ids \cup {NoId}]
               /\ refused \in BOOLEAN

Init == /\ allocated = [id \in Ids |-> NoPort]
        /\ usedPorts = [p \in Range |-> NoId]
        /\ refused = FALSE

\* An id that has a port keeps it; the lowest free port is given.
Allocate(id) == /\ allocated[id] = NoPort
                /\ \E p \in Free : /\ \A q \in Free : p <= q
                                   /\ allocated' = [allocated EXCEPT ![id] = p]
                                   /\ usedPorts' = [usedPorts EXCEPT ![p] = id]
                /\ refused' = FALSE

Refuse(id) == /\ allocated[id] = NoPort
              /\ Free = {}
              /\ refused' = TRUE
              /\ UNCHANGED <<allocated, usedPorts>>

\* Mutant: the port stays in use.
ReleaseMut(id) == /\ allocated[id] # NoPort
                  /\ allocated' = [allocated EXCEPT ![id] = NoPort]
                  /\ refused' = FALSE
                  /\ UNCHANGED usedPorts

Release(id) == /\ allocated[id] # NoPort
               /\ allocated' = [allocated EXCEPT ![id] = NoPort]
               /\ usedPorts' = [usedPorts EXCEPT ![allocated[id]] = NoId]
               /\ refused' = FALSE

Next == \E id \in Ids : Allocate(id) \/ Refuse(id) \/ Release(id)

\* The two maps never disagree, through any sequence of calls, so that no port
\* is given twice and none is lost (allocator.go 62-67 and 78-81).
MapsAgree == \A id \in Ids, p \in Range : allocated[id] = p <=> usedPorts[p] = id

\* A target is refused only when other targets hold every port of the range.
RefusedOnlyIfFull ==
  refused => \A p \in Range : \E id \in Ids : allocated[id] = p
=============================================================================
