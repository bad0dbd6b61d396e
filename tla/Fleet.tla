------------------------------- MODULE Fleet -------------------------------
(***************************************************************************)
(* What the supervisor manager promises to whoever gives it lists of       *)
(* targets, whatever locks it takes and loops it waits for.  A list is     *)
(* applied one id at a time, and only while no child of that id runs; the  *)
(* next list waits until every id means what this one says.  Meanwhile     *)
(* children come and go, each for what its id means at that moment.  Once  *)
(* the fleet is closed lists may still be applied, but no child starts.    *)
(*                                                                         *)
(* Nobody is waited for for ever: places of an id may be given up instead. *)
(* What still runs there is not said; the place is empty again some day,   *)
(* and until then nobody starts in it.                                     *)
(***************************************************************************)
CONSTANTS
  Ids, Targets, NoTarget,  \* the exporters, and what one may be told to serve
  Places                   \* where a child can run, one in each

VARIABLES
  list,      \* the list last taken up: a target, or none, for each id
  applying,  \* it has not been applied to the end
  meant,     \* what a child of each id serves from now on
  children,  \* the children: where each runs, and what it serves for which id
  given,     \* the places given up that are not empty yet
  late,      \* history: some place has been given up
  closed     \* no child will start any more

fleetvars == <<list, applying, meant, children, given, late, closed>>

Assignments == [Ids -> Targets \cup {NoTarget}]
Nothing     == [id \in Ids |-> NoTarget]
Of(id)      == {c \in children : c.id = id}
In(places)  == {c \in children : c.place \in places}

FleetTypeOK == /\ list \in Assignments
               /\ applying \in BOOLEAN
               /\ meant \in Assignments
               /\ children \subseteq [place : Places, id : Ids, target : Targets]
               /\ given \subseteq Places
               /\ late \in BOOLEAN
               /\ closed \in BOOLEAN

FleetInit == /\ list = Nothing
             /\ applying = FALSE
             /\ meant = Nothing
             /\ children = {}
             /\ given = {}
             /\ late = FALSE
             /\ closed = FALSE

Begin(l) == /\ ~applying
            /\ list' = l
            /\ applying' = TRUE
            /\ UNCHANGED <<meant, children, given, late, closed>>

\* The places that are not waited for, if any, are out of the fleet.
GiveUp(places) == /\ children' = children \ In(places)
                  /\ given' = given \cup places
                  /\ late' = (late \/ places # {})

Assign(id, places) == /\ applying
                      /\ Of(id) = In(places)
                      /\ GiveUp(places)
                      /\ meant' = [meant EXCEPT ![id] = list[id]]
                      /\ UNCHANGED <<list, applying, closed>>

End == /\ applying
       /\ meant = list
       /\ applying' = FALSE
       /\ UNCHANGED <<list, meant, children, given, late, closed>>

Start(p, id) == /\ ~closed
                /\ p \notin given /\ In({p}) = {}
                /\ Of(id) = {}
                /\ meant[id] # NoTarget
                /\ children' = children \cup {[place |-> p, id |-> id, target |-> meant[id]]}
                /\ UNCHANGED <<list, applying, meant, given, late, closed>>

Stop(c) == /\ children' = children \ {c}
           /\ UNCHANGED <<list, applying, meant, given, late, closed>>

Release(p) == /\ given' = given \ {p}
              /\ UNCHANGED <<list, applying, meant, children, late, closed>>

Close(places) == /\ ~applying
                 /\ children = In(places)
                 /\ GiveUp(places)
                 /\ meant' = Nothing
                 /\ closed' = TRUE
                 /\ UNCHANGED <<list, applying>>

FleetNext == \/ \E l \in Assignments : Begin(l)
             \/ End
             \/ \E places \in SUBSET Places : Close(places) \/ \E id \in Ids : Assign(id, places)
             \/ \E p \in Places, id \in Ids : Start(p, id)
             \/ \E c \in children : Stop(c)
             \/ \E p \in given : Release(p)

FleetSpec == FleetInit /\ [][FleetNext]_fleetvars

(* Outside the places given up two children never serve one id, each       *)
(* serves what its id means, and between two lists that is what the last   *)
(* list said; with nothing given up that is true of every child there is.  *)
FleetSafe ==
  /\ \A c \in children : meant[c.id] = c.target /\ c.place \notin given
  /\ \A c, d \in children : c.id = d.id \/ c.place = d.place => c = d
  /\ closed => children = {}
  /\ ~applying /\ ~closed => meant = list
  /\ ~late => given = {}
=============================================================================
