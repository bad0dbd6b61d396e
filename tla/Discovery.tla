----------------------------- MODULE Discovery -----------------------------
(***************************************************************************)
(* The discovery manager, internal/pkg/discovery/discovery.go.             *)
(*                                                                         *)
(* Each provider sends its reports into a channel of its own; a goroutine  *)
(* per provider takes them out and calls updateTargets, which replaces the *)
(* provider's targets under m.mu, merges all providers and sends the       *)
(* merged list into notifyCh.  If notifyCh is full the oldest list in it   *)
(* is dropped, without leaving the lock, and the send that follows would   *)
(* block with the lock held.  The application takes the lists out of       *)
(* notifyCh as fast or as slowly as its Reconcile lets it.                 *)
(*                                                                         *)
(* A provider's v-th report is the number v; Report[p][v] is the set of    *)
(* ids it lists (an empty ID has already been replaced by the Name).       *)
(***************************************************************************)
EXTENDS Naturals, Sequences, FiniteSets

CONSTANTS
  Providers,   \* the registered providers
  Ids,         \* target ids
  Report,      \* Report[p][v]: the ids in the v-th report of p
  MaxReports,  \* bound: how many reports a provider sends
  InCap,       \* capacity of a provider's channel, 5 in the code
  NotifyCap    \* capacity of notifyCh, 10 in the code

ASSUME MaxReportsAssumption == MaxReports \in Nat
ASSUME CapsAssumption == InCap \in Nat \ {0} /\ NotifyCap \in Nat \ {0}
ASSUME ReportAssumption == Report \in [Providers -> [1 .. MaxReports -> SUBSET Ids]]

Versions == 0 .. MaxReports

VARIABLES
  sent,      \* how many reports each provider has sent
  inCh,      \* the channel of each provider
  hand,      \* the report each goroutine has taken out and not yet merged
  step,      \* where each goroutine is: "recv", "send", "drain", "resend", "quit"
  mu,        \* m.mu is held
  targets,   \* m.targets: the last report merged of each provider, 0 if none
  result,    \* the merged list each goroutine is about to send
  notifyCh,  \* m.notifyCh
  last,      \* the last list the application took out
  ctxDone    \* the context of Start is cancelled

vars == <<sent, inCh, hand, step, mu, targets, result, notifyCh, last, ctxDone>>

Idle == 0      \* no report in hand

(* A merged list: the report it has of each provider, and the provider     *)
(* each id was taken from.                                                 *)
Reported(seen, p) == IF seen[p] = 0 THEN {} ELSE Report[p][seen[p]]
Listed(seen) == UNION {Reported(seen, p) : p \in Providers}
Lists == UNION {[seen : {s}, from : [Listed(s) -> Providers]] : s \in [Providers -> Versions]}
NoList == [seen |-> [p \in Providers |-> 0], from |-> [id \in {} |-> 0]]

TypeOK ==
  /\ sent \in [Providers -> Versions]
  /\ inCh \in [Providers -> Seq(Versions \ {0})]
  /\ \A p \in Providers : Len(inCh[p]) <= InCap
  /\ hand \in [Providers -> Versions]
  /\ step \in [Providers -> {"recv", "send", "drain", "resend", "quit"}]
  /\ mu \in BOOLEAN
  /\ targets \in [Providers -> Versions]
  /\ result \in [Providers -> Lists]
  /\ notifyCh \in Seq(Lists)
  /\ Len(notifyCh) <= NotifyCap
  /\ last \in Lists
  /\ ctxDone \in BOOLEAN

Init ==
  /\ sent = [p \in Providers |-> 0]
  /\ inCh = [p \in Providers |-> <<>>]
  /\ hand = [p \in Providers |-> Idle]
  /\ step = [p \in Providers |-> "recv"]
  /\ mu = FALSE
  /\ targets = [p \in Providers |-> 0]
  /\ result = [p \in Providers |-> NoList]
  /\ notifyCh = <<>>
  /\ last = NoList
  /\ ctxDone = FALSE

-----------------------------------------------------------------------------
(* The providers: Run sends a report, blocked while the channel is full.   *)

Send(p) == /\ sent[p] < MaxReports
           /\ ~ctxDone
           /\ Len(inCh[p]) < InCap
           /\ sent' = [sent EXCEPT ![p] = @ + 1]
           /\ inCh' = [inCh EXCEPT ![p] = Append(@, sent[p] + 1)]
           /\ UNCHANGED <<hand, step, mu, targets, result, notifyCh, last, ctxDone>>

-----------------------------------------------------------------------------
(* The goroutine of each provider.                                         *)

Goto(p, from, to) == step[p] = from /\ step' = [step EXCEPT ![p] = to]

Receive(p) == /\ step[p] = "recv"
              /\ hand[p] = Idle
              /\ inCh[p] # <<>>
              /\ hand' = [hand EXCEPT ![p] = Head(inCh[p])]
              /\ inCh' = [inCh EXCEPT ![p] = Tail(@)]
              /\ UNCHANGED <<sent, step, mu, targets, result, notifyCh, last, ctxDone>>

\* select prefers neither ctx.Done() nor the channel.
Quit(p) == /\ ctxDone
           /\ hand[p] = Idle
           /\ Goto(p, "recv", "quit")
           /\ UNCHANGED <<sent, inCh, hand, mu, targets, result, notifyCh, last, ctxDone>>

\* The providers' maps are merged in the order of Go's map iteration; the
\* last one that lists an id wins.
Orders == {s \in [1 .. Cardinality(Providers) -> Providers] :
             \A p \in Providers : \E i \in DOMAIN s : s[i] = p}
Wins(order, seen, id, p) ==
  \E i \in DOMAIN order :
    /\ order[i] = p
    /\ id \in Reported(seen, p)
    /\ \A j \in DOMAIN order : j > i => id \notin Reported(seen, order[j])
Merges(seen) == {l \in [seen : {seen}, from : [Listed(seen) -> Providers]] :
                   \E order \in Orders :
                     \A id \in Listed(seen) : Wins(order, seen, id, l.from[id])}

\* Mutant: the lock covers the map of targets and not the sends.
MergeMut(p) == /\ hand[p] # Idle
               /\ ~mu
               /\ Goto(p, "recv", "send")
               /\ targets' = [targets EXCEPT ![p] = hand[p]]
               /\ \E l \in Merges(targets') : result' = [result EXCEPT ![p] = l]
               /\ UNCHANGED <<sent, inCh, hand, mu, notifyCh, last, ctxDone>>

\* updateTargets up to its first send, under the lock.
Merge(p) == /\ hand[p] # Idle
            /\ ~mu
            /\ mu' = TRUE
            /\ Goto(p, "recv", "send")
            /\ targets' = [targets EXCEPT ![p] = hand[p]]
            /\ \E l \in Merges(targets') : result' = [result EXCEPT ![p] = l]
            /\ UNCHANGED <<sent, inCh, hand, notifyCh, last, ctxDone>>

\* The list is in the channel: updateTargets returns and unlocks.
Sent(p) == /\ notifyCh' = Append(notifyCh, result[p])
           /\ result' = [result EXCEPT ![p] = NoList]
           /\ mu' = FALSE
           /\ hand' = [hand EXCEPT ![p] = Idle]
           /\ UNCHANGED <<sent, inCh, targets, last, ctxDone>>

\* Mutant: the channel is taken for full one list too late.
TrySendMut(p) == \/ /\ Len(notifyCh) <= NotifyCap
                    /\ Goto(p, "send", "recv")
                    /\ Sent(p)
                 \/ /\ Len(notifyCh) > NotifyCap
                    /\ Goto(p, "send", "drain")
                    /\ UNCHANGED <<sent, inCh, hand, mu, targets, result, notifyCh, last, ctxDone>>

\* Mutant: if the channel is full the new list is dropped.
TrySendDropMut(p) == /\ Goto(p, "send", "recv")
                     /\ mu' = FALSE
                     /\ hand' = [hand EXCEPT ![p] = Idle]
                     /\ result' = [result EXCEPT ![p] = NoList]
                     /\ notifyCh' = IF Len(notifyCh) < NotifyCap
                                     THEN Append(notifyCh, result[p]) ELSE notifyCh
                     /\ UNCHANGED <<sent, inCh, targets, last, ctxDone>>

\* The first select: send, or go and drain if the channel is full.
TrySend(p) == \/ /\ Len(notifyCh) < NotifyCap
                 /\ Goto(p, "send", "recv")
                 /\ Sent(p)
              \/ /\ Len(notifyCh) = NotifyCap
                 /\ Goto(p, "send", "drain")
                 /\ UNCHANGED <<sent, inCh, hand, mu, targets, result, notifyCh, last, ctxDone>>

\* Mutant: nothing is dropped.
DrainMut(p) == /\ Goto(p, "drain", "resend")
               /\ UNCHANGED <<sent, inCh, hand, mu, targets, result, notifyCh, last, ctxDone>>

\* The second select: drop the oldest list, if the reader left one.
Drain(p) == /\ Goto(p, "drain", "resend")
            /\ notifyCh' = IF notifyCh = <<>> THEN <<>> ELSE Tail(notifyCh)
            /\ UNCHANGED <<sent, inCh, hand, mu, targets, result, last, ctxDone>>

\* The plain send, which waits for room with the lock held.
Resend(p) == /\ Len(notifyCh) < NotifyCap
             /\ Goto(p, "resend", "recv")
             /\ Sent(p)

-----------------------------------------------------------------------------
(* The application's reader, and the cancellation of the context.          *)

Take == /\ notifyCh # <<>>
        /\ last' = Head(notifyCh)
        /\ notifyCh' = Tail(notifyCh)
        /\ UNCHANGED <<sent, inCh, hand, step, mu, targets, result, ctxDone>>

Cancel == /\ ~ctxDone
          /\ ctxDone' = TRUE
          /\ UNCHANGED <<sent, inCh, hand, step, mu, targets, result, notifyCh, last>>

Next == Take \/ Cancel
        \/ \E p \in Providers : \/ Send(p) \/ Receive(p) \/ Quit(p) \/ Merge(p)
                                \/ TrySend(p) \/ Drain(p) \/ Resend(p)

Spec == Init /\ [][Next]_vars

(* The goroutines run, the reader comes back to its channel once Reconcile *)
(* has returned, and a goroutine that waits for m.mu gets it.  Nothing is  *)
(* assumed of the providers, which may fall silent, nor of Cancel.         *)
Fairness ==
  /\ \A p \in Providers : /\ WF_vars(Receive(p)) /\ SF_vars(Merge(p))
                          /\ WF_vars(TrySend(p)) /\ WF_vars(Drain(p)) /\ WF_vars(Resend(p))
  /\ WF_vars(Take)

FairSpec == Spec /\ Fairness

-----------------------------------------------------------------------------
(* Safety.                                                                 *)

\* The send made with the lock held never has to wait: between the drain and
\* the send nobody else can fill the channel, so updateTargets and everyone
\* who waits for m.mu go on however slow the reader is (discovery.go 118-128).
SendNeverBlocks ==
  \A p \in Providers : step[p] = "resend" => Len(notifyCh) < NotifyCap

\* The lists on their way to the reader, oldest first, the reader's own in front.
Pipeline == <<last>> \o notifyCh

\* However many lists were dropped, the newest one that exists, in the channel
\* or with the reader, holds the last report merged of every provider whenever
\* no updateTargets is under way.
NewestIsCurrent ==
  ~mu => Pipeline[Len(Pipeline)].seen = targets

\* The reader never goes back: each list in the pipeline holds the same or a
\* later report of every provider than the list before it.
ListsInOrder ==
  \A i \in 1 .. Len(notifyCh), p \in Providers :
    Pipeline[i].seen[p] <= Pipeline[i + 1].seen[p]

-----------------------------------------------------------------------------
(* Liveness, and the abstract specification.                               *)

\* Every report reaches the reader, itself or in a later one, unless discovery
\* is cancelled.
ReportsArrive ==
  \A p \in Providers : \A v \in 1 .. MaxReports :
    (sent[p] >= v) ~> (last.seen[p] >= v \/ ctxDone)

Inv == INSTANCE Inventory WITH Sources <- Providers, current <- targets,
                               delivered <- last.seen

\* The channels and the lock implement Inventory.
ImplementsInventory == Inv!InvSpec

(* For its reader a list is the reports it holds.  The list of a goroutine  *)
(* that has only the plain send before it counts as sent.                  *)
SeenOf(lists) == [i \in 1 .. Len(lists) |-> lists[i].seen]
Resending == {p \in Providers : step[p] = "resend"}
Queued == SeenOf(IF Resending = {} THEN notifyCh
                 ELSE Append(notifyCh, result[CHOOSE p \in Resending : TRUE]))
Offered == [p \in Providers |->
              IF step[p] \in {"send", "drain"} THEN targets[p] - 1 ELSE targets[p]]

Snap == INSTANCE Snapshots WITH Lists <- [Providers -> Versions], NoList <- NoList.seen,
                                Capacity <- NotifyCap, newest <- Offered, queue <- Queued

\* The two selects and the send of updateTargets are to the reader one step that never
\* waits and never loses the list it sends, whoever else wants to send and
\* however many lists the reader takes between them (discovery.go 118-128).
ImplementsSnapshots == Snap!SnapSpec
=============================================================================
