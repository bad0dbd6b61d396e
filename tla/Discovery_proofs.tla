-------------------------- MODULE Discovery_proofs --------------------------
(***************************************************************************)
(* Theorems about Discovery, for every set of providers, every capacity of *)
(* the channels and every number of reports.                               *)
(***************************************************************************)
EXTENDS Discovery, SequenceTheorems, TLAPS

(***************************************************************************)
(* The inductive invariant.                                                *)
(***************************************************************************)
Sending == {"send", "drain", "resend"}

\* The goroutine between its merge and its send holds the lock, and its list
\* is the map of targets.
Holder ==
  /\ \A p \in Providers : step[p] \in Sending =>
       /\ mu
       /\ hand[p] # Idle /\ hand[p] = targets[p]
       /\ result[p].seen = targets
  /\ \A p, q \in Providers : step[p] \in Sending /\ step[q] \in Sending => p = q
  /\ mu => \E p \in Providers : step[p] \in Sending

\* Reports are numbered without gaps on their way to the map.
Taken(p) == IF hand[p] # Idle /\ step[p] \notin Sending THEN targets[p] + 1 ELSE targets[p]
Counts ==
  \A p \in Providers :
    /\ hand[p] # Idle => hand[p] = Taken(p)
    /\ sent[p] = Taken(p) + Len(inCh[p])
    /\ \A i \in 1 .. Len(inCh[p]) : inCh[p][i] = Taken(p) + i

Older(s, t) == \A p \in Providers : s[p] <= t[p]

\* The lists are sorted, the reader's is the oldest, the map is the newest.
Sorted ==
  /\ Older(last.seen, targets)
  /\ \A i \in 1 .. Len(notifyCh) : /\ Older(last.seen, notifyCh[i].seen)
                                   /\ Older(notifyCh[i].seen, targets)
  /\ \A i, j \in 1 .. Len(notifyCh) : i <= j => Older(notifyCh[i].seen, notifyCh[j].seen)

Newest ==
  ~mu => IF notifyCh = <<>> THEN last.seen = targets
                            ELSE notifyCh[Len(notifyCh)].seen = targets

IInv == TypeOK /\ Holder /\ SendNeverBlocks /\ Counts /\ Sorted /\ Newest

(***************************************************************************)
(* Lists.                                                                  *)
(***************************************************************************)

\* The list of no report is a list.
LEMMA NoListIsList == NoList \in Lists
<1>1. NoList.seen \in [Providers -> Versions]
  BY MaxReportsAssumption DEF NoList, Versions
<1>2. Listed(NoList.seen) = {}
  BY DEF Listed, Reported, NoList
<1>3. NoList \in [seen : {NoList.seen}, from : [Listed(NoList.seen) -> Providers]]
  BY <1>2 DEF NoList
<1> QED BY <1>1, <1>3 DEF Lists

\* A list names one report of each provider.
LEMMA ListSeen == \A l \in Lists : l.seen \in [Providers -> Versions]
  BY DEF Lists

\* What updateTargets merges of some reports is a list of these reports.
LEMMA MergesAreLists ==
  ASSUME NEW s \in [Providers -> Versions], NEW l \in Merges(s)
  PROVE  l \in Lists /\ l.seen = s
  BY DEF Merges, Lists

(***************************************************************************)
(* The invariant holds initially, and every action preserves it.           *)
(***************************************************************************)

\* The invariant holds before the first report.
LEMMA InvInit == Init => IInv
<1> SUFFICES ASSUME Init PROVE IInv
  OBVIOUS
<1> USE MaxReportsAssumption, CapsAssumption DEF Init, Versions, Idle
<1>1. TypeOK
  <2>1. inCh \in [Providers -> Seq((0 .. MaxReports) \ {0})] /\ notifyCh \in Seq(Lists)
    OBVIOUS
  <2>2. (\A p \in Providers : Len(inCh[p]) <= InCap) /\ Len(notifyCh) <= NotifyCap
    <3>1. (\A p \in Providers : Len(inCh[p]) = 0) /\ Len(notifyCh) = 0
      OBVIOUS
    <3> QED BY <3>1
  <2>3. 0 \in 0 .. MaxReports
    OBVIOUS
  <2>4. result \in [Providers -> Lists] /\ last \in Lists
    BY NoListIsList
  <2>5. /\ sent \in [Providers -> 0 .. MaxReports]
        /\ hand \in [Providers -> 0 .. MaxReports]
        /\ targets \in [Providers -> 0 .. MaxReports]
    BY <2>3
  <2>6. /\ step \in [Providers -> {"recv", "send", "drain", "resend", "quit"}]
        /\ mu \in BOOLEAN /\ ctxDone \in BOOLEAN
    OBVIOUS
  <2> QED BY <2>1, <2>2, <2>4, <2>5, <2>6 DEF TypeOK
<1>2. Holder /\ SendNeverBlocks /\ Counts
  BY DEF Holder, Sending, SendNeverBlocks, Counts, Taken
<1>3. Sorted /\ Newest
  BY DEF Sorted, Newest, Older, NoList
<1> QED BY <1>1, <1>2, <1>3 DEF IInv

\* A provider's report joins its channel as the next number.
LEMMA SendStep == ASSUME IInv, NEW p \in Providers, Send(p) PROVE IInv'
<1> USE DEF Send, IInv, Versions
<1>1. TypeOK'
  BY MaxReportsAssumption, CapsAssumption, SMTT(30) DEF TypeOK
<1>2. Holder' /\ SendNeverBlocks' /\ Sorted' /\ Newest'
  BY DEF Holder, SendNeverBlocks, Sorted, Newest
<1>3. Counts'
  <2> DEFINE ch == inCh[p]
  <2>1. /\ ch \in Seq(Versions \ {0})
        /\ inCh'[p] = Append(ch, sent[p] + 1)
        /\ Len(inCh'[p]) = Len(ch) + 1
        /\ \A i \in 1 .. Len(ch) : inCh'[p][i] = ch[i]
        /\ inCh'[p][Len(ch) + 1] = sent[p] + 1
    BY DEF TypeOK
  <2>2. sent'[p] = sent[p] + 1 /\ sent[p] = Taken(p) + Len(ch) /\ Taken(p)' = Taken(p)
    BY DEF TypeOK, Counts, Taken
  <2>3. Taken(p) \in Nat
    BY MaxReportsAssumption DEF TypeOK, Taken
  <2>4. \A i \in 1 .. Len(ch) + 1 : inCh'[p][i] = Taken(p) + i
    BY <2>1, <2>2, <2>3 DEF Counts
  <2>5. ASSUME NEW q \in Providers, q # p
        PROVE  inCh'[q] = inCh[q] /\ sent'[q] = sent[q] /\ Taken(q)' = Taken(q)
    BY <2>5 DEF TypeOK, Taken
  <2> QED BY <2>1, <2>2, <2>3, <2>4, <2>5, SMTT(30) DEF Counts
<1> QED BY <1>1, <1>2, <1>3

\* The report taken out is the one after the last merged.
LEMMA ReceiveStep == ASSUME IInv, NEW p \in Providers, Receive(p) PROVE IInv'
<1> USE DEF Receive, IInv, Versions, Idle
<1>1. TypeOK'
  BY MaxReportsAssumption, CapsAssumption, SMTT(30) DEF TypeOK
<1>2. Holder' /\ SendNeverBlocks' /\ Sorted' /\ Newest'
  BY DEF Holder, SendNeverBlocks, Sorted, Newest, Sending, TypeOK
<1>3. Counts'
  <2> DEFINE ch == inCh[p]
  <2>1. /\ ch \in Seq(Versions \ {0}) /\ ch # <<>>
        /\ inCh'[p] = Tail(ch) /\ hand'[p] = ch[1]
        /\ Len(inCh'[p]) = Len(ch) - 1
        /\ \A i \in 1 .. Len(ch) - 1 : inCh'[p][i] = ch[i + 1]
    BY DEF TypeOK
  <2>2. Taken(p) = targets[p] /\ targets[p] \in Nat /\ Len(ch) \in Nat \ {0}
    BY <2>1, MaxReportsAssumption DEF TypeOK, Taken
  <2>3. ch[1] = Taken(p) + 1
    BY <2>2 DEF Counts
  <2>4. hand'[p] # 0 /\ Taken(p)' = Taken(p) + 1 /\ hand'[p] = Taken(p)'
    BY <2>1, <2>2, <2>3 DEF Taken, Sending
  <2>5. sent[p] = Taken(p) + Len(ch) /\ \A i \in 1 .. Len(ch) : ch[i] = Taken(p) + i
    BY DEF Counts
  <2>6. \A i \in 1 .. Len(ch) - 1 : inCh'[p][i] = Taken(p)' + i
    <3> TAKE i \in 1 .. Len(ch) - 1
    <3>1. i + 1 \in 1 .. Len(ch) /\ i \in Nat
      BY <2>2
    <3>2. ch[i + 1] = Taken(p) + (i + 1)
      BY <2>5, <3>1
    <3>3. inCh'[p][i] = ch[i + 1]
      BY <2>1
    <3>4. Taken(p) + (i + 1) = (Taken(p) + 1) + i
      BY <2>2, <3>1, SMTT(30)
    <3> HIDE DEF ch
    <3> QED BY <2>4, <3>2, <3>3, <3>4
  <2>7. sent'[p] = Taken(p)' + Len(inCh'[p])
    BY <2>1, <2>2, <2>4, <2>5
  <2>8. ASSUME NEW q \in Providers, q # p
        PROVE  /\ inCh'[q] = inCh[q] /\ sent'[q] = sent[q] /\ hand'[q] = hand[q]
               /\ Taken(q)' = Taken(q)
    BY <2>8 DEF TypeOK, Taken
  <2> QED BY <2>1, <2>4, <2>6, <2>7, <2>8 DEF Counts
<1> QED BY <1>1, <1>2, <1>3

\* The merge takes the lock, and its list is newer than those in the channel.
LEMMA MergeStep == ASSUME IInv, NEW p \in Providers, Merge(p) PROVE IInv'
<1> USE DEF Merge, Goto, IInv, Versions, Idle
<1>1. PICK l \in Merges(targets') : result' = [result EXCEPT ![p] = l]
  OBVIOUS
<1>2. targets' \in [Providers -> Versions]
  BY DEF TypeOK
<1>3. l \in Lists /\ l.seen = targets'
  BY <1>1, <1>2, MergesAreLists
<1>4. targets'[p] = targets[p] + 1 /\ Older(targets, targets')
  <2>1. hand[p] = targets[p] + 1
    BY DEF Counts, Taken, Sending
  <2>2. targets'[p] = targets[p] + 1 /\ \A q \in Providers : q # p => targets'[q] = targets[q]
    BY <2>1 DEF TypeOK
  <2>3. \A q \in Providers : targets[q] \in Nat
    BY MaxReportsAssumption DEF TypeOK
  <2> QED BY <2>2, <2>3 DEF Older
<1>5. TypeOK'
  BY <1>1, <1>2, <1>3 DEF TypeOK
<1>6. Holder' /\ SendNeverBlocks'
  BY <1>1, <1>3 DEF Holder, SendNeverBlocks, Sending, TypeOK
<1>7. Counts'
  BY <1>4 DEF Counts, Taken, TypeOK, Sending
<1>8. Sorted'
  <2>1. \A q \in Providers : targets[q] \in Nat /\ targets'[q] \in Nat
    BY <1>2, MaxReportsAssumption DEF TypeOK
  <2>2. \A m \in Lists, q \in Providers : m.seen[q] \in Nat
    BY ListSeen, MaxReportsAssumption
  <2>3. \A m \in Lists : Older(m.seen, targets) => Older(m.seen, targets')
    BY <1>4, <2>1, <2>2 DEF Older
  <2>4. last \in Lists /\ \A i \in 1 .. Len(notifyCh) : notifyCh[i] \in Lists
    BY DEF TypeOK
  <2> QED BY <2>3, <2>4 DEF Sorted
<1>9. Newest'
  BY DEF Newest
<1> QED BY <1>5, <1>6, <1>7, <1>8, <1>9

\* The list of the lock's holder is appended and the lock is left.
LEMMA SentStep ==
  ASSUME IInv, NEW p \in Providers, step[p] \in Sending, Len(notifyCh) < NotifyCap,
         step' = [step EXCEPT ![p] = "recv"], Sent(p)
  PROVE  IInv'
<1> USE DEF Sent, IInv, Versions, Idle
<1>1. TypeOK'
  <2>1. result[p] \in Lists /\ Len(notifyCh) \in Nat
    BY DEF TypeOK
  <2>2. notifyCh' \in Seq(Lists) /\ Len(notifyCh') = Len(notifyCh) + 1
    BY <2>1 DEF TypeOK
  <2>3. Len(notifyCh') <= NotifyCap
    BY <2>1, <2>2, CapsAssumption
  <2>4. result' \in [Providers -> Lists]
    BY NoListIsList DEF TypeOK
  <2>5. hand' \in [Providers -> 0 .. MaxReports]
    BY MaxReportsAssumption DEF TypeOK
  <2> QED BY <2>2, <2>3, <2>4, <2>5 DEF TypeOK
<1>2. Holder' /\ SendNeverBlocks' /\ Counts'
  BY DEF Holder, SendNeverBlocks, Counts, Taken, Sending, TypeOK
<1>3. /\ Len(notifyCh') = Len(notifyCh) + 1
      /\ \A i \in 1 .. Len(notifyCh) : notifyCh'[i] = notifyCh[i]
      /\ notifyCh'[Len(notifyCh) + 1].seen = targets
  BY DEF Holder, TypeOK
<1>4. Older(targets, targets)
  BY MaxReportsAssumption DEF Older, TypeOK
<1>5. Sorted'
  <2> DEFINE n == Len(notifyCh)
  <2>1. n \in Nat /\ targets' = targets /\ last' = last
    BY DEF TypeOK
  <2>2. \A i \in 1 .. n + 1 : i \in 1 .. n \/ i = n + 1
    BY <2>1
  <2>3. \A i \in 1 .. n + 1 : /\ Older(last.seen, notifyCh'[i].seen)
                              /\ Older(notifyCh'[i].seen, targets)
    BY <1>3, <1>4, <2>1, <2>2 DEF Sorted
  <2>4. \A i, j \in 1 .. n + 1 : i <= j => Older(notifyCh'[i].seen, notifyCh'[j].seen)
    <3> SUFFICES ASSUME NEW i \in 1 .. n + 1, NEW j \in 1 .. n + 1, i <= j
                 PROVE  Older(notifyCh'[i].seen, notifyCh'[j].seen)
      OBVIOUS
    <3>1. CASE j = n + 1
      BY <1>3, <2>3, <3>1
    <3>2. CASE j \in 1 .. n
      BY <1>3, <2>1, <3>2 DEF Sorted
    <3> QED BY <2>2, <3>1, <3>2
  <2> QED BY <1>3, <2>1, <2>3, <2>4 DEF Sorted
<1>6. Newest'
  BY <1>3 DEF Newest, TypeOK
<1> QED BY <1>1, <1>2, <1>5, <1>6

\* The oldest list leaves the channel, dropped or taken by the reader.
LEMMA TailSorted ==
  ASSUME TypeOK, Sorted, notifyCh # <<>>, notifyCh' = Tail(notifyCh), UNCHANGED targets,
         last' = last \/ last' = Head(notifyCh)
  PROVE  Sorted'
<1>1. /\ Len(notifyCh') = Len(notifyCh) - 1
      /\ \A i \in 1 .. Len(notifyCh') : notifyCh'[i] = notifyCh[i + 1]
      /\ Head(notifyCh) = notifyCh[1]
  BY DEF TypeOK
<1> QED BY <1>1 DEF Sorted, TypeOK

\* The drain drops the oldest list and leaves room for the lock's holder.
LEMMA DrainStep == ASSUME IInv, NEW p \in Providers, Drain(p) PROVE IInv'
<1> USE DEF Drain, Goto, IInv
<1>1. TypeOK'
  BY CapsAssumption DEF TypeOK
<1>2. Holder' /\ Counts'
  BY DEF Holder, Counts, Taken, Sending, TypeOK
<1>3. SendNeverBlocks'
  BY CapsAssumption DEF SendNeverBlocks, TypeOK, Holder, Sending
<1>4. Sorted'
  BY TailSorted DEF Sorted
<1>5. Newest'
  BY DEF Newest, Holder, Sending
<1> QED BY <1>1, <1>2, <1>3, <1>4, <1>5

\* The reader takes the oldest list.
LEMMA TakeStep == ASSUME IInv, Take PROVE IInv'
<1> USE DEF Take, IInv
<1>1. TypeOK'
  BY CapsAssumption DEF TypeOK
<1>2. Holder' /\ Counts'
  BY DEF Holder, Counts, Taken
<1>3. SendNeverBlocks'
  BY CapsAssumption DEF SendNeverBlocks, TypeOK
<1>4. Sorted'
  BY TailSorted
<1>5. Newest'
  <2>3. Len(notifyCh) \in Nat \ {0}
    <3>1. notifyCh \in Seq(Lists) /\ notifyCh # <<>>
      BY DEF TypeOK
    <3> QED BY ONLY <3>1, EmptySeq
  <2>1. CASE Len(notifyCh) = 1
    BY <2>1 DEF Newest, TypeOK
  <2>2. CASE Len(notifyCh) > 1
    <3>1. notifyCh \in Seq(Lists) /\ notifyCh' = Tail(notifyCh)
      BY DEF TypeOK
    <3>2. Len(notifyCh') = Len(notifyCh) - 1
      BY <2>2, <3>1
    <3>3. notifyCh'[Len(notifyCh) - 1] = notifyCh[Len(notifyCh)]
      BY <2>2, <3>1
    <3>4. notifyCh' # <<>>
      <4> SUFFICES ASSUME notifyCh' = <<>> PROVE FALSE
        OBVIOUS
      <4>1. Len(notifyCh') = 0
        BY ONLY notifyCh' = <<>>, EmptySeq
      <4> QED BY <2>2, <2>3, <3>2, <4>1
    <3> QED BY <3>2, <3>3, <3>4 DEF Newest
  <2>4. Len(notifyCh) = 1 \/ Len(notifyCh) > 1
    <3>1. \A n \in Nat \ {0} : n = 1 \/ n > 1
      BY ONLY TRUE
    <3> QED BY ONLY <2>3, <3>1, Zenon
  <2> QED BY ONLY <2>1, <2>2, <2>4
<1> QED BY <1>1, <1>2, <1>3, <1>4, <1>5

\* Leaving for the drain, quitting, cancelling: no list moves.
LEMMA ControlStep ==
  ASSUME IInv,
         \/ \E p \in Providers : \/ Quit(p)
                                 \/ /\ step[p] = "send"
                                    /\ step' = [step EXCEPT ![p] = "drain"]
                                    /\ UNCHANGED <<sent, inCh, hand, mu, targets, result,
                                                   notifyCh, last, ctxDone>>
         \/ Cancel \/ UNCHANGED vars
  PROVE  IInv'
<1> USE DEF Quit, Cancel, Goto, vars, IInv
<1>1. TypeOK'
  BY DEF TypeOK
<1>2. Holder' /\ SendNeverBlocks' /\ Counts'
  BY DEF Holder, SendNeverBlocks, Counts, Taken, Sending, TypeOK
<1>3. Sorted' /\ Newest'
  BY DEF Sorted, Newest
<1> QED BY <1>1, <1>2, <1>3

\* Every step of providers, goroutines and reader preserves the invariant.
LEMMA InvStep == IInv /\ [Next]_vars => IInv'
<1> SUFFICES ASSUME IInv, [Next]_vars PROVE IInv'
  OBVIOUS
<1>1. ASSUME NEW p \in Providers, TrySend(p) PROVE IInv'
  BY <1>1, SentStep, ControlStep DEF TrySend, Goto, Sending
<1>2. ASSUME NEW p \in Providers, Resend(p) PROVE IInv'
  BY <1>2, SentStep DEF Resend, Goto, Sending
<1> QED
  BY <1>1, <1>2, SendStep, ReceiveStep, MergeStep, DrainStep, TakeStep, ControlStep DEF Next

\* The invariant holds in every behaviour of discovery.
THEOREM Invariance == Spec => []IInv
  BY InvInit, InvStep, PTL DEF Spec

(***************************************************************************)
(* What follows from it.                                                   *)
(***************************************************************************)

\* Every variable keeps its type and every channel its capacity.
THEOREM TypeCorrect == Spec => []TypeOK
<1>1. IInv => TypeOK
  BY DEF IInv
<1> QED BY <1>1, Invariance, PTL

\* The send made under the lock never waits, whatever the capacity is.
THEOREM SendNeverBlocksHolds == Spec => []SendNeverBlocks
<1>1. IInv => SendNeverBlocks
  BY DEF IInv
<1> QED BY <1>1, Invariance, PTL

\* The reader's list, then those of the channel.
LEMMA PipelineOf ==
  ASSUME TypeOK
  PROVE  /\ Len(Pipeline) = Len(notifyCh) + 1
         /\ Pipeline[1] = last
         /\ \A i \in 1 .. Len(notifyCh) : Pipeline[i + 1] = notifyCh[i]
<1>1. notifyCh \in Seq(Lists) /\ <<last>> \in Seq(Lists) /\ Len(<<last>>) = 1
  BY DEF TypeOK
<1> QED BY <1>1 DEF Pipeline

\* The newest list holds the last report of every provider, however many
\* lists were dropped on the way.
THEOREM NewestIsCurrentHolds == Spec => []NewestIsCurrent
<1>1. IInv => NewestIsCurrent
  <2> SUFFICES ASSUME IInv, ~mu PROVE Pipeline[Len(Pipeline)].seen = targets
    BY DEF NewestIsCurrent
  <2> USE DEF IInv
  <2>1. CASE notifyCh = <<>>
    <3>1. Len(notifyCh) = 0
      BY ONLY <2>1, EmptySeq
    <3>2. Len(Pipeline) = 1
      BY <3>1, PipelineOf
    <3> QED BY <2>1, <3>2, PipelineOf DEF Newest
  <2>2. CASE notifyCh # <<>>
    <3>1. notifyCh \in Seq(Lists)
      BY DEF TypeOK
    <3>2. Len(notifyCh) \in 1 .. Len(notifyCh)
      BY ONLY <2>2, <3>1, EmptySeq
    <3>3. Pipeline[Len(Pipeline)] = notifyCh[Len(notifyCh)]
      BY <3>2, PipelineOf
    <3> QED BY <2>2, <3>3 DEF Newest
  <2> QED BY <2>1, <2>2
<1> QED BY <1>1, Invariance, PTL

\* The reader is never handed an older report than it had.
THEOREM ListsInOrderHolds == Spec => []ListsInOrder
<1>1. IInv => ListsInOrder
  <2> SUFFICES ASSUME IInv, NEW i \in 1 .. Len(notifyCh), NEW p \in Providers
               PROVE  Pipeline[i].seen[p] <= Pipeline[i + 1].seen[p]
    BY DEF ListsInOrder
  <2> USE DEF IInv
  <2>1. Pipeline[i + 1] = notifyCh[i]
    BY PipelineOf
  <2>2. CASE i = 1
    BY <2>1, <2>2, PipelineOf DEF Sorted, Older
  <2>3. CASE i # 1
    <3>1. i - 1 \in 1 .. Len(notifyCh) /\ (i - 1) + 1 = i /\ i - 1 <= i
      BY <2>3
    <3>2. Pipeline[i] = notifyCh[i - 1]
      BY <3>1, PipelineOf
    <3> QED BY <2>1, <3>1, <3>2 DEF Sorted, Older
  <2> QED BY <2>2, <2>3
<1> QED BY <1>1, Invariance, PTL

(***************************************************************************)
(* Discovery implements Inventory.                                         *)
(***************************************************************************)

\* A merge is the publication of the provider's next report.
LEMMA MergePublishes ==
  ASSUME IInv, NEW p \in Providers, Merge(p)
  PROVE  Inv!Publish(p)
<1>1. hand[p] = targets[p] + 1
  BY DEF IInv, Merge, Goto, Counts, Taken, Sending
<1> QED BY <1>1 DEF Merge, Inv!Publish, IInv, TypeOK

\* What the reader takes is no older than what it had.
LEMMA TakeHands == IInv /\ Take => Inv!Hand
<1> SUFFICES ASSUME IInv, Take PROVE Inv!Hand
  OBVIOUS
<1> USE DEF IInv, Take
<1>1. notifyCh \in Seq(Lists) /\ notifyCh # <<>>
  BY DEF TypeOK
<1>2. 1 \in 1 .. Len(notifyCh) /\ Head(notifyCh) = notifyCh[1]
  BY ONLY <1>1, EmptySeq
<1>3. last' = notifyCh[1] /\ last' \in Lists
  BY <1>1, <1>2
<1>4. last'.seen \in [Providers -> Nat]
  BY <1>3, ListSeen, MaxReportsAssumption DEF Versions
<1>5. Older(last.seen, last'.seen) /\ Older(last'.seen, targets)
  BY <1>2, <1>3 DEF Sorted
<1> QED BY <1>4, <1>5 DEF Inv!Hand, Inv!Older, Older

\* The channels, the drops and the lock implement a listener that sees the
\* reports in order and never ahead of the providers.
THEOREM Refinement == Spec => ImplementsInventory
<1>1. Init => Inv!InvInit
  BY DEF Init, Inv!InvInit, Inv!Nothing, NoList
<1>2. IInv /\ [Next]_vars => [Inv!InvNext]_(Inv!invvars)
  <2> SUFFICES ASSUME IInv, [Next]_vars PROVE [Inv!InvNext]_(Inv!invvars)
    OBVIOUS
  <2>1. ASSUME NEW p \in Providers, Merge(p) PROVE Inv!InvNext
    BY <2>1, MergePublishes DEF Inv!InvNext
  <2>2. CASE Take
    BY <2>2, TakeHands DEF Inv!InvNext
  <2>3. ASSUME NEW p \in Providers,
               Send(p) \/ Receive(p) \/ Quit(p) \/ TrySend(p) \/ Drain(p) \/ Resend(p)
        PROVE  UNCHANGED Inv!invvars
    BY <2>3 DEF Send, Receive, Quit, TrySend, Drain, Resend, Sent, Inv!invvars
  <2>4. CASE Cancel \/ UNCHANGED vars
    BY <2>4 DEF Cancel, vars, Inv!invvars
  <2> QED BY <2>1, <2>2, <2>3, <2>4 DEF Next
<1> QED BY <1>1, <1>2, Invariance, PTL DEF Spec, ImplementsInventory, Inv!InvSpec

(***************************************************************************)
(* What Inventory promises follows from its steps.                         *)
(***************************************************************************)

\* The listener's reports are of the providers, and none runs ahead of them.
LEMMA InventoryStep ==
  Inv!InvTypeOK /\ Inv!InvSafe /\ [Inv!InvNext]_(Inv!invvars) => Inv!InvTypeOK' /\ Inv!InvSafe'
<1> SUFFICES ASSUME Inv!InvTypeOK, Inv!InvSafe, [Inv!InvNext]_(Inv!invvars)
             PROVE  Inv!InvTypeOK' /\ Inv!InvSafe'
  OBVIOUS
<1> USE DEF Inv!InvTypeOK, Inv!InvSafe, Inv!Older
<1>1. CASE Inv!Hand
  BY <1>1 DEF Inv!Hand
<1>2. ASSUME NEW p \in Providers, Inv!Publish(p) PROVE Inv!InvTypeOK' /\ Inv!InvSafe'
  BY <1>2 DEF Inv!Publish
<1>3. CASE UNCHANGED Inv!invvars
  BY <1>3 DEF Inv!invvars
<1> QED BY <1>1, <1>2, <1>3 DEF Inv!InvNext

\* A listener that is handed reports in order knows nothing that was not reported.
THEOREM InventoryIsSafe == Inv!InvSpec => [](Inv!InvTypeOK /\ Inv!InvSafe)
<1>1. Inv!InvInit => Inv!InvTypeOK /\ Inv!InvSafe
  BY DEF Inv!InvInit, Inv!InvTypeOK, Inv!InvSafe, Inv!Older, Inv!Nothing
<1> QED BY <1>1, InventoryStep, PTL DEF Inv!InvSpec

\* What the application was given never goes back to an older report of any
\* provider, whichever lists were dropped for it (discovery.go 118-128).
THEOREM ReaderNeverGoesBack == Spec => [][\A p \in Providers : last.seen[p] <= last'.seen[p]]_last
<1> DEFINE Forward == \A p \in Providers : last.seen[p] <= last'.seen[p]
<1>1. IInv /\ [Next]_vars => [Forward]_last
  <2> SUFFICES ASSUME IInv, [Next]_vars, last' # last PROVE Forward
    OBVIOUS
  <2>1. CASE Take
    BY <2>1, TakeHands DEF Inv!Hand, Inv!Older
  <2>2. CASE \E p \in Providers : \/ Send(p) \/ Receive(p) \/ Quit(p) \/ Merge(p)
                                  \/ TrySend(p) \/ Drain(p) \/ Resend(p)
    BY <2>2 DEF Send, Receive, Quit, Merge, TrySend, Drain, Resend, Sent
  <2>3. CASE Cancel \/ UNCHANGED vars
    BY <2>3 DEF Cancel, vars
  <2> QED BY <2>1, <2>2, <2>3 DEF Next
<1> QED BY <1>1, Invariance, PTL DEF Spec
(***************************************************************************)
(* The channel and the lock implement Snapshots.                           *)
(***************************************************************************)
Vectors == [Providers -> Versions]

\* Of a sequence of lists, the reports they hold, one by one.
LEMMA SeenOfFacts ==
  ASSUME NEW q \in Seq(Lists)
  PROVE  /\ SeenOf(q) \in Seq(Vectors)
         /\ Len(SeenOf(q)) = Len(q)
         /\ \A i \in 1 .. Len(q) : SeenOf(q)[i] = q[i].seen
<1>1. \A i \in 1 .. Len(q) : q[i].seen \in Vectors
  BY ListSeen, ElementOfSeq DEF Vectors
<1>2. SeenOf(q) \in [1 .. Len(q) -> Vectors] /\ Len(q) \in Nat
  BY <1>1 DEF SeenOf
<1>3. SeenOf(q) \in Seq(Vectors) /\ Len(SeenOf(q)) = Len(q)
  BY ONLY <1>2
<1> QED BY <1>3 DEF SeenOf

\* What is appended to the lists is appended to the reports.
LEMMA SeenOfAppend ==
  ASSUME NEW q \in Seq(Lists), NEW l \in Lists
  PROVE  SeenOf(Append(q, l)) = Append(SeenOf(q), l.seen)
<1> DEFINE a == Append(q, l)
           b == Append(SeenOf(q), l.seen)
<1>1. a \in Seq(Lists) /\ Len(a) = Len(q) + 1 /\ Len(q) \in Nat
  OBVIOUS
<1>2. \A i \in 1 .. Len(q) : a[i] = q[i]
  OBVIOUS
<1>3. a[Len(q) + 1] = l
  OBVIOUS
<1>4. l.seen \in Vectors
  BY ListSeen DEF Vectors
<1>5. SeenOf(q) \in Seq(Vectors) /\ Len(SeenOf(q)) = Len(q)
  BY SeenOfFacts
<1>6. b \in Seq(Vectors) /\ Len(b) = Len(q) + 1
  BY ONLY <1>1, <1>4, <1>5
<1>7. \A i \in 1 .. Len(q) : b[i] = SeenOf(q)[i]
  BY ONLY <1>4, <1>5
<1>8. b[Len(q) + 1] = l.seen
  BY ONLY <1>4, <1>5
<1> HIDE DEF a, b
<1>9. /\ SeenOf(a) \in Seq(Vectors) /\ Len(SeenOf(a)) = Len(q) + 1
      /\ \A i \in 1 .. Len(q) + 1 : SeenOf(a)[i] = a[i].seen
  BY <1>1, SeenOfFacts
<1>10. \A i \in 1 .. Len(q) + 1 : i \in 1 .. Len(q) \/ i = Len(q) + 1
  BY ONLY <1>1
<1>11. \A i \in 1 .. Len(q) : SeenOf(q)[i] = q[i].seen /\ i \in 1 .. Len(q) + 1
  BY <1>1, SeenOfFacts
<1>12. \A i \in 1 .. Len(q) + 1 : SeenOf(a)[i] = b[i]
  BY ONLY <1>2, <1>3, <1>7, <1>8, <1>9, <1>10, <1>11
<1>13. SeenOf(a) = b
  BY <1>6, <1>9, <1>12, SeqEqual
<1> QED BY <1>13 DEF a, b

\* What is taken off the lists is taken off the reports.
LEMMA SeenOfTail ==
  ASSUME NEW q \in Seq(Lists), q # <<>>
  PROVE  SeenOf(q) # <<>> /\ SeenOf(Tail(q)) = Tail(SeenOf(q))
<1>1. /\ Tail(q) \in Seq(Lists) /\ Len(Tail(q)) = Len(q) - 1 /\ Len(q) \in Nat \ {0}
      /\ \A i \in 1 .. Len(q) - 1 : Tail(q)[i] = q[i + 1]
  BY HeadTailProperties, EmptySeq
<1>2. SeenOf(q) \in Seq(Vectors) /\ Len(SeenOf(q)) = Len(q)
  BY SeenOfFacts
<1>3. SeenOf(q) # <<>>
  BY <1>1, <1>2, EmptySeq
<1>4. /\ Tail(SeenOf(q)) \in Seq(Vectors) /\ Len(Tail(SeenOf(q))) = Len(q) - 1
      /\ \A i \in 1 .. Len(q) - 1 : Tail(SeenOf(q))[i] = SeenOf(q)[i + 1]
  BY <1>2, <1>3, HeadTailProperties
<1>5. /\ SeenOf(Tail(q)) \in Seq(Vectors) /\ Len(SeenOf(Tail(q))) = Len(q) - 1
      /\ \A i \in 1 .. Len(q) - 1 : SeenOf(Tail(q))[i] = Tail(q)[i].seen
  BY <1>1, SeenOfFacts
<1>6. \A i \in 1 .. Len(q) - 1 : i + 1 \in 1 .. Len(q)
  BY ONLY <1>1
<1>7. \A i \in 1 .. Len(q) - 1 : SeenOf(q)[i + 1] = q[i + 1].seen
  BY <1>6, SeenOfFacts
<1>8. \A i \in 1 .. Len(q) - 1 : SeenOf(Tail(q))[i] = Tail(SeenOf(q))[i]
  BY ONLY <1>1, <1>4, <1>5, <1>7
<1> QED BY <1>3, <1>4, <1>5, <1>8, SeqEqual

\* To take the oldest list and to put one in commute.
LEMMA TailAppend ==
  ASSUME NEW S, NEW q \in Seq(S), q # <<>>, NEW x \in S
  PROVE  Tail(Append(q, x)) = Append(Tail(q), x)
  OBVIOUS

\* Nobody is at the plain send but the holder of the lock.
LEMMA WhoResends ==
  ASSUME IInv
  PROVE  /\ ~mu => Resending = {}
         /\ \A p \in Providers : step[p] \in {"send", "drain"} => Resending = {}
         /\ \A p \in Providers : step[p] = "resend" => Resending = {p}
  BY DEF IInv, Holder, Sending, Resending

\* The merge takes a report that is not offered yet.
LEMMA MergeHides ==
  ASSUME IInv, NEW p \in Providers, Merge(p)
  PROVE  UNCHANGED Snap!snapvars
<1> USE DEF Merge, Goto
<1>1. hand[p] = targets[p] + 1 /\ targets \in [Providers -> Nat]
  <2>1. targets \in [Providers -> Nat]
    BY MaxReportsAssumption DEF IInv, TypeOK, Versions
  <2> QED BY <2>1 DEF IInv, Counts, Taken, Sending
<1>2. \A q \in Providers : step[q] \notin Sending
  BY DEF IInv, Holder
<1>3. Resending = {} /\ Resending' = {}
  BY <1>2 DEF Resending, Sending, IInv, TypeOK
<1>4. \A q \in Providers :
        (IF step'[q] \in {"send", "drain"} THEN targets'[q] - 1 ELSE targets'[q]) = targets[q]
  BY <1>1, <1>2 DEF IInv, TypeOK, Sending
<1>5. Offered' = Offered
  BY <1>2, <1>4 DEF Offered, Sending
<1>6. Queued' = Queued
  BY <1>3 DEF Queued
<1> QED BY <1>5, <1>6 DEF Snap!snapvars

\* What the holder of the lock offers when it has sent.
LEMMA OfferedBy ==
  ASSUME IInv, NEW p \in Providers, step[p] \in Sending
  PROVE  /\ result[p] \in Lists /\ result[p].seen = targets /\ targets \in Vectors
         /\ \A q \in Providers \ {p} : step[q] \notin Sending
  BY DEF IInv, TypeOK, Holder, Vectors

\* The first select puts the list in, or finds no room and shows nothing.
LEMMA TrySendPuts ==
  ASSUME IInv, NEW p \in Providers, TrySend(p)
  PROVE  Snap!Put(targets) \/ UNCHANGED Snap!snapvars
<1> USE DEF Goto
<1>1. step[p] = "send" /\ Resending = {}
  BY WhoResends DEF TrySend
<1>2. /\ result[p] \in Lists /\ result[p].seen = targets /\ targets \in Vectors
      /\ \A q \in Providers \ {p} : step[q] \notin Sending
  BY <1>1, OfferedBy DEF Sending
<1>3. notifyCh \in Seq(Lists) /\ Queued = SeenOf(notifyCh) /\ Len(Queued) = Len(notifyCh)
  BY <1>1, SeenOfFacts DEF Queued, IInv, TypeOK
<1>4. CASE Len(notifyCh) < NotifyCap
  <2>1. step' = [step EXCEPT ![p] = "recv"] /\ notifyCh' = Append(notifyCh, result[p])
        /\ targets' = targets
    BY <1>4, CapsAssumption DEF TrySend, Sent
  <2>2. Resending' = {}
    BY <1>2, <2>1 DEF Resending, Sending, IInv, TypeOK
  <2>3. Queued' = SeenOf(Append(notifyCh, result[p]))
    BY <2>1, <2>2 DEF Queued
  <2>4. Queued' = Append(Queued, targets)
    BY <1>2, <1>3, <2>3, SeenOfAppend
  <2>5. Offered' = [q \in Providers |-> targets[q]]
    BY <1>2, <2>1 DEF Offered, Sending, IInv, TypeOK
  <2>6. Offered' = targets
    BY <1>2, <2>5 DEF Vectors
  <2> QED BY <1>3, <1>4, <2>4, <2>6 DEF Snap!Put
<1>5. CASE ~(Len(notifyCh) < NotifyCap)
  <2>1. step' = [step EXCEPT ![p] = "drain"] /\ UNCHANGED <<notifyCh, targets, result>>
    BY <1>5 DEF TrySend
  <2>2. Resending' = {}
    BY <1>2, <2>1 DEF Resending, Sending, IInv, TypeOK
  <2>3. Queued' = Queued
    BY <1>1, <2>1, <2>2 DEF Queued
  <2>4. Offered' = Offered
    BY <1>1, <2>1 DEF Offered, IInv, TypeOK
  <2> QED BY <2>3, <2>4 DEF Snap!snapvars
<1> QED BY <1>4, <1>5

\* The second select drops the oldest list for the new one, or finds the
\* channel empty and has all the room it needs.
LEMMA DrainPuts ==
  ASSUME IInv, NEW p \in Providers, Drain(p)
  PROVE  Snap!Put(targets)
<1> USE DEF Goto
<1>1. /\ step[p] = "drain" /\ Resending = {} /\ step' = [step EXCEPT ![p] = "resend"]
      /\ UNCHANGED <<targets, result>>
      /\ notifyCh' = IF notifyCh = <<>> THEN <<>> ELSE Tail(notifyCh)
  BY WhoResends DEF Drain
<1>2. /\ result[p] \in Lists /\ result[p].seen = targets /\ targets \in Vectors
      /\ \A q \in Providers \ {p} : step[q] \notin Sending
  BY <1>1, OfferedBy DEF Sending
<1>3. /\ notifyCh \in Seq(Lists) /\ Queued = SeenOf(notifyCh) /\ Queued \in Seq(Vectors)
      /\ Len(Queued) = Len(notifyCh)
  BY <1>1, SeenOfFacts DEF Queued, IInv, TypeOK
<1>4. Resending' = {p}
  BY <1>1, <1>2 DEF Resending, Sending, IInv, TypeOK
<1>5. Queued' = SeenOf(Append(notifyCh', result[p]))
  <2>1. (CHOOSE q \in Resending' : TRUE) = p
    BY <1>4
  <2> QED BY <1>1, <1>4, <2>1 DEF Queued
<1>6. notifyCh' \in Seq(Lists)
  BY <1>1, <1>3
<1>7. Queued' = Append(SeenOf(notifyCh'), targets)
  BY <1>2, <1>5, <1>6, SeenOfAppend
<1>8. Offered' = targets
  <2>1. \A q \in Providers : step'[q] \notin {"send", "drain"}
    BY <1>1, <1>2 DEF Sending, IInv, TypeOK
  <2>2. Offered' = [q \in Providers |-> targets[q]]
    BY <1>1, <2>1 DEF Offered
  <2> QED BY <1>2, <2>2 DEF Vectors
<1>9. CASE notifyCh = <<>>
  <2>1. SeenOf(notifyCh') = Queued /\ Len(Queued) = 0
    BY <1>1, <1>3, <1>9, EmptySeq
  <2> QED BY <1>7, <1>8, <2>1, CapsAssumption DEF Snap!Put
<1>10. CASE notifyCh # <<>>
  <2>1. Queued # <<>> /\ SeenOf(notifyCh') = Tail(Queued)
    BY <1>1, <1>3, <1>10, SeenOfTail
  <2> QED BY <1>7, <1>8, <2>1 DEF Snap!Put
<1> QED BY <1>9, <1>10

\* The plain send changes nothing that the reader could tell.
LEMMA ResendHides ==
  ASSUME IInv, NEW p \in Providers, Resend(p)
  PROVE  UNCHANGED Snap!snapvars
<1> USE DEF Goto
<1>1. /\ step[p] = "resend" /\ Resending = {p} /\ step' = [step EXCEPT ![p] = "recv"]
      /\ UNCHANGED targets /\ notifyCh' = Append(notifyCh, result[p])
  BY WhoResends DEF Resend, Sent
<1>2. \A q \in Providers \ {p} : step[q] \notin Sending
  BY <1>1, OfferedBy DEF Sending
<1>3. Resending' = {}
  BY <1>1, <1>2 DEF Resending, Sending, IInv, TypeOK
<1>4. Queued' = Queued
  <2>1. (CHOOSE q \in Resending : TRUE) = p
    BY <1>1
  <2> QED BY <1>1, <1>3, <2>1 DEF Queued
<1>5. Offered' = Offered
  BY <1>1, <1>2 DEF Offered, Sending, IInv, TypeOK
<1> QED BY <1>4, <1>5 DEF Snap!snapvars

\* The reader takes the oldest list, also while the holder of the lock sends.
LEMMA TakeGets == ASSUME IInv, Take PROVE Snap!Get
<1>1. /\ notifyCh \in Seq(Lists) /\ notifyCh # <<>> /\ notifyCh' = Tail(notifyCh)
      /\ UNCHANGED <<step, targets, result>>
  BY DEF Take, IInv, TypeOK
<1>2. Offered' = Offered /\ Resending' = Resending
  BY <1>1 DEF Offered, Resending
<1>3. CASE Resending = {}
  BY <1>1, <1>2, <1>3, SeenOfTail DEF Queued, Snap!Get
<1>4. CASE Resending # {}
  <2>1. PICK l \in Lists : l = result[CHOOSE p \in Resending : TRUE]
    BY <1>4 DEF IInv, TypeOK, Resending
  <2>2. Queued = SeenOf(Append(notifyCh, l)) /\ Queued' = SeenOf(Append(Tail(notifyCh), l))
    BY <1>1, <1>2, <1>4, <2>1 DEF Queued
  <2>3. Append(notifyCh, l) \in Seq(Lists) /\ Append(notifyCh, l) # <<>>
    BY <1>1
  <2>4. Tail(Append(notifyCh, l)) = Append(Tail(notifyCh), l)
    BY <1>1, TailAppend
  <2> QED BY <1>2, <2>2, <2>3, <2>4, SeenOfTail DEF Snap!Get
<1> QED BY <1>3, <1>4

\* What discovery does to its channel is, to the application, a list put in at
\* once or taken: a merged list is never lost and never waits (discovery.go
\* 118-128), which is how App.tla uses it.
THEOREM SnapshotsRefinement == Spec => ImplementsSnapshots
<1>1. Init => Snap!SnapInit
  <2> SUFFICES ASSUME Init PROVE Snap!SnapInit
    OBVIOUS
  <2>1. Resending = {} /\ Offered = NoList.seen
    BY DEF Init, Resending, Offered, NoList
  <2>2. Queued = <<>>
    <3>1. Queued = [i \in 1 .. 0 |-> notifyCh[i].seen]
      BY <2>1 DEF Init, Queued, SeenOf
    <3> QED BY <3>1
  <2> QED BY <2>1, <2>2 DEF Snap!SnapInit
<1>2. IInv /\ [Next]_vars => [Snap!SnapNext]_(Snap!snapvars)
  <2> SUFFICES ASSUME IInv, [Next]_vars PROVE [Snap!SnapNext]_(Snap!snapvars)
    OBVIOUS
  <2>1. targets \in [Providers -> Versions]
    BY DEF IInv, TypeOK
  <2>2. ASSUME NEW p \in Providers, TrySend(p) \/ Drain(p) PROVE [Snap!SnapNext]_(Snap!snapvars)
    BY <2>1, <2>2, TrySendPuts, DrainPuts DEF Snap!SnapNext
  <2>3. ASSUME NEW p \in Providers, Merge(p) \/ Resend(p) PROVE UNCHANGED Snap!snapvars
    BY <2>3, MergeHides, ResendHides
  <2>4. CASE Take
    BY <2>4, TakeGets DEF Snap!SnapNext
  <2>5. ASSUME NEW p \in Providers, Quit(p) PROVE UNCHANGED Snap!snapvars
    <3>1. \A q \in Providers : /\ step'[q] \in {"send", "drain"} <=> step[q] \in {"send", "drain"}
                               /\ step'[q] = "resend" <=> step[q] = "resend"
      BY <2>5 DEF Quit, Goto, IInv, TypeOK
    <3>2. Resending' = Resending /\ UNCHANGED <<notifyCh, result, targets>>
      BY <2>5, <3>1 DEF Quit, Resending
    <3>3. Offered' = Offered
      BY <3>1, <3>2 DEF Offered
    <3>4. Queued' = Queued
      BY <3>2 DEF Queued
    <3> QED BY <3>3, <3>4 DEF Snap!snapvars
  <2>6. ASSUME UNCHANGED <<step, targets, result, notifyCh>> PROVE UNCHANGED Snap!snapvars
    BY <2>6 DEF Snap!snapvars, Queued, Resending, Offered
  <2>7. CASE Cancel \/ UNCHANGED vars \/ \E p \in Providers : Send(p) \/ Receive(p)
    BY <2>6, <2>7 DEF Cancel, vars, Send, Receive
  <2> QED BY <2>2, <2>3, <2>4, <2>5, <2>7 DEF Next
<1> QED BY <1>1, <1>2, Invariance, PTL DEF Spec, ImplementsSnapshots, Snap!SnapSpec

\* What Snapshots promises: no step leaves the newest list behind another.
LEMMA SnapStep ==
  Snap!SnapTypeOK /\ Snap!SnapSafe /\ [Snap!SnapNext]_(Snap!snapvars)
    => Snap!SnapTypeOK' /\ Snap!SnapSafe'
<1> SUFFICES ASSUME Snap!SnapTypeOK, Snap!SnapSafe, [Snap!SnapNext]_(Snap!snapvars)
             PROVE  Snap!SnapTypeOK' /\ Snap!SnapSafe'
  OBVIOUS
<1> USE CapsAssumption DEF Snap!SnapTypeOK, Snap!SnapSafe
<1>1. ASSUME NEW l \in Vectors, Snap!Put(l) PROVE Snap!SnapTypeOK' /\ Snap!SnapSafe'
  <2>1. CASE Len(Queued) < NotifyCap /\ Queued' = Append(Queued, l)
    BY <1>1, <2>1 DEF Snap!Put, Vectors
  <2>2. CASE Queued # <<>> /\ Queued' = Append(Tail(Queued), l)
    <3>1. Tail(Queued) \in Seq(Vectors) /\ Len(Tail(Queued)) = Len(Queued) - 1
      BY <2>2 DEF Vectors
    <3>2. /\ Queued' \in Seq(Vectors) /\ Len(Queued') = Len(Queued) - 1 + 1
          /\ Queued'[Len(Queued')] = l
      BY ONLY <2>2, <3>1, l \in Vectors
    <3>3. Len(Queued) \in Nat /\ Len(Queued) <= NotifyCap
      BY DEF Vectors
    <3>4. Len(Queued') <= NotifyCap
      BY ONLY <3>2, <3>3
    <3> QED BY <1>1, <3>2, <3>4 DEF Snap!Put, Vectors
  <2> QED BY <1>1, <2>1, <2>2 DEF Snap!Put
<1>2. CASE Snap!Get
  <2>1. /\ Queued \in Seq(Vectors) /\ Queued # <<>> /\ Queued' = Tail(Queued)
        /\ Len(Queued) \in Nat \ {0} /\ Offered' = Offered
    BY <1>2, EmptySeq DEF Snap!Get, Vectors
  <2>2. /\ Queued' \in Seq(Vectors) /\ Len(Queued') = Len(Queued) - 1
        /\ \A i \in 1 .. Len(Queued) - 1 : Queued'[i] = Queued[i + 1]
    BY <2>1, HeadTailProperties
  <2>3. Queued' # <<>> => Len(Queued') \in Nat \ {0}
    BY <2>2, EmptySeq
  <2>4. Queued' # <<>> => Queued'[Len(Queued')] = Queued[Len(Queued)]
    BY <2>1, <2>2, <2>3
  <2> QED BY <2>1, <2>2, <2>4 DEF Vectors
<1>3. CASE UNCHANGED Snap!snapvars
  BY <1>3 DEF Snap!snapvars
<1> QED BY <1>1, <1>2, <1>3 DEF Snap!SnapNext, Vectors

\* Whoever reads the channel to its end has the newest list.
THEOREM SnapshotsAreSafe == Snap!SnapSpec => [](Snap!SnapTypeOK /\ Snap!SnapSafe)
<1>1. Snap!SnapInit => Snap!SnapTypeOK /\ Snap!SnapSafe
  <2>1. NoList.seen \in Vectors
    BY NoListIsList, ListSeen DEF Vectors
  <2> QED BY <2>1, CapsAssumption, EmptySeq DEF Snap!SnapInit, Snap!SnapTypeOK, Snap!SnapSafe, Vectors
<1> QED BY <1>1, SnapStep, PTL DEF Snap!SnapSpec
=============================================================================
