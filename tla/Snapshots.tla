----------------------------- MODULE Snapshots -----------------------------
(***************************************************************************)
(* What the channel between discovery and the application promises to both *)
(* of them, whatever locks and selects it takes.  Putting a list into it   *)
(* is one step that never waits: if it must make room, it drops the oldest *)
(* list.  It may drop that list also when the reader has just made room,   *)
(* but it never drops the list it puts in.                                 *)
(***************************************************************************)
EXTENDS Naturals, Sequences

CONSTANTS
  Lists, NoList,  \* the merged lists of targets, and the one of no targets
  Capacity        \* how many the channel holds

VARIABLES
  newest,  \* the last list that was put in
  queue    \* the lists in the channel, oldest first

snapvars == <<newest, queue>>

SnapTypeOK == /\ newest \in Lists
              /\ queue \in Seq(Lists)
              /\ Len(queue) <= Capacity

SnapInit == newest = NoList /\ queue = <<>>

Put(l) == /\ newest' = l
          /\ \/ Len(queue) < Capacity /\ queue' = Append(queue, l)
             \/ queue # <<>> /\ queue' = Append(Tail(queue), l)

Get == /\ queue # <<>>
       /\ queue' = Tail(queue)
       /\ UNCHANGED newest

SnapNext == Get \/ \E l \in Lists : Put(l)

SnapSpec == SnapInit /\ [][SnapNext]_snapvars

\* Whoever empties the channel has the newest list, however many were dropped.
SnapSafe == queue # <<>> => queue[Len(queue)] = newest
=============================================================================
