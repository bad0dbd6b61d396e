----------------------------- MODULE Inventory -----------------------------
(***************************************************************************)
(* What target discovery promises to the supervisor that listens to it.    *)
(* Every provider numbers its reports.  A snapshot is named by the number  *)
(* of the report it holds of each provider.  The listener may miss         *)
(* snapshots, but it sees them in order: what it is given never goes back  *)
(* to an older report of any provider, and never runs ahead of what the    *)
(* providers have reported.                                                *)
(***************************************************************************)
EXTENDS Naturals

CONSTANT Sources          \* the providers

VARIABLES current,        \* the last report merged, of each provider
          delivered       \* the reports in the last snapshot the listener got

invvars == <<current, delivered>>

Nothing == [p \in Sources |-> 0]
Older(s, t) == \A p \in Sources : s[p] <= t[p]

InvTypeOK == /\ current \in [Sources -> Nat]
             /\ delivered \in [Sources -> Nat]

InvInit == current = Nothing /\ delivered = Nothing

\* A provider's next report replaces the one before.
Publish(p) == /\ current' = [current EXCEPT ![p] = @ + 1]
              /\ UNCHANGED delivered

Hand == /\ delivered' \in [Sources -> Nat]
        /\ Older(delivered, delivered')
        /\ Older(delivered', current)
        /\ UNCHANGED current

InvNext == Hand \/ \E p \in Sources : Publish(p)

InvSpec == InvInit /\ [][InvNext]_invvars

\* What the listener knows is never ahead of what was reported.
InvSafe == Older(delivered, current)
=============================================================================
