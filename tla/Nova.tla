-------------------------------- MODULE Nova --------------------------------
(***************************************************************************)
(* The Nova provider, internal/pkg/discovery/nova/nova.go: a scan takes    *)
(* the Keystone token it keeps, or gets another, and asks Nova for the     *)
(* servers.  Either service may be down, and Keystone may revoke a token   *)
(* at any moment; nobody tells the provider, which keeps a token for two   *)
(* hours from its receipt whatever Nova answers.                           *)
(*                                                                         *)
(* A server is reported if it has an address of the version asked for; it  *)
(* may have several, in different networks, and Go's map iteration picks.  *)
(***************************************************************************)
EXTENDS Naturals

CONSTANTS
  Servers,
  Addresses,
  AuthURL,   \* auth_url is configured
  TokenLife  \* the two hours, in ticks of the model's clock

AuthAssumption == AuthURL \in BOOLEAN
LifeAssumption == TokenLife \in Nat \ {0}

VARIABLES
  active,   \* the <<server, address>> Nova knows of
  nova, keystone, \* the services answer
  token,    \* the token kept by the provider, and whether it is still good
  age,      \* ticks since it was received
  phase,    \* where Run is
  found,    \* the targets of the scan
  report,   \* the last list given to discovery
  steady    \* history: the servers Nova has known of ever since

world == <<active, nova, keystone>>
vars  == <<world, token, age, phase, found, report, steady>>

Targets == Servers \X Addresses

TypeOK ==
  /\ active \in SUBSET Targets
  /\ nova \in BOOLEAN
  /\ keystone \in BOOLEAN
  /\ token \in {"none", "good", "revoked"}
  /\ age \in 0 .. TokenLife
  /\ phase \in {"wait", "request", "send", "stopped"}
  /\ found \in SUBSET Targets
  /\ report \in SUBSET Targets
  /\ steady \in SUBSET Servers

IdsOf(S) == {t[1] : t \in S}

Init ==
  /\ active \in SUBSET Targets
  /\ nova \in BOOLEAN
  /\ keystone \in BOOLEAN
  /\ token = "none"
  /\ age = 0
  /\ phase = "wait"
  /\ found = {}
  /\ report = {}
  /\ steady = {}

-----------------------------------------------------------------------------
(* OpenStack and the clock.                                                *)

Cloud == /\ \/ /\ \E t \in Targets : active' \in {active \cup {t}, active \ {t}}
               /\ UNCHANGED <<nova, keystone>>
            \/ nova' = ~nova /\ UNCHANGED <<active, keystone>>
            \/ keystone' = ~keystone /\ UNCHANGED <<active, nova>>
         /\ steady' = steady \cap IdsOf(active')
         /\ UNCHANGED <<token, age, phase, found, report>>

Revoke == /\ token = "good"
          /\ token' = "revoked"
          /\ UNCHANGED <<world, age, phase, found, report, steady>>

Tick == /\ token # "none"
        /\ age < TokenLife
        /\ age' = age + 1
        /\ UNCHANGED <<world, token, phase, found, report, steady>>

-----------------------------------------------------------------------------
(* Run, scanServers and getToken.                                          *)

\* Mutant: a token is kept for good.
KeptMut == token # "none"

Kept == token # "none" /\ age < TokenLife

\* Without auth_url a dummy is sent, and not kept.
UseToken == /\ phase = "wait"
            /\ Kept \/ ~AuthURL
            /\ phase' = "request"
            /\ UNCHANGED <<world, token, age, found, report, steady>>

\* A failure of Keystone ends the scan without a change.
NewToken == /\ phase = "wait"
            /\ ~Kept /\ AuthURL
            /\ keystone
            /\ token' = "good"
            /\ age' = 0
            /\ phase' = "request"
            /\ UNCHANGED <<world, found, report, steady>>

\* One address for each server that has any.
Choices == {S \in SUBSET active :
              /\ IdsOf(S) = IdsOf(active)
              /\ \A t, u \in S : t[1] = u[1] => t = u}

Accepted == nova /\ (AuthURL => token = "good")

\* Mutant: the answer of a refused request is taken for an empty list.
RefusedMut == /\ phase = "request"
              /\ ~Accepted
              /\ phase' = "send"
              /\ found' = {}
              /\ UNCHANGED <<world, token, age, report, steady>>

\* The last report stands, and so does the token.
Refused == /\ phase = "request"
           /\ ~Accepted
           /\ phase' = "wait"
           /\ UNCHANGED <<world, token, age, found, report, steady>>

Answered == /\ phase = "request"
            /\ Accepted
            /\ phase' = "send"
            /\ found' \in Choices
            /\ UNCHANGED <<world, token, age, report, steady>>

Send == /\ phase = "send"
        /\ phase' = "wait"
        /\ report' = found
        /\ steady' = IdsOf(active)
        /\ UNCHANGED <<world, token, age, found>>

\* The context is cancelled: both selects of Run return.
Quit == /\ phase \in {"wait", "send"}
        /\ phase' = "stopped"
        /\ UNCHANGED <<world, token, age, found, report, steady>>

Scan == UseToken \/ NewToken \/ Refused \/ Answered \/ Send

Next == Cloud \/ Revoke \/ Tick \/ Scan \/ Quit

Spec == Init /\ [][Next]_vars

-----------------------------------------------------------------------------
\* A server that is in the reports stays in them while Nova knows of it,
\* whatever becomes of the services and of the token: a scan that fails sends
\* nothing (nova.go 65-68, 84-87).
ActiveIsKept ==
  phase = "send" => IdsOf(report) \cap steady \subseteq IdsOf(found)

\* When both services stay up and no token is revoked any more, scans succeed
\* again: a revoked token is kept for two hours and not for longer (240-243).
ReportsResume ==
  <>[](nova /\ keystone) /\ <>[][~Revoke]_vars
    => []<>(phase = "send") \/ <>(phase = "stopped")
=============================================================================
