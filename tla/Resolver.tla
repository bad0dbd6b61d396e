------------------------------ MODULE Resolver ------------------------------
(***************************************************************************)
(* The network namespace of a target, internal/pkg/netns/resolver.go.  The *)
(* goroutine that consumes snapshots and the main goroutine ask one        *)
(* Resolver.  Explicit namespace, tenant and subnet decide at once; only   *)
(* then the candidates are asked, one command after the other under one    *)
(* deadline, whether they have a route to the address, while routes come   *)
(* and go.  The first that has one is kept in routeCache, for the life of  *)
(* the Resolver.  The empty string is no name, as in the source.           *)
(***************************************************************************)
EXTENDS Naturals, Sequences

CONSTANTS
  Configs,      \* the configurations: items, template, detect, default
  Addresses,    \* the addresses of endpoints; NoAddress if it has none
  NoAddress,
  Requests,     \* the targets asked for: netns, tenant, address
  Template      \* Template[tenant]: what the template makes of a tenant

ResolverAssumption ==
  /\ \A t \in Requests : t.address \in Addresses \cup {NoAddress}
  /\ \A k \in Configs : Len(k.items) \in Nat /\ DOMAIN k.items = 1 .. Len(k.items)

VARIABLES
  config,     \* Resolver.cfg
  routes,     \* <<name, address>>: the namespaces' routes, which change
  routeCache, \* the namespace found for an address, "" if none was
  asked,      \* the target each goroutine's call is about
  left,       \* the items the call has not asked yet
  at,         \* where each goroutine is
  result,     \* what its call has returned, or the candidate to be stored
  moved,      \* history: a route has changed
  failed,     \* history: a command has failed
  lost,       \* history: the calls in which one has
  through     \* history: the names routed to the address since the call began

Goroutines == {"consumer", "main"}
NoRequest == [netns |-> "", tenant |-> "", address |-> NoAddress]
Items == config.items
Names == {Items[i].name : i \in DOMAIN Items} \ {""}
First(S) == CHOOSE i \in S : \A j \in S : i <= j

\* NewResolver: every name once, in the order of the items.
Candidates == {i \in DOMAIN Items : /\ Items[i].name # ""
                                    /\ \A j \in 1 .. i - 1 : Items[j].name # Items[i].name}

Routed(address) == {n \in Names : <<n, address>> \in routes}

-----------------------------------------------------------------------------
(* Resolve.                                                                *)

\* Rules 1 to 3; an item without a name is a candidate for tenants alone.
OfTenant(t) == {i \in DOMAIN Items : t.tenant # "" /\ t.tenant \in Items[i].tenants}
OfSubnet(t) == {i \in DOMAIN Items : Items[i].name # "" /\ t.address \in Items[i].subnets}
Templated(t) == t.tenant # "" /\ config.template
Decided(t) == t.netns # "" \/ OfTenant(t) # {} \/ Templated(t) \/ OfSubnet(t) # {}
Decision(t) == IF t.netns # "" THEN t.netns
               ELSE IF OfTenant(t) # {} THEN Items[First(OfTenant(t))].name
               ELSE IF Templated(t) THEN Template[t.tenant]
               ELSE Items[First(OfSubnet(t))].name

Detects(t) == config.detect /\ t.address # NoAddress /\ Candidates # {}

\* Mutant: the entry of the cache is used whether there is one or not.
CachedMut(t) == Detects(t)

Cached(t) == Detects(t) /\ routeCache[t.address] # ""

ResolverTypeOK ==
  /\ config \in Configs
  /\ routes \in SUBSET (Names \X Addresses)
  /\ routeCache \in [Addresses -> Names \cup {""}]
  /\ asked \in [Goroutines -> Requests \cup {NoRequest}]
  /\ left \in [Goroutines -> SUBSET DOMAIN Items]
  /\ at \in [Goroutines -> {"idle", "ask", "store", "done"}]

Init ==
  /\ config \in Configs
  /\ routes \in SUBSET (Names \X Addresses)
  /\ routeCache = [a \in Addresses |-> ""]
  /\ asked = [c \in Goroutines |-> NoRequest]
  /\ left = [c \in Goroutines |-> {}]
  /\ at = [c \in Goroutines |-> "idle"]
  /\ result = [c \in Goroutines |-> ""]
  /\ moved = FALSE
  /\ failed = FALSE
  /\ lost = {}
  /\ through = [c \in Goroutines |-> {}]

\* The rules, and the cache, which is read under its lock.
Resolve(c, t) ==
  /\ at[c] = "idle"
  /\ asked' = [asked EXCEPT ![c] = t]
  /\ \E to \in {"done", "ask"} :
       /\ to = "ask" <=> ~Decided(t) /\ Detects(t) /\ ~Cached(t)
       /\ at' = [at EXCEPT ![c] = to]
       /\ result' = [result EXCEPT ![c] = IF Decided(t) THEN Decision(t)
                                           ELSE IF Cached(t) THEN routeCache[t.address]
                                           ELSE config.default]
       /\ left' = [left EXCEPT ![c] = IF to = "ask" THEN Candidates ELSE {}]
       /\ through' = [through EXCEPT ![c] = IF to = "ask" THEN Routed(t.address) ELSE {}]
  /\ UNCHANGED <<config, routes, routeCache, moved, failed, lost>>

Candidate(c) == Items[First(left[c])].name

\* Mutant: the first answer is taken for all candidates.
NotRoutedOnceMut(c) == /\ at[c] = "ask" /\ left[c] # {}
                       /\ Candidate(c) \notin Routed(asked[c].address)
                       /\ left' = [left EXCEPT ![c] = {}]
                       /\ UNCHANGED <<config, routes, routeCache, asked, at, result, moved,
                                      failed, lost, through>>

NotRouted(c) == /\ at[c] = "ask" /\ left[c] # {}
                /\ Candidate(c) \notin Routed(asked[c].address)
                /\ left' = [left EXCEPT ![c] = @ \ {First(@)}]
                /\ UNCHANGED <<config, routes, routeCache, asked, at, result, moved,
                               failed, lost, through>>

\* The command fails, or it has used up the deadline of those that follow.
CommandFails(c) == /\ at[c] = "ask" /\ left[c] # {}
                   /\ \E rest \in {left[c] \ {First(left[c])}, {}} :
                        left' = [left EXCEPT ![c] = rest]
                   /\ failed' = TRUE
                   /\ lost' = lost \cup {c}
                   /\ UNCHANGED <<config, routes, routeCache, asked, at, result, moved, through>>

Found(c) == /\ at[c] = "ask" /\ left[c] # {}
            /\ Candidate(c) \in Routed(asked[c].address)
            /\ at' = [at EXCEPT ![c] = "store"]
            /\ result' = [result EXCEPT ![c] = Candidate(c)]
            /\ UNCHANGED <<config, routes, routeCache, asked, left, moved, failed, lost, through>>

Store(c) == /\ at[c] = "store"
            /\ at' = [at EXCEPT ![c] = "done"]
            /\ routeCache' = [routeCache EXCEPT ![asked[c].address] = result[c]]
            /\ UNCHANGED <<config, routes, asked, left, result, moved, failed, lost, through>>

Default(c) == /\ at[c] = "ask" /\ left[c] = {}
              /\ at' = [at EXCEPT ![c] = "done"]
              /\ result' = [result EXCEPT ![c] = config.default]
              /\ UNCHANGED <<config, routes, routeCache, asked, left, moved, failed, lost, through>>

Return(c) == /\ at[c] = "done"
             /\ at' = [at EXCEPT ![c] = "idle"]
             /\ asked' = [asked EXCEPT ![c] = NoRequest]
             /\ left' = [left EXCEPT ![c] = {}]
             /\ result' = [result EXCEPT ![c] = ""]
             /\ lost' = lost \ {c}
             /\ through' = [through EXCEPT ![c] = {}]
             /\ UNCHANGED <<config, routes, routeCache, moved, failed>>

CallStep(c) == NotRouted(c) \/ CommandFails(c) \/ Found(c) \/ Store(c) \/ Default(c) \/ Return(c)

RoutesChange == /\ \E r \in Names \X Addresses :
                     routes' = (routes \ {r}) \cup ({r} \ routes)
                /\ moved' = TRUE
                /\ through' = [c \in Goroutines |->
                     {n \in through[c] : <<n, asked[c].address>> \in routes'}]
                /\ UNCHANGED <<config, routeCache, asked, left, at, result, failed, lost>>

Next == RoutesChange \/ \E c \in Goroutines : CallStep(c) \/ \E t \in Requests : Resolve(c, t)

-----------------------------------------------------------------------------
(* Properties.                                                             *)

\* What the rules give for a target in a world that stands still.
Expected(t) == IF Decided(t) THEN Decision(t)
               ELSE IF Detects(t) /\ \E i \in Candidates : Items[i].name \in Routed(t.address)
               THEN Items[First({i \in Candidates : Items[i].name \in Routed(t.address)})].name
               ELSE config.default

\* As long as no route has moved and no command has failed, both goroutines get
\* what the rules give, from the cache or from the candidates, whatever the
\* other has asked and stored meanwhile (resolver.go 158-177).
CacheIsTransparent ==
  ~moved /\ ~failed =>
    \A c \in Goroutines : at[c] = "done" => result[c] = Expected(asked[c])

\* A target falls to the default namespace only if no candidate had a route to
\* it all the time, or a command failed or ran out of time (resolver.go 167-182).
DefaultMissesNothing ==
  \A c \in Goroutines : at[c] = "ask" /\ left[c] = {} /\ c \notin lost => through[c] = {}
=============================================================================
