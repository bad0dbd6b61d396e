------------------------------ MODULE Utilities ------------------------------
(***************************************************************************)
(* The packages the supervisor is built on, each with state or data of its *)
(* own and none that knows of another: the namespace resolver, endpoint    *)
(* normalization, the merging and labelling of /metrics, and the port      *)
(* allocator.  kind says which of them a behaviour is about; what a        *)
(* package does not use keeps one value.                                   *)
(***************************************************************************)
EXTENDS Naturals

CONSTANTS
  Configs, Addresses, NoAddress, Requests, Template,  \* resolver
  MaxGroups, MaxPieces,                               \* endpoint
  Series, VMNames, IDs, MaxLines, MaxResults,         \* relabel
  Ids, StartPort, EndPort, NoPort, NoId               \* ports

VARIABLES
  kind,
  config, routes, routeCache, asked, left, at, result, moved, failed, lost, through,
  endpoint, original,
  results, next, out, up, errors,
  allocated, usedPorts, refused

resolverVars == <<config, routes, routeCache, asked, left, at, result,
                  moved, failed, lost, through>>
endpointVars == <<endpoint, original>>
relabelVars  == <<results, next, out, up, errors>>
portVars     == <<allocated, usedPorts, refused>>
vars == <<kind, resolverVars, endpointVars, relabelVars, portVars>>

R == INSTANCE Resolver
E == INSTANCE Endpoint
M == INSTANCE Relabel
P == INSTANCE Ports

ASSUME UtilitiesAssumption == /\ R!ResolverAssumption
                              /\ E!MaxGroupsAssumption
                              /\ M!RelabelAssumption
                              /\ P!PortsAssumption
                              /\ MaxPieces \in Nat /\ MaxResults \in Nat

NoResolver == /\ config = {} /\ routes = {} /\ routeCache = {} /\ asked = {} /\ left = {}
              /\ at = {} /\ result = {} /\ moved = {} /\ failed = {} /\ lost = {} /\ through = {}
NoEndpoint == endpoint = {} /\ original = {}
NoRelabel  == results = {} /\ next = {} /\ out = {} /\ up = {} /\ errors = {}
NoPorts    == allocated = {} /\ usedPorts = {} /\ refused = {}

Init ==
  \/ kind = "resolver" /\ R!Init /\ NoEndpoint /\ NoRelabel /\ NoPorts
  \/ kind = "endpoint" /\ E!Init(MaxPieces) /\ NoResolver /\ NoRelabel /\ NoPorts
  \/ kind = "relabel" /\ M!Init(MaxResults) /\ NoResolver /\ NoEndpoint /\ NoPorts
  \/ kind = "ports" /\ P!Init /\ NoResolver /\ NoEndpoint /\ NoRelabel

ResolverNext(A) == kind = "resolver" /\ A
                     /\ UNCHANGED <<kind, endpointVars, relabelVars, portVars>>

Next ==
  \/ ResolverNext(R!Next)
  \/ kind = "endpoint" /\ E!Next /\ UNCHANGED <<kind, resolverVars, relabelVars, portVars>>
  \/ kind = "relabel" /\ M!Next /\ UNCHANGED <<kind, resolverVars, endpointVars, portVars>>
  \/ kind = "ports" /\ P!Next /\ UNCHANGED <<kind, resolverVars, endpointVars, relabelVars>>

Spec == Init /\ [][Next]_vars

-----------------------------------------------------------------------------
(* What the modules of the packages promise.                               *)

\* Every variable of the package has its type, and /metrics counts every result.
TypeOK == /\ kind = "resolver" => R!ResolverTypeOK
          /\ kind = "relabel" => M!RelabelTypeOK
          /\ kind = "ports" => P!PortsTypeOK

\* Resolver: in a world that stands still the route cache changes no answer.
CacheIsTransparent == kind = "resolver" => R!CacheIsTransparent

\* Resolver: no target with a lasting route falls to the default namespace.
DefaultMissesNothing == kind = "resolver" => R!DefaultMissesNothing

\* Endpoint: what is normalized means one thing, and what was meant, and
\* normalizing it again changes nothing.
NormalizationIsSound == kind = "endpoint" => E!ReadingIsKept /\ E!NormalizedIsStable

\* Relabelling: exporters with the same series do not collide in /metrics.
SeriesApart == kind = "relabel" => M!SeriesApart

\* Relabelling: an exporter's answer is merged as a whole or not at all.
AllOrNothing == kind = "relabel" => M!AllOrNothing

\* Ports: the two maps of the allocator never disagree, and nothing is refused
\* while there is room.
PortsAreExact == kind = "ports" => P!MapsAgree /\ P!RefusedOnlyIfFull
=============================================================================
