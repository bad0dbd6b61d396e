------------------------------ MODULE Endpoint ------------------------------
(***************************************************************************)
(* NormalizeEndpoint, internal/pkg/netutil/netutil.go: the form in which   *)
(* the endpoint of a target is handed to its child.                        *)
(*                                                                         *)
(* An endpoint is its scheme and the text between its colons, of which     *)
(* only the kind matters: a name or an IPv4 address, a group of an IPv6    *)
(* address that is hexadecimal, one that is decimal too, one with a zone,  *)
(* a decimal number too long for a group, the default port, or nothing.    *)
(* A bracketed endpoint keeps its host apart from what follows the         *)
(* bracket.  An IPv6 address has MaxGroups groups, 8 in reality.           *)
(***************************************************************************)
EXTENDS Naturals, Sequences

CONSTANT MaxGroups

MaxGroupsAssumption == MaxGroups \in Nat \ {0, 1}

Groups   == {"hex", "dec", "zoned"}
Ports    == {"dec", "long", "default"}
Pieces   == Groups \cup Ports \cup {"name", ""}
Schemes  == {"", "tcp://", "vsock://"}          \* unix:// is kept like vsock://

Plain(scheme, host) == [scheme |-> scheme, form |-> "plain", host |-> host, port |-> ""]
Bracketed(scheme, host, port) ==
  [scheme |-> scheme, form |-> "bracket", host |-> host, port |-> port]

\* "open" lacks the closing bracket, "junk" follows it without a colon.
Forms == {"plain", "bracket", "open", "junk"}
Error == Plain("error", <<>>)

Front(s) == SubSeq(s, 1, Len(s) - 1)
Last(s)  == s[Len(s)]

\* What net.ParseIP takes: all groups, or fewer and one "::" anywhere.
Elided(s) == {i \in DOMAIN s : s[i] = ""}
Address(s) ==
  /\ \A i \in DOMAIN s : s[i] \in Groups \cup {""}
  /\ \/ Elided(s) = {} /\ Len(s) = MaxGroups
     \/ /\ Len(s) \in 3 .. MaxGroups + 1
        /\ \/ \E i \in 2 .. Len(s) - 1 : Elided(s) = {i} /\ Len(s) <= MaxGroups
           \/ Elided(s) \in {{1, 2}, {Len(s) - 1, Len(s)}}
           \/ Elided(s) = {1, 2, 3} /\ Len(s) = 3

\* stripZone cuts at the first '%', so that what follows the zone is not seen.
ZoneCut(s) == LET zones == {i \in DOMAIN s : s[i] = "zoned"}
              IN  IF zones = {} THEN s
                  ELSE SubSeq(s, 1, CHOOSE i \in zones : \A j \in zones : i <= j)
IsIPv6(s) == Address(ZoneCut(s))

\* Mutant: an unbracketed IPv6 address is never split into host and port.
SplitsMut(s) == FALSE

\* The branch for an unbracketed IPv6 address with a port.
Splits(s) == Len(s) > 2 /\ Last(s) \in Ports /\ IsIPv6(Front(s))

Normalize(e) ==
  IF e.scheme = "vsock://" THEN e
  ELSE IF e.form \in {"open", "junk"} THEN Error
  ELSE IF e.form = "bracket" THEN IF e.port = "" THEN [e EXCEPT !.port = "default"] ELSE e
  ELSE IF Len(e.host) = 2 THEN e                                  \* net.SplitHostPort
  ELSE IF Splits(e.host) THEN Bracketed(e.scheme, Front(e.host), Last(e.host))
  ELSE IF IsIPv6(e.host) THEN Bracketed(e.scheme, e.host, "default")
  ELSE Plain(e.scheme, Append(e.host, "default"))

-----------------------------------------------------------------------------
(* What an endpoint means: the pairs of a host and a port it may be read   *)
(* as, with the default port if it has none.                               *)

\* A host without brackets: a name, or an IPv6 address whose zone ends it.
IsHost(s) == \/ Len(s) = 1 /\ s[1] # ""
             \/ Address(s) /\ \A i \in DOMAIN s : s[i] = "zoned" => i = Len(s)

Readings(e) ==
  CASE e.form = "plain" ->
         {r \in {<<e.host, "default">>} : IsHost(r[1])}
         \cup {r \in IF e.host = <<>> THEN {} ELSE {<<Front(e.host), Last(e.host)>>} :
                 IsHost(r[1]) /\ r[2] \in Ports}
    [] e.form = "bracket" ->
         {<<e.host, IF e.port = "" THEN "default" ELSE e.port>>}
    [] OTHER -> {}

Meant(e) == e.scheme # "vsock://" /\ Readings(e) # {}

\* Complete: a name with a port, or a bracketed address with one.
Complete(e) == \/ e.form = "bracket" /\ e.port # ""
               \/ e.form = "plain" /\ Len(e.host) = 2

-----------------------------------------------------------------------------
(* NewInstance, which normalizes the endpoint it is given.                 *)

VARIABLES endpoint, original

Unbracketed(maxLen) ==
  {Plain(s, h) : s \in Schemes, h \in UNION {[1 .. n -> Pieces] : n \in 1 .. maxLen}}
Marked == [scheme : Schemes, form : Forms \ {"plain"},
           host : {<<"name">>, <<"hex", "", "dec">>}, port : Ports \cup {""}]
Inputs(maxLen) == Unbracketed(maxLen) \cup Marked

Init(maxLen) == /\ endpoint \in Inputs(maxLen)
                /\ original = endpoint

Next == /\ endpoint = original
        /\ endpoint' = Normalize(endpoint)
        /\ UNCHANGED original

\* An endpoint that can be read in one way only keeps its host and its port
\* through normalization, and what comes out can be read in no other way; one
\* that can be read in two keeps one of them (netutil.go 131-158).
ReadingIsKept ==
  Meant(original) => Readings(endpoint) \subseteq Readings(original) /\ Readings(endpoint) # {}

\* Normalizing again changes nothing: an instance that is restarted with the
\* endpoint it has keeps it (instance.go 96, and Manager's assumption).
NormalizedIsStable ==
  endpoint = Normalize(original) /\ Meant(original) =>
    Complete(endpoint) /\ Normalize(endpoint) = endpoint
=============================================================================
