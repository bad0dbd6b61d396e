-------------------------- MODULE Utilities_proofs --------------------------
(***************************************************************************)
(* Theorems about the packages of Utilities: the resolver for every list   *)
(* of items, the endpoints of any length, the merging of any number of     *)
(* answers, and the allocator for every range of ports.                    *)
(***************************************************************************)
EXTENDS Utilities, SequenceTheorems, FiniteSetTheorems, WellFoundedInduction, TLAPS

(***************************************************************************)
(* The port allocator.                                                     *)
(***************************************************************************)
PInv == P!PortsTypeOK /\ P!MapsAgree /\ P!RefusedOnlyIfFull

\* No port is given yet.
LEMMA PInit == P!Init => PInv
<1> USE UtilitiesAssumption DEF P!PortsAssumption
<1> QED BY DEF P!Init, PInv, P!PortsTypeOK, P!MapsAgree, P!RefusedOnlyIfFull, P!Range

\* Allocate and Release change both maps alike; Allocate fails only on a full range.
LEMMA PStep == PInv /\ P!Next => PInv'
<1> SUFFICES ASSUME PInv, NEW id \in Ids, P!Allocate(id) \/ P!Refuse(id) \/ P!Release(id)
             PROVE  PInv'
  BY DEF P!Next
<1> USE UtilitiesAssumption DEF PInv, P!PortsAssumption, P!PortsTypeOK
<1>1. CASE P!Allocate(id)
  <2>1. PICK p \in P!Range : /\ usedPorts[p] = NoId
                             /\ allocated' = [allocated EXCEPT ![id] = p]
                             /\ usedPorts' = [usedPorts EXCEPT ![p] = id]
    BY <1>1 DEF P!Allocate, P!Free
  <2>2. allocated[id] = NoPort /\ refused' = FALSE
    BY <1>1 DEF P!Allocate
  <2>3. p # NoPort /\ NoId \notin Ids
    BY DEF P!Range
  <2>4. P!PortsTypeOK'
    BY <2>1, <2>2
  <2>5. P!MapsAgree'
    <3> SUFFICES ASSUME NEW i \in Ids, NEW q \in P!Range
                 PROVE  allocated'[i] = q <=> usedPorts'[q] = i
      BY DEF P!MapsAgree, P!Range
    <3>1. (allocated[i] = q <=> usedPorts[q] = i) /\ q # NoPort
      BY DEF P!MapsAgree, P!Range
    <3>2. allocated'[i] = IF i = id THEN p ELSE allocated[i]
      BY <2>1
    <3>3. usedPorts'[q] = IF q = p THEN id ELSE usedPorts[q]
      BY <2>1
    <3> QED BY <2>1, <2>2, <2>3, <3>1, <3>2, <3>3
  <2> QED BY <2>2, <2>4, <2>5 DEF P!RefusedOnlyIfFull
<1>2. CASE P!Refuse(id)
  <2>1. UNCHANGED <<allocated, usedPorts>> /\ refused' \in BOOLEAN
    BY <1>2 DEF P!Refuse
  <2>2. ASSUME NEW p \in P!Range PROVE \E i \in Ids : allocated[i] = p
    <3>1. usedPorts[p] \in Ids
      BY <1>2 DEF P!Refuse, P!Free
    <3>2. allocated[usedPorts[p]] = p
      BY <3>1 DEF P!MapsAgree
    <3> QED BY <3>1, <3>2
  <2> QED BY <2>1, <2>2 DEF P!MapsAgree, P!RefusedOnlyIfFull
<1>3. CASE P!Release(id)
  <2>1. /\ allocated' = [allocated EXCEPT ![id] = NoPort]
        /\ usedPorts' = [usedPorts EXCEPT ![allocated[id]] = NoId]
        /\ allocated[id] \in P!Range /\ refused' = FALSE
    BY <1>3 DEF P!Release
  <2>2. P!PortsTypeOK'
    BY <2>1
  <2>3. P!MapsAgree'
    <3> SUFFICES ASSUME NEW i \in Ids, NEW q \in P!Range
                 PROVE  allocated'[i] = q <=> usedPorts'[q] = i
      BY DEF P!MapsAgree, P!Range
    <3>1. (allocated[i] = q <=> usedPorts[q] = i) /\ q # NoPort /\ i # NoId
      BY DEF P!MapsAgree, P!Range
    <3>2. allocated'[i] = IF i = id THEN NoPort ELSE allocated[i]
      BY <2>1
    <3>3. usedPorts'[q] = IF q = allocated[id] THEN NoId ELSE usedPorts[q]
      BY <2>1
    <3>4. usedPorts[allocated[id]] = id
      BY <2>1 DEF P!MapsAgree, P!Range
    <3> QED BY <3>1, <3>2, <3>3, <3>4
  <2> QED BY <2>1, <2>2, <2>3 DEF P!RefusedOnlyIfFull
<1> QED BY <1>1, <1>2, <1>3

(***************************************************************************)
(* The endpoints.                                                          *)
(***************************************************************************)

\* A host whose zone ends it is not cut.
LEMMA HostIsNotCut ==
  ASSUME NEW s \in Seq(E!Pieces), E!Address(s), \A i \in DOMAIN s : s[i] = "zoned" => i = Len(s)
  PROVE  E!IsIPv6(s)
<1>1. E!ZoneCut(s) = s
  <2> DEFINE zones == {i \in DOMAIN s : s[i] = "zoned"}
  <2>1. CASE zones = {}
    BY <2>1 DEF E!ZoneCut
  <2>2. CASE zones # {}
    <3>1. zones = {Len(s)}
      BY <2>2
    <3>2. (CHOOSE i \in zones : \A j \in zones : i <= j) = Len(s)
      BY <3>1
    <3>3. SubSeq(s, 1, Len(s)) = s
      OBVIOUS
    <3> QED BY <2>2, <3>2, <3>3 DEF E!ZoneCut
  <2> QED BY <2>1, <2>2
<1> QED BY <1>1 DEF E!IsIPv6

\* The forms an endpoint may have that NewInstance is given.
LEMMA InputFacts ==
  ASSUME NEW e \in E!Inputs(MaxPieces)
  PROVE  /\ e.form = "plain" => e.host \in Seq(E!Pieces) /\ e = E!Plain(e.scheme, e.host)
         /\ e.form \in {"plain", "bracket", "open", "junk"}
         /\ e = [scheme |-> e.scheme, form |-> e.form, host |-> e.host, port |-> e.port]
         /\ e.scheme \in E!Schemes
<1>1. CASE e \in E!Unbracketed(MaxPieces)
  <2>1. PICK c \in E!Schemes, h \in UNION {[1 .. n -> E!Pieces] : n \in 1 .. MaxPieces} :
               e = E!Plain(c, h)
    BY <1>1 DEF E!Unbracketed
  <2>2. PICK n \in 1 .. MaxPieces : h \in [1 .. n -> E!Pieces]
    OBVIOUS
  <2>3. n \in Nat
    BY UtilitiesAssumption
  <2>4. h \in Seq(E!Pieces)
    BY ONLY <2>2, <2>3
  <2> QED BY <2>1, <2>4 DEF E!Plain
<1>2. CASE e \in E!Marked
  BY <1>2 DEF E!Marked, E!Forms
<1> QED BY <1>1, <1>2 DEF E!Inputs

\* What is left when it is split off its last piece.
LEMMA FrontFacts ==
  ASSUME NEW s \in Seq(E!Pieces), s # <<>>, NEW f, f = E!Front(s)
  PROVE  /\ f \in Seq(E!Pieces) /\ Len(f) = Len(s) - 1
         /\ \A i \in 1 .. Len(s) - 1 : f[i] = s[i]
         /\ DOMAIN f = 1 .. Len(s) - 1 /\ DOMAIN s = 1 .. Len(s) /\ Len(s) \in Nat \ {0}
<1>1. PICK n \in Nat \ {0} : n = Len(s)
  BY EmptySeq
<1>2. \A i \in 1 .. n - 1 : s[i] \in E!Pieces
  BY <1>1
<1>3. /\ f \in Seq(E!Pieces)
      /\ Len(f) = IF 1 <= n - 1 THEN n - 1 - 1 + 1 ELSE 0
      /\ \A i \in 1 .. n - 1 - 1 + 1 : f[i] = s[1 + i - 1]
  BY <1>1, <1>2, SubSeqProperties DEF E!Front
<1>4. \A i \in 1 .. n - 1 : i \in 1 .. n - 1 - 1 + 1 /\ 1 + i - 1 = i
  OBVIOUS
<1>5. Len(f) = n - 1
  BY ONLY n \in Nat \ {0}, <1>3
<1> QED BY <1>1, <1>3, <1>4, <1>5

\* A host and a port, neither bracketed nor a pair of pieces, are split.
LEMMA ReadAsPair ==
  ASSUME NEW s \in Seq(E!Pieces), s # <<>>, Len(s) # 2, E!IsHost(E!Front(s)), E!Last(s) \in E!Ports
  PROVE  E!Splits(s)
<1> DEFINE f == E!Front(s)
<1>1. f \in Seq(E!Pieces) /\ Len(f) = Len(s) - 1 /\ Len(s) \in Nat \ {0}
  BY FrontFacts
<1> HIDE DEF f
<1>2. Len(f) # 1
  BY ONLY <1>1, Len(s) # 2
<1>3. E!Address(f) /\ \A i \in DOMAIN f : f[i] = "zoned" => i = Len(f)
  BY <1>2 DEF E!IsHost, f
<1>4. E!IsIPv6(f)
  BY <1>1, <1>3, HostIsNotCut
<1>5. Len(f) > 1
  <2>1. Len(f) = MaxGroups \/ Len(f) \in 3 .. MaxGroups + 1
    BY <1>3 DEF E!Address
  <2>2. MaxGroups \in Nat \ {0, 1}
    BY UtilitiesAssumption DEF E!MaxGroupsAssumption
  <2> QED BY ONLY <2>1, <2>2
<1>6. Len(s) > 2
  BY ONLY <1>1, <1>5
<1> QED BY <1>4, <1>6 DEF E!Splits, f

\* A host without a port that is not an IPv6 address is one piece.
LEMMA ReadAsHost ==
  ASSUME NEW s \in Seq(E!Pieces), E!IsHost(s)
  PROVE  E!IsIPv6(s) \/ (Len(s) = 1 /\ s[1] # "")
  BY HostIsNotCut DEF E!IsHost

\* A piece that is a port is no zone: what is split from it is the host meant.
LEMMA SplitIsHost ==
  ASSUME NEW s \in Seq(E!Pieces), E!Splits(s), E!IsHost(s) \/ E!IsHost(E!Front(s))
  PROVE  E!IsHost(E!Front(s))
<1> SUFFICES ASSUME E!IsHost(s) PROVE E!IsHost(E!Front(s))
  OBVIOUS
<1> DEFINE f == E!Front(s)
<1>1. Len(s) > 2 /\ s[Len(s)] \in E!Ports /\ E!IsIPv6(f)
  BY DEF E!Splits, E!Last
<1>2. /\ \A i \in 1 .. Len(s) - 1 : f[i] = s[i]
      /\ DOMAIN f = 1 .. Len(s) - 1 /\ DOMAIN s = 1 .. Len(s) /\ Len(s) \in Nat \ {0}
  BY <1>1, FrontFacts
<1> HIDE DEF f
<1>3. s[Len(s)] # "zoned"
  BY <1>1 DEF E!Ports
<1>4. \A i \in DOMAIN s : s[i] # "zoned"
  <2>1. Len(s) # 1
    BY ONLY <1>1, <1>2
  <2> QED BY <1>3, <2>1 DEF E!IsHost
<1>5. \A i \in DOMAIN f : f[i] # "zoned"
  BY ONLY <1>2, <1>4
<1>6. E!ZoneCut(f) = f
  BY <1>5 DEF E!ZoneCut
<1> QED BY <1>1, <1>5, <1>6 DEF E!IsIPv6, E!IsHost, f

\* What an unbracketed endpoint may be read as.
LEMMA PlainReadings ==
  ASSUME NEW e, e.form = "plain"
  PROVE  /\ E!Readings(e) # {} <=> \/ E!IsHost(e.host)
                                   \/ /\ e.host # <<>> /\ E!IsHost(E!Front(e.host))
                                      /\ E!Last(e.host) \in E!Ports
         /\ E!IsHost(e.host) => <<e.host, "default">> \in E!Readings(e)
         /\ e.host # <<>> /\ E!IsHost(E!Front(e.host)) /\ E!Last(e.host) \in E!Ports =>
              <<E!Front(e.host), E!Last(e.host)>> \in E!Readings(e)
         /\ \A r \in E!Readings(e) :
              \/ r = <<e.host, "default">> /\ E!IsHost(e.host)
              \/ r = <<E!Front(e.host), E!Last(e.host)>> /\ e.host # <<>>
  BY DEF E!Readings

\* What Normalize may make of an endpoint.
Outcome(e, n) ==
  \/ e.form = "bracket" /\ e.port # "" /\ n = e
  \/ e.form = "bracket" /\ e.port = "" /\ n = [e EXCEPT !.port = "default"]
  \/ e.form = "plain" /\ Len(e.host) = 2 /\ n = e
  \/ /\ e.form = "plain" /\ e.host # <<>>
     /\ E!IsHost(E!Front(e.host)) /\ E!Last(e.host) \in E!Ports
     /\ n = E!Bracketed(e.scheme, E!Front(e.host), E!Last(e.host))
  \/ /\ e.form = "plain" /\ E!IsHost(e.host)
     /\ n = E!Bracketed(e.scheme, e.host, "default")
  \/ /\ e.form = "plain" /\ Len(e.host) = 1 /\ e.host[1] # "" /\ e.host \in Seq(E!Pieces)
     /\ n = E!Plain(e.scheme, Append(e.host, "default"))

\* What Normalize makes of an endpoint that means something.
LEMMA NormalizeCases ==
  ASSUME NEW e \in E!Inputs(MaxPieces), E!Meant(e), NEW n, n = E!Normalize(e)
  PROVE  Outcome(e, n)
<1> USE DEF Outcome
<1>1. e.scheme # "vsock://" /\ E!Readings(e) # {}
  BY DEF E!Meant
<1>2. e.form \in {"plain", "bracket"}
  BY <1>1, InputFacts DEF E!Readings
<1>3. CASE e.form = "bracket"
  BY <1>1, <1>3 DEF E!Normalize
<1>4. CASE e.form = "plain"
  <2> DEFINE s == e.host
             pair == s # <<>> /\ E!IsHost(E!Front(s)) /\ E!Last(s) \in E!Ports
  <2>1. s \in Seq(E!Pieces)
    BY <1>4, InputFacts
  <2>2. E!IsHost(s) \/ pair
    BY <1>1, <1>4, PlainReadings
  <2>3. n = IF Len(s) = 2 THEN e
            ELSE IF E!Splits(s) THEN E!Bracketed(e.scheme, E!Front(s), E!Last(s))
            ELSE IF E!IsIPv6(s) THEN E!Bracketed(e.scheme, s, "default")
            ELSE E!Plain(e.scheme, Append(s, "default"))
    BY <1>1, <1>4 DEF E!Normalize
  <2>4. CASE Len(s) = 2
    BY <1>1, <1>4, <2>3, <2>4
  <2>5. CASE Len(s) # 2 /\ E!Splits(s)
    <3>1. E!IsHost(E!Front(s)) /\ E!Last(s) \in E!Ports
      BY <2>1, <2>2, <2>5, SplitIsHost DEF E!Splits
    <3>2. s # <<>>
      <4>1. Len(s) > 2
        BY <2>5 DEF E!Splits
      <4> QED BY <4>1
    <3> QED BY <1>1, <1>4, <2>3, <2>5, <3>1, <3>2
  <2>6. CASE Len(s) # 2 /\ ~E!Splits(s)
    <3>1. E!IsHost(s)
      BY <2>1, <2>2, <2>6, ReadAsPair
    <3>2. E!IsIPv6(s) \/ (Len(s) = 1 /\ s[1] # "")
      BY <2>1, <3>1, ReadAsHost
    <3> QED BY <1>1, <1>4, <2>1, <2>3, <2>6, <3>1, <3>2
  <2> QED BY <2>4, <2>5, <2>6
<1> QED BY <1>2, <1>3, <1>4

\* What a bracketed endpoint means.
LEMMA BracketMeans ==
  ASSUME NEW e, e.form = "bracket", e.port # "", e.scheme # "vsock://"
  PROVE  /\ E!Readings(e) = {<<e.host, e.port>>}
         /\ E!Complete(e) /\ E!Normalize(e) = e
  BY DEF E!Readings, E!Complete, E!Normalize

\* What a name that is given the default port means.
LEMMA NameMeans ==
  ASSUME NEW s \in Seq(E!Pieces), Len(s) = 1, s[1] # "", NEW c, c # "vsock://",
         NEW n, n = E!Plain(c, Append(s, "default"))
  PROVE  /\ E!Readings(n) = {<<s, "default">>}
         /\ E!Complete(n) /\ E!Normalize(n) = n
<1> DEFINE h == Append(s, "default")
<1>1. n = [scheme |-> c, form |-> "plain", host |-> h, port |-> ""]
  BY DEF E!Plain
<1>2. "default" \in E!Pieces
  BY DEF E!Pieces, E!Ports
<1>3. h \in Seq(E!Pieces) /\ Len(h) = 2 /\ h[1] = s[1] /\ h[2] = "default" /\ h # <<>>
  <2>1. /\ h \in Seq(E!Pieces) /\ h # <<>> /\ Len(h) = Len(s) + 1
        /\ \A i \in 1 .. Len(s) : h[i] = s[i]
        /\ h[Len(s) + 1] = "default"
    BY ONLY <1>2, s \in Seq(E!Pieces), AppendProperties
  <2> QED BY ONLY Len(s) = 1, <2>1
<1> HIDE DEF h
<1>4. ~E!IsHost(h)
  <2>1. 2 \in DOMAIN h
    BY ONLY <1>3
  <2>2. h[2] \notin E!Groups \cup {""}
    BY <1>3 DEF E!Groups
  <2>3. ~E!Address(h)
    BY ONLY <2>1, <2>2 DEF E!Address
  <2>4. Len(h) # 1
    BY ONLY <1>3
  <2> QED BY <2>3, <2>4 DEF E!IsHost
<1>5. E!Front(h) = s
  <2>1. E!Front(h) \in Seq(E!Pieces) /\ Len(E!Front(h)) = Len(h) - 1
        /\ \A i \in 1 .. Len(h) - 1 : E!Front(h)[i] = h[i]
    BY <1>3, FrontFacts
  <2>2. Len(h) - 1 = 1
    BY ONLY <1>3
  <2>3. Len(E!Front(h)) = 1 /\ E!Front(h)[1] = s[1]
    BY ONLY <1>3, <2>1, <2>2
  <2>4. \A i \in 1 .. Len(s) : E!Front(h)[i] = s[i]
    BY ONLY <2>3, Len(s) = 1
  <2>5. Len(E!Front(h)) = Len(s)
    BY <2>3
  <2> QED BY ONLY <2>1, <2>4, <2>5, s \in Seq(E!Pieces), SeqEqual
<1>6. E!Last(h) = "default" /\ E!IsHost(s)
  BY <1>3 DEF E!Last, E!IsHost
<1>7. n.form = "plain" /\ n.host = h /\ n.scheme = c
  BY ONLY <1>1
<1>8. E!Readings(n) = {<<s, "default">>}
  <2>1. \A r \in E!Readings(n) : r = <<s, "default">>
    BY <1>4, <1>5, <1>6, <1>7, PlainReadings
  <2>2. <<s, "default">> \in E!Readings(n)
    BY <1>3, <1>5, <1>6, <1>7, PlainReadings DEF E!Ports
  <2> QED BY <2>1, <2>2
<1>9. E!Complete(n) /\ E!Normalize(n) = n
  BY <1>3, <1>7 DEF E!Complete, E!Normalize
<1> QED BY <1>8, <1>9

\* Normalize keeps one of the things its endpoint means, and leaves nothing to do.
LEMMA NormalizeMeans ==
  ASSUME NEW e \in E!Inputs(MaxPieces), E!Meant(e), NEW n, n = E!Normalize(e)
  PROVE  /\ E!Readings(n) \subseteq E!Readings(e) /\ E!Readings(n) # {}
         /\ E!Complete(n) /\ E!Normalize(n) = n
<1> DEFINE Goal == /\ E!Readings(n) \subseteq E!Readings(e) /\ E!Readings(n) # {}
                   /\ E!Complete(n) /\ E!Normalize(n) = n
<1> SUFFICES Goal
  OBVIOUS
<1> HIDE DEF Goal
<1>1. e.scheme # "vsock://" /\ E!Readings(e) # {}
  BY DEF E!Meant
<1>2. CASE e.form = "bracket" /\ e.port # "" /\ n = e
  BY <1>1, <1>2, BracketMeans DEF Goal
<1>3. CASE e.form = "bracket" /\ e.port = "" /\ n = [e EXCEPT !.port = "default"]
  <2>1. n.form = "bracket" /\ n.port = "default" /\ n.scheme = e.scheme /\ n.host = e.host
    BY <1>3, InputFacts
  <2>2. E!Readings(e) = {<<e.host, "default">>}
    BY <1>3 DEF E!Readings
  <2> QED BY <1>1, <2>1, <2>2, BracketMeans DEF Goal
<1>4. CASE e.form = "plain" /\ Len(e.host) = 2 /\ n = e
  BY <1>1, <1>4 DEF Goal, E!Complete
<1>5. CASE \E h, p : /\ <<h, p>> \in E!Readings(e) /\ p # ""
                     /\ n = E!Bracketed(e.scheme, h, p)
  <2>1. PICK h, p : <<h, p>> \in E!Readings(e) /\ p # "" /\ n = E!Bracketed(e.scheme, h, p)
    BY <1>5
  <2>2. n = [scheme |-> e.scheme, form |-> "bracket", host |-> h, port |-> p]
    BY <2>1 DEF E!Bracketed
  <2>3. n.form = "bracket" /\ n.port = p /\ n.scheme = e.scheme /\ n.host = h
    BY ONLY <2>2
  <2> QED BY <1>1, <2>1, <2>3, BracketMeans DEF Goal
<1>6. CASE /\ e.form = "plain" /\ Len(e.host) = 1 /\ e.host[1] # "" /\ e.host \in Seq(E!Pieces)
           /\ n = E!Plain(e.scheme, Append(e.host, "default"))
  <2>1. <<e.host, "default">> \in E!Readings(e)
    BY <1>6, PlainReadings DEF E!IsHost
  <2> QED BY <1>1, <1>6, <2>1, NameMeans DEF Goal
<1>7. CASE /\ e.form = "plain" /\ e.host # <<>>
           /\ E!IsHost(E!Front(e.host)) /\ E!Last(e.host) \in E!Ports
           /\ n = E!Bracketed(e.scheme, E!Front(e.host), E!Last(e.host))
  BY <1>5, <1>7, PlainReadings DEF E!Ports
<1>8. CASE /\ e.form = "plain" /\ E!IsHost(e.host)
           /\ n = E!Bracketed(e.scheme, e.host, "default")
  <2>1. <<e.host, "default">> \in E!Readings(e)
    BY <1>8, PlainReadings
  <2> QED BY <1>5, <1>8, <2>1
<1>9. Outcome(e, n)
  BY NormalizeCases
<1> QED BY ONLY <1>2, <1>3, <1>4, <1>6, <1>7, <1>8, <1>9 DEF Outcome

(***************************************************************************)
(* The endpoint of a behaviour is the one given or what is made of it.     *)
(***************************************************************************)
EInv == /\ original \in E!Inputs(MaxPieces)
        /\ endpoint \in {original, E!Normalize(original)}

\* A step normalizes the endpoint that was given.
LEMMA EStep == (E!Init(MaxPieces) => EInv) /\ (EInv /\ E!Next => EInv')
  BY DEF E!Init, E!Next, EInv

\* Both properties of an endpoint follow.
LEMMA EImplies == EInv => E!ReadingIsKept /\ E!NormalizedIsStable
<1> SUFFICES ASSUME EInv, E!Meant(original)
             PROVE  /\ E!Readings(endpoint) \subseteq E!Readings(original)
                    /\ E!Readings(endpoint) # {}
                    /\ endpoint = E!Normalize(original) =>
                         E!Complete(endpoint) /\ E!Normalize(endpoint) = endpoint
  BY DEF E!ReadingIsKept, E!NormalizedIsStable
<1>1. E!Readings(original) # {}
  BY DEF E!Meant
<1> QED BY <1>1, NormalizeMeans DEF EInv

(***************************************************************************)
(* The merged body: every sample in it carries the id of an exporter that  *)
(* was merged before, and no sample is in it twice.                        *)
(***************************************************************************)
OutLines == [series : Series \cup {"pass", "long"}, vm_name : VMNames \cup {""},
             target_id : IDs \cup {""}]
ResultsOK == /\ results \in [1 .. MaxResults -> [target : M!Targets, ok : BOOLEAN, body : M!Bodies]]
             /\ \A i, j \in 1 .. MaxResults :
                  M!Key(results[i].target) = M!Key(results[j].target) => i = j
Owned(i) == \E k \in 1 .. next - 1 : out[i].target_id = results[k].target.id

MInv == /\ ResultsOK
        /\ next \in 1 .. MaxResults + 1 /\ up \in Nat /\ errors \in Nat
        /\ up + errors = next - 1
        /\ out \in Seq(OutLines)
        /\ \A i \in M!Samples : Owned(i)
        /\ M!SeriesApart
        /\ M!AllOrNothing

\* Nothing is merged yet.
LEMMA MInit == M!Init(MaxResults) => MInv
<1> SUFFICES ASSUME M!Init(MaxResults) PROVE MInv
  OBVIOUS
<1>1. M!Samples = {}
  BY DEF M!Init, M!Samples
<1>2. M!AllOrNothing
  <2>1. next = 1 /\ 1 .. 1 - 1 = {}
    BY DEF M!Init
  <2>2. \A i \in 1 .. next - 1 : FALSE
    BY <2>1
  <2> QED BY ONLY <2>2 DEF M!AllOrNothing
<1> QED BY <1>1, <1>2, UtilitiesAssumption DEF M!Init, MInv, ResultsOK, M!SeriesApart

\* A line of an exporter has no labels yet.
LEMMA RawLine ==
  ASSUME NEW x \in M!Lines
  PROVE  /\ x = [series |-> x.series, vm_name |-> "", target_id |-> ""]
         /\ x.series \in Series \cup {"pass", "long"}
<1>1. PICK y \in Series \cup {"pass", "long"} : x = M!Raw(y)
  BY DEF M!Lines, M!Pass, M!Long
<1>2. x = [series |-> y, vm_name |-> "", target_id |-> ""]
  BY <1>1 DEF M!Raw, M!Sample
<1> QED BY ONLY <1>2, y \in Series \cup {"pass", "long"}

\* A line with the labels of a target.
LEMMA LabelledLine ==
  ASSUME NEW x \in M!Lines, NEW t \in M!Targets, NEW y, y = M!Labelled(x, t)
  PROVE  /\ y \in OutLines /\ y.series = x.series
         /\ M!IsSample(y) => M!IsSample(x) /\ y.target_id = t.id
<1>1. t.id \in IDs /\ t.vm \in VMNames /\ t.name \in VMNames
  BY DEF M!Targets
<1>2. CASE M!IsSample(x)
  <2>1. y = [series |-> x.series, vm_name |-> IF t.vm = "" THEN t.name ELSE t.vm,
             target_id |-> t.id]
    BY <1>2 DEF M!Labelled, M!Sample
  <2> QED BY ONLY <1>1, <1>2, <2>1, RawLine, x \in M!Lines DEF OutLines
<1>3. CASE ~M!IsSample(x)
  <2>1. y = x
    BY <1>3 DEF M!Labelled
  <2>2. PICK v \in Series \cup {"pass", "long"} : x = [series |-> v, vm_name |-> "", target_id |-> ""]
    BY RawLine
  <2>3. x \in OutLines
    BY ONLY <2>2 DEF OutLines
  <2> QED BY <1>3, <2>1, <2>3
<1> QED BY <1>2, <1>3

\* The lines of an answer, as the server writes them.
LEMMA Injected ==
  ASSUME NEW b \in M!Bodies, NEW t \in M!Targets, NEW s, s = M!InjectLabels(b, t)
  PROVE  /\ s \in Seq(OutLines) /\ DOMAIN s = 1 .. Len(s) /\ DOMAIN b = 1 .. Len(s)
         /\ \A i \in 1 .. Len(s) : M!IsSample(s[i]) => s[i].target_id = t.id
         /\ \A i \in 1 .. Len(s) : M!IsSample(s[i]) <=> M!IsSample(b[i])
         /\ \A i, j \in 1 .. Len(s) : M!IsSample(s[i]) /\ s[i] = s[j] => i = j
<1>1. PICK n \in 0 .. MaxLines : b \in [1 .. n -> M!Lines]
  BY DEF M!Bodies
<1>2. n \in Nat
  BY UtilitiesAssumption DEF M!RelabelAssumption
<1>3. s = [i \in 1 .. n |-> M!Labelled(b[i], t)]
  BY <1>1 DEF M!InjectLabels
<1>4. ASSUME NEW i \in 1 .. n
      PROVE  /\ s[i] = M!Labelled(b[i], t) /\ b[i] \in M!Lines
             /\ s[i] \in OutLines /\ s[i].series = b[i].series
             /\ M!IsSample(s[i]) => M!IsSample(b[i]) /\ s[i].target_id = t.id
  <2>1. s[i] = M!Labelled(b[i], t) /\ b[i] \in M!Lines
    BY <1>1, <1>3
  <2> QED BY <2>1, LabelledLine
<1>5. s \in [1 .. n -> OutLines]
  BY <1>3, <1>4
<1>6. s \in Seq(OutLines) /\ Len(s) = n /\ DOMAIN s = 1 .. n
  BY ONLY <1>2, <1>5
<1>7. ASSUME NEW i \in 1 .. n, NEW j \in 1 .. n, M!IsSample(s[i]), s[i] = s[j]
      PROVE  i = j
  <2>1. M!IsSample(b[i]) /\ M!IsSample(b[j]) /\ b[i].series = b[j].series
    BY <1>4, <1>7 DEF M!IsSample
  <2>2. b[i] = b[j]
    BY <1>4, <2>1, RawLine
  <2>3. DOMAIN b = 1 .. n
    BY <1>1
  <2> QED BY <2>1, <2>2, <2>3 DEF M!Bodies
<1>8. DOMAIN b = 1 .. n
  BY <1>1
<1>9. \A i \in 1 .. n : M!IsSample(s[i]) <=> M!IsSample(b[i])
  BY <1>4 DEF M!IsSample
<1> QED BY <1>4, <1>6, <1>7, <1>8, <1>9

\* Lines that are moved further down are as many.
LEMMA ShiftCount ==
  ASSUME NEW n \in Nat, NEW m \in Nat, NEW K \in SUBSET (1 .. m)
  PROVE  Cardinality({n + k : k \in K}) = Cardinality(K)
<1> DEFINE S == {n + k : k \in K}
           f == [k \in K |-> n + k]
<1>1. IsFiniteSet(K)
  <2>1. IsFiniteSet(1 .. m)
    BY FS_Interval, 1 \in Int, m \in Int
  <2> QED BY <2>1, FS_Subset
<1>2. f \in Bijection(K, S)
  <2>1. \A i, j \in K : f[i] = f[j] => i = j
    OBVIOUS
  <2> QED BY <2>1 DEF Bijection, Injection, Surjection, IsInjective
<1>3. ExistsBijection(K, S)
  BY <1>2 DEF ExistsBijection
<1> QED BY <1>1, <1>3, FS_Bijection

\* The cardinality that the instance of Relabel counts with is the usual one.
LEMMA SameCardinality == \A S : M!Cardinality(S) = Cardinality(S)
  BY DEF M!Cardinality, Cardinality

\* The samples of a body that carry an id, and how many an answer must leave.
Carries(o, id) == {j \in DOMAIN o : M!IsSample(o[j]) /\ o[j].target_id = id}
Whole(r) == IF r.ok /\ \A k \in DOMAIN r.body : r.body[k] # M!Long
            THEN Cardinality({k \in DOMAIN r.body : M!IsSample(r.body[k])}) ELSE 0
Written(o, r) == r.target.id # "" => Cardinality(Carries(o, r.target.id)) = Whole(r)

\* AllOrNothing, result by result, before a step and after it.
LEMMA AllWritten ==
  /\ M!AllOrNothing <=> \A i \in 1 .. next - 1 : Written(out, results[i])
  /\ M!AllOrNothing' <=> \A i \in 1 .. next' - 1 : Written(out', results'[i])
<1>1. \A id : /\ {j \in M!Samples : out[j].target_id = id} = Carries(out, id)
              /\ {j \in M!Samples' : out'[j].target_id = id} = Carries(out', id)
  BY DEF M!Samples, Carries, M!IsSample
<1>2. M!AllOrNothing <=> \A i \in 1 .. next - 1 : Written(out, results[i])
  <2>1. M!AllOrNothing <=>
          \A i \in 1 .. next - 1 : results[i].target.id # "" =>
            Cardinality({j \in M!Samples : out[j].target_id = results[i].target.id})
              = Whole(results[i])
    BY ONLY SameCardinality DEF M!AllOrNothing, Whole
  <2> QED BY ONLY <1>1, <2>1 DEF Written
<1>3. M!AllOrNothing' <=> \A i \in 1 .. next' - 1 : Written(out', results'[i])
  <2>1. M!AllOrNothing' <=>
          \A i \in 1 .. next' - 1 : results'[i].target.id # "" =>
            Cardinality({j \in M!Samples' : out'[j].target_id = results'[i].target.id})
              = Whole(results'[i])
    BY ONLY SameCardinality DEF M!AllOrNothing, Whole
  <2> QED BY ONLY <1>1, <2>1 DEF Written
<1> QED BY <1>2, <1>3

\* No sample carries the id of a result that is not merged yet.
LEMMA NotYetWritten ==
  ASSUME MInv, next \in 1 .. MaxResults, results[next].target.id # ""
  PROVE  Carries(out, results[next].target.id) = {}
<1> SUFFICES ASSUME NEW a \in M!Samples, out[a].target_id = results[next].target.id PROVE FALSE
  BY DEF Carries, M!Samples
<1>1. PICK k \in 1 .. next - 1 : out[a].target_id = results[k].target.id
  BY DEF MInv, Owned
<1>2. k \in 1 .. MaxResults /\ k # next
  <2>1. PICK m \in 1 .. MaxResults : m = next
    OBVIOUS
  <2>2. MaxResults \in Nat /\ k \in 1 .. m - 1
    BY <2>1, UtilitiesAssumption
  <2>3. k \in 1 .. MaxResults /\ k # m
    BY ONLY <2>2, m \in 1 .. MaxResults
  <2> QED BY ONLY <2>1, <2>3
<1>3. M!Key(results[k].target) = M!Key(results[next].target)
  BY <1>1 DEF M!Key
<1> QED BY <1>2, <1>3 DEF MInv, ResultsOK

\* A merge adds samples with the id of its target, which no other result has.
LEMMA MStep == MInv /\ M!Next => MInv'
<1> SUFFICES ASSUME MInv, M!Skip \/ M!Merge PROVE MInv'
  BY DEF M!Next
<1>1. /\ MaxResults \in Nat /\ DOMAIN results = 1 .. MaxResults
      /\ next \in 1 .. MaxResults /\ next' = next + 1 /\ UNCHANGED results
  BY UtilitiesAssumption DEF MInv, ResultsOK, M!Skip, M!Merge
<1>2. ResultsOK'
  BY <1>1 DEF MInv, ResultsOK
<1>3. CASE M!Skip
  <2>1. UNCHANGED <<out, up>> /\ errors' = errors + 1
    BY <1>3 DEF M!Skip
  <2>2. \A i \in M!Samples' : Owned(i)'
    BY <1>1, <2>1 DEF MInv, Owned, M!Samples
  <2>3. M!SeriesApart'
    BY <1>1, <2>1 DEF MInv, M!SeriesApart, M!Samples
  <2>4. M!AllOrNothing'
    <3>1. Whole(results[next]) = 0
      BY <1>3 DEF M!Skip, M!Fails, M!TooLong, Whole
    <3>2. Written(out, results[next])
      BY <1>1, <3>1, NotYetWritten, FS_EmptySet DEF Written
    <3>3. \A i \in 1 .. next - 1 : Written(out, results[i])
      BY AllWritten DEF MInv
    <3>4. \A i \in 1 .. next : i = next \/ i \in 1 .. next - 1
      BY ONLY <1>1
    <3>5. next' - 1 = next
      BY ONLY <1>1
    <3> QED BY <1>1, <2>1, <3>2, <3>3, <3>4, <3>5, AllWritten
  <2> QED BY <1>1, <1>2, <2>1, <2>2, <2>3, <2>4 DEF MInv
<1>4. CASE M!Merge
  <2> DEFINE t == results[next].target
             s == M!InjectLabels(results[next].body, t)
             n == Len(out)
  <2>1. up' = up + 1 /\ UNCHANGED errors /\ out' = out \o s
    BY <1>4 DEF M!Merge
  <2>2. t \in M!Targets /\ results[next].body \in M!Bodies
    BY <1>1 DEF MInv, ResultsOK
  <2>3. /\ s \in Seq(OutLines) /\ DOMAIN s = 1 .. Len(s)
        /\ DOMAIN results[next].body = 1 .. Len(s)
        /\ \A i \in 1 .. Len(s) : M!IsSample(s[i]) => s[i].target_id = t.id
        /\ \A i \in 1 .. Len(s) : M!IsSample(s[i]) <=> M!IsSample(results[next].body[i])
        /\ \A i, j \in 1 .. Len(s) : M!IsSample(s[i]) /\ s[i] = s[j] => i = j
    BY <2>2, Injected
  <2> HIDE DEF s, t
  <2>4. /\ out' \in Seq(OutLines) /\ Len(out') = n + Len(s)
        /\ \A i \in 1 .. n + Len(s) : out'[i] = IF i <= n THEN out[i] ELSE s[i - n]
    BY <2>1, <2>3, ConcatProperties DEF MInv
  <2>5. /\ n \in Nat /\ Len(s) \in Nat /\ DOMAIN out = 1 .. n
        /\ DOMAIN out' = 1 .. n + Len(s)
    BY <2>3, <2>4 DEF MInv
  <2> HIDE DEF n
  <2>6. ASSUME NEW i \in M!Samples'
        PROVE  \/ i \in M!Samples /\ i \in 1 .. n /\ out'[i] = out[i]
               \/ /\ i - n \in 1 .. Len(s) /\ out'[i] = s[i - n]
                  /\ M!IsSample(s[i - n]) /\ out'[i].target_id = t.id
    <3>1. i \in 1 .. n + Len(s) /\ M!IsSample(out'[i])
      BY <2>5 DEF M!Samples, M!IsSample
    <3>2. i \in 1 .. n \/ (i - n \in 1 .. Len(s) /\ ~(i <= n))
      BY ONLY <3>1, <2>5
    <3>3. CASE i \in 1 .. n
      <4>1. i <= n
        BY ONLY <2>5, <3>3
      <4>2. out'[i] = out[i]
        BY ONLY <2>4, <3>1, <4>1
      <4> QED BY <2>5, <3>1, <3>3, <4>2 DEF M!Samples
    <3>4. CASE i - n \in 1 .. Len(s) /\ ~(i <= n)
      <4>1. out'[i] = s[i - n]
        BY ONLY <2>4, <3>1, <3>4
      <4> QED BY <2>3, <3>1, <3>4, <4>1
    <3> QED BY <3>2, <3>3, <3>4
  <2>7. \A i \in M!Samples' : Owned(i)'
    <3> SUFFICES ASSUME NEW i \in M!Samples'
                 PROVE  \E k \in 1 .. next : out'[i].target_id = results[k].target.id
      BY <1>1 DEF Owned
    <3>1. CASE i \in M!Samples /\ out'[i] = out[i]
      <4>1. PICK k \in 1 .. next - 1 : out[i].target_id = results[k].target.id
        BY <3>1 DEF MInv, Owned
      <4> QED BY <1>1, <3>1, <4>1
    <3>2. CASE out'[i].target_id = t.id
      BY <1>1, <3>2 DEF t
    <3> QED BY <2>6, <3>1, <3>2
  <2>8. M!SeriesApart'
    <3> SUFFICES ASSUME \A i \in 1 .. MaxResults : results[i].target.id # "",
                        NEW i \in M!Samples', NEW j \in M!Samples', out'[i] = out'[j]
                 PROVE  i = j
      BY <1>1 DEF M!SeriesApart
    <3>1. \A a \in M!Samples : out[a].target_id # t.id
      BY <1>1, NotYetWritten DEF Carries, M!Samples, t
    <3>2. CASE i \in M!Samples /\ out'[i] = out[i] /\ j \in M!Samples /\ out'[j] = out[j]
      BY <1>1, <3>2 DEF MInv, M!SeriesApart
    <3>3. CASE /\ i - n \in 1 .. Len(s) /\ out'[i] = s[i - n] /\ M!IsSample(s[i - n])
               /\ j - n \in 1 .. Len(s) /\ out'[j] = s[j - n]
      <4>1. i - n = j - n
        BY <2>3, <3>3
      <4>2. i \in 1 .. n + Len(s) /\ j \in 1 .. n + Len(s)
        BY <2>5 DEF M!Samples
      <4> QED BY ONLY <2>5, <4>1, <4>2
    <3> QED BY <2>6, <3>1, <3>2, <3>3
  <2>9. M!AllOrNothing'
    <3>1. ASSUME NEW i \in 1 .. next - 1 PROVE Written(out', results[i])
      <4> SUFFICES ASSUME results[i].target.id # ""
                   PROVE  Carries(out', results[i].target.id) = Carries(out, results[i].target.id)
        BY AllWritten DEF MInv, Written
      <4>1. results[i].target.id # t.id
        <5>1. i \in 1 .. MaxResults /\ i # next
          BY ONLY <1>1, i \in 1 .. next - 1
        <5>2. results[i].target.id = t.id => M!Key(results[i].target) = M!Key(results[next].target)
          BY DEF t, M!Key
        <5> QED BY <1>1, <5>1, <5>2 DEF MInv, ResultsOK
      <4>2. \A j \in Carries(out', results[i].target.id) : j \in Carries(out, results[i].target.id)
        BY <2>6, <4>1 DEF Carries, M!Samples, M!IsSample
      <4>3. \A j \in Carries(out, results[i].target.id) : j \in Carries(out', results[i].target.id)
        <5>1. \A j \in 1 .. n : j \in 1 .. n + Len(s) /\ j <= n
          BY ONLY <2>5
        <5>2. \A j \in 1 .. n : out'[j] = out[j]
          BY ONLY <2>4, <5>1
        <5> QED BY <2>5, <5>1, <5>2 DEF Carries
      <4> QED BY <4>2, <4>3
    <3>2. Written(out', results[next])
      <4> SUFFICES ASSUME t.id # "" PROVE Cardinality(Carries(out', t.id)) = Whole(results[next])
        BY DEF Written, t
      <4> DEFINE K == {k \in 1 .. Len(s) : M!IsSample(s[k])}
      <4>1. Carries(out', t.id) = {n + k : k \in K}
        <5>1. \A j \in Carries(out', t.id) : j - n \in K /\ j = n + (j - n)
          <6>1. \A j \in M!Samples : out[j].target_id # t.id
            BY <1>1, NotYetWritten DEF Carries, M!Samples, t
          <6>2. \A j \in Carries(out', t.id) : j \in M!Samples' /\ j \in 1 .. n + Len(s)
            BY <2>5 DEF Carries, M!Samples, M!IsSample
          <6>3. \A j \in Carries(out', t.id) : j - n \in 1 .. Len(s) /\ M!IsSample(s[j - n])
            BY <2>6, <6>1, <6>2 DEF Carries
          <6> QED BY ONLY <2>5, <6>2, <6>3
        <5>2. \A k \in K : n + k \in Carries(out', t.id)
          <6>1. \A k \in K : n + k \in 1 .. n + Len(s) /\ ~(n + k <= n) /\ n + k - n = k
            BY ONLY <2>5
          <6>2. \A k \in K : out'[n + k] = s[k]
            <7> SUFFICES ASSUME NEW k \in K PROVE out'[n + k] = s[k]
              OBVIOUS
            <7>1. k \in 1 .. Len(s)
              OBVIOUS
            <7>2. PICK m \in Nat : m = n + k
              BY ONLY <2>5, <7>1
            <7>3. m \in 1 .. n + Len(s) /\ ~(m <= n) /\ m - n = k
              BY ONLY <2>5, <7>1, <7>2
            <7>4. out'[m] = s[m - n]
              BY ONLY <2>4, <7>3
            <7> QED BY ONLY <7>2, <7>3, <7>4
          <6> QED BY <2>3, <2>5, <6>1, <6>2 DEF Carries
        <5> QED BY <5>1, <5>2
      <4>2. K = {k \in DOMAIN results[next].body : M!IsSample(results[next].body[k])}
        BY <2>3
      <4>3. Whole(results[next]) = Cardinality(K)
        BY <1>4, <4>2 DEF M!Merge, M!Fails, M!TooLong, Whole
      <4>4. K \in SUBSET (1 .. Len(s))
        OBVIOUS
      <4> QED BY <2>5, <4>1, <4>3, <4>4, ShiftCount
    <3>3. \A i \in 1 .. next : i = next \/ i \in 1 .. next - 1
      BY ONLY <1>1
    <3>4. next' - 1 = next
      BY ONLY <1>1
    <3> QED BY <1>1, <3>1, <3>2, <3>3, <3>4, AllWritten
  <2> QED BY <1>1, <1>2, <2>1, <2>4, <2>7, <2>8, <2>9 DEF MInv
<1> QED BY <1>3, <1>4

(***************************************************************************)
(* The resolver.                                                           *)
(***************************************************************************)

\* A set of numbers that is not empty has a least one.
LEMMA LeastOf ==
  ASSUME NEW Q, IsWellFoundedOn(Q, Nat), \A i, j \in Nat : i < j => <<i, j>> \in Q,
         NEW S, S \subseteq Nat, S # {}
  PROVE  \E i \in S : \A j \in S : i <= j
<1>1. PICK i \in S : \A j \in S : ~(<<j, i>> \in Q)
  BY ONLY WFMin, IsWellFoundedOn(Q, Nat), S \subseteq Nat, S # {}, Zenon
<1>2. ASSUME NEW j \in S PROVE i <= j
  <2>1. i \in Nat /\ j \in Nat /\ ~(j < i)
    BY <1>1
  <2> QED BY ONLY <2>1
<1> QED BY <1>2

\* The order of the numbers is well-founded.
LEMMA Least == \A S \in SUBSET Nat : S # {} => \E i \in S : \A j \in S : i <= j
<1>1. IsWellFoundedOn(OpToRel(<, Nat), Nat)
  BY NatLessThanWellFounded
<1>2. \A i, j \in Nat : i < j => <<i, j>> \in OpToRel(<, Nat)
  BY DEF OpToRel
<1> QED BY <1>1, <1>2, LeastOf, Zenon

\* First picks it.
LEMMA FirstIs ==
  ASSUME NEW S, S \subseteq Nat, S # {}
  PROVE  R!First(S) \in S /\ \A j \in S : R!First(S) <= j
  BY Least DEF R!First

\* What the resolver holds of its items.
LEMMA ItemFacts ==
  ASSUME R!ResolverTypeOK
  PROVE  /\ config \in Configs /\ Len(R!Items) \in Nat /\ DOMAIN R!Items = 1 .. Len(R!Items)
         /\ R!Candidates \subseteq DOMAIN R!Items /\ DOMAIN R!Items \subseteq Nat
         /\ \A i \in R!Candidates : R!Items[i].name \in R!Names
         /\ "" \notin R!Names
<1>1. config \in Configs /\ Len(R!Items) \in Nat /\ DOMAIN R!Items = 1 .. Len(R!Items)
  BY UtilitiesAssumption DEF R!ResolverTypeOK, R!ResolverAssumption, R!Items
<1>2. DOMAIN R!Items \subseteq Nat
  BY ONLY <1>1
<1>3. R!Candidates \subseteq DOMAIN R!Items /\ \A i \in R!Candidates : R!Items[i].name # ""
  BY DEF R!Candidates
<1>4. /\ \A i \in DOMAIN R!Items : R!Items[i].name # "" => R!Items[i].name \in R!Names
      /\ "" \notin R!Names
  BY DEF R!Names
<1> QED BY <1>1, <1>2, <1>3, <1>4

\* Every name is the name of a candidate.
LEMMA EveryNameIsAsked ==
  ASSUME R!ResolverTypeOK, NEW n \in R!Names
  PROVE  \E i \in R!Candidates : R!Items[i].name = n
<1> DEFINE S == {i \in DOMAIN R!Items : R!Items[i].name = n}
<1>1. S # {} /\ S \subseteq Nat /\ n # ""
  BY ItemFacts DEF R!Names
<1>2. PICK i \in S : \A j \in S : i <= j
  BY <1>1, Least
<1>3. i \in DOMAIN R!Items /\ R!Items[i].name = n /\ i \in Nat
  BY <1>1, <1>2
<1>4. ASSUME NEW j \in 1 .. i - 1 PROVE R!Items[j].name # R!Items[i].name
  <2>1. j \in DOMAIN R!Items
    <3>1. PICK m \in Nat : DOMAIN R!Items = 1 .. m
      BY ItemFacts
    <3> QED BY ONLY <1>3, <3>1, j \in 1 .. i - 1
  <2>2. j \in Nat /\ ~(i <= j)
    BY ONLY <1>3, j \in 1 .. i - 1
  <2> QED BY <1>2, <1>3, <2>1, <2>2
<1> QED BY <1>1, <1>3, <1>4 DEF R!Candidates

\* n is the name of the first candidate that has a route to a.
IsBest(a, n) ==
  \E i \in R!Candidates : /\ R!Items[i].name = n /\ n \in R!Routed(a)
                          /\ \A j \in R!Candidates : R!Items[j].name \in R!Routed(a) => i <= j

\* A call that asks or stores does so for a target that needs it, and has still
\* to ask every name that was routed to the target all along.
CallOK(c) ==
  /\ at[c] \in {"ask", "store"} => /\ asked[c].address \in Addresses
                                   /\ ~R!Decided(asked[c]) /\ R!Detects(asked[c])
  /\ left[c] \subseteq R!Candidates
  /\ at[c] = "store" => result[c] \in R!Names
  /\ through[c] \subseteq R!Routed(asked[c].address)
  /\ at[c] = "ask" /\ c \notin lost => \A n \in through[c] : \E i \in left[c] : R!Items[i].name = n
  /\ c \in lost => failed

\* What a call has found out holds as long as nothing moves.
StillOK(c) ==
  /\ at[c] = "ask" => \A i \in R!Candidates \ left[c] :
                        R!Items[i].name \notin R!Routed(asked[c].address)
  /\ at[c] = "store" => IsBest(asked[c].address, result[c])
  /\ at[c] = "done" => result[c] = R!Expected(asked[c])

CacheOK == \A a \in Addresses : routeCache[a] # "" => IsBest(a, routeCache[a])

CallsTypeOK == /\ R!ResolverTypeOK
               /\ result = [c \in R!Goroutines |-> result[c]]
               /\ through \in [R!Goroutines -> SUBSET R!Names]

RInv == /\ CallsTypeOK
        /\ \A c \in R!Goroutines : CallOK(c)
        /\ ~moved /\ ~failed => CacheOK /\ \A c \in R!Goroutines : StillOK(c)

\* The first candidate with a route is what the rules give.
LEMMA BestIsExpected ==
  ASSUME R!ResolverTypeOK, NEW t, ~R!Decided(t), R!Detects(t), NEW n, IsBest(t.address, n)
  PROVE  R!Expected(t) = n
<1> DEFINE S == {i \in R!Candidates : R!Items[i].name \in R!Routed(t.address)}
<1>1. PICK i \in R!Candidates : /\ R!Items[i].name = n /\ n \in R!Routed(t.address)
                                /\ \A j \in S : i <= j
  BY DEF IsBest
<1>2. i \in S /\ S \subseteq Nat
  BY <1>1, ItemFacts
<1>3. R!First(S) \in S /\ R!First(S) <= i
  BY <1>2, FirstIs
<1>4. R!First(S) = i
  <2>1. i <= R!First(S) /\ i \in Nat /\ R!First(S) \in Nat
    BY <1>1, <1>2, <1>3
  <2> QED BY ONLY <1>3, <2>1
<1> QED BY <1>1, <1>4 DEF R!Expected

\* Without one it is the default.
LEMMA NoneIsDefault ==
  ASSUME NEW t, ~R!Decided(t),
         R!Detects(t) => \A i \in R!Candidates : R!Items[i].name \notin R!Routed(t.address)
  PROVE  R!Expected(t) = config.default
  BY DEF R!Expected

\* What depends on the configuration and the routes alone.
LEMMA SameWorld ==
  ASSUME UNCHANGED config
  PROVE  /\ R!Items' = R!Items /\ R!Names' = R!Names /\ R!Candidates' = R!Candidates
         /\ \A t : R!Decided(t)' = R!Decided(t) /\ R!Detects(t)' = R!Detects(t)
         /\ UNCHANGED routes => /\ \A a : R!Routed(a)' = R!Routed(a)
                                /\ \A a, n : IsBest(a, n)' = IsBest(a, n)
                                /\ \A t : R!Expected(t)' = R!Expected(t)
<1>1. R!Items' = R!Items /\ R!Names' = R!Names /\ R!Candidates' = R!Candidates
  BY DEF R!Items, R!Names, R!Candidates
<1>2. \A t : R!Decided(t)' = R!Decided(t) /\ R!Detects(t)' = R!Detects(t)
  BY <1>1 DEF R!Decided, R!Detects, R!OfTenant, R!OfSubnet, R!Templated, R!Items
<1>3. UNCHANGED routes => /\ \A a : R!Routed(a)' = R!Routed(a)
                          /\ \A a, n : IsBest(a, n)' = IsBest(a, n)
                          /\ \A t : R!Expected(t)' = R!Expected(t)
  BY <1>1, <1>2 DEF R!Routed, IsBest, R!Expected, R!Decision, R!OfTenant, R!OfSubnet,
                    R!Templated, R!Items
<1> QED BY <1>1, <1>2, <1>3

\* Nothing is cached and nobody calls.
LEMMA RInit == R!Init => RInv
<1> SUFFICES ASSUME R!Init PROVE RInv
  OBVIOUS
<1>1. CallsTypeOK
  BY DEF R!Init, CallsTypeOK, R!ResolverTypeOK, R!Goroutines, R!NoRequest
<1>2. ASSUME NEW c \in R!Goroutines PROVE CallOK(c) /\ StillOK(c)
  BY <1>2 DEF R!Init, CallOK, StillOK
<1>3. CacheOK
  BY DEF R!Init, CacheOK
<1> QED BY <1>1, <1>2, <1>3 DEF RInv

\* A step of one goroutine leaves the calls of the others as they are.
LEMMA OneCall ==
  ASSUME RInv, NEW c \in R!Goroutines, UNCHANGED <<config, routes, moved>>, failed => failed',
         CallsTypeOK',
         \A d \in R!Goroutines \ {c} :
           /\ at'[d] = at[d] /\ asked'[d] = asked[d] /\ left'[d] = left[d]
           /\ result'[d] = result[d] /\ through'[d] = through[d] /\ (d \in lost' <=> d \in lost),
         CallOK(c)',
         ~moved' /\ ~failed' => CacheOK' /\ StillOK(c)'
  PROVE  RInv'
<1>1. ASSUME NEW d \in R!Goroutines \ {c} PROVE CallOK(d)'
  BY <1>1, SameWorld DEF RInv, CallOK
<1>2. ASSUME NEW d \in R!Goroutines \ {c}, ~moved', ~failed' PROVE StillOK(d)'
  BY <1>2, SameWorld DEF RInv, StillOK
<1> QED BY <1>1, <1>2 DEF RInv

\* The cache stays right as long as it and the routes stay.
LEMMA SameCache ==
  ASSUME UNCHANGED <<config, routes, routeCache>>, CacheOK
  PROVE  CacheOK'
  BY SameWorld DEF CacheOK

\* The rules, the cache, or all candidates.
LEMMA ResolveKeeps ==
  ASSUME RInv, NEW c \in R!Goroutines, NEW t \in Requests, R!Resolve(c, t)
  PROVE  RInv'
<1> USE DEF R!Resolve
<1>1. PICK to \in {"done", "ask"} :
        /\ to = "ask" <=> ~R!Decided(t) /\ R!Detects(t) /\ ~R!Cached(t)
        /\ at' = [at EXCEPT ![c] = to]
        /\ result' = [result EXCEPT ![c] = IF R!Decided(t) THEN R!Decision(t)
                                           ELSE IF R!Cached(t) THEN routeCache[t.address]
                                           ELSE config.default]
        /\ left' = [left EXCEPT ![c] = IF to = "ask" THEN R!Candidates ELSE {}]
        /\ through' = [through EXCEPT ![c] = IF to = "ask" THEN R!Routed(t.address) ELSE {}]
  OBVIOUS
<1>2. R!Detects(t) => t.address \in Addresses
  BY UtilitiesAssumption DEF R!Detects, R!ResolverAssumption
<1>3. CallsTypeOK'
  <2>1. R!Routed(t.address) \subseteq R!Names /\ R!Candidates \subseteq DOMAIN R!Items
    BY ItemFacts DEF R!Routed, RInv, CallsTypeOK
  <2> QED BY <1>1, <2>1, SameWorld DEF RInv, CallsTypeOK, R!ResolverTypeOK
<1>4. /\ at'[c] = to /\ asked'[c] = t
      /\ left'[c] = IF to = "ask" THEN R!Candidates ELSE {}
      /\ through'[c] = IF to = "ask" THEN R!Routed(t.address) ELSE {}
      /\ result'[c] = IF R!Decided(t) THEN R!Decision(t)
                      ELSE IF R!Cached(t) THEN routeCache[t.address] ELSE config.default
  BY <1>1 DEF RInv, CallsTypeOK, R!ResolverTypeOK
<1>5. CallOK(c)'
  <2>1. \A n \in R!Routed(t.address) : \E i \in R!Candidates : R!Items[i].name = n
    BY EveryNameIsAsked DEF RInv, CallsTypeOK, R!Routed
  <2> QED BY <1>1, <1>2, <1>4, <2>1, SameWorld DEF RInv, CallOK
<1>6. ASSUME ~moved', ~failed' PROVE CacheOK' /\ StillOK(c)'
  <2>1. CacheOK
    BY <1>6 DEF RInv
  <2>2. CacheOK'
    BY <2>1, SameCache
  <2>3. to = "done" => result'[c] = R!Expected(t)
    <3>1. CASE R!Decided(t)
      BY <1>4, <3>1 DEF R!Expected
    <3>2. CASE ~R!Decided(t) /\ R!Cached(t)
      <4>1. R!Detects(t) /\ IsBest(t.address, routeCache[t.address])
        BY <1>2, <2>1, <3>2 DEF R!Cached, CacheOK
      <4> QED BY <1>4, <3>2, <4>1, BestIsExpected DEF RInv, CallsTypeOK
    <3>3. CASE ~R!Decided(t) /\ ~R!Cached(t)
      BY <1>1, <1>4, <3>3, NoneIsDefault
    <3> QED BY <3>1, <3>2, <3>3
  <2> QED BY <1>4, <2>2, <2>3, SameWorld DEF StillOK
<1>7. \A d \in R!Goroutines \ {c} :
        /\ at'[d] = at[d] /\ asked'[d] = asked[d] /\ left'[d] = left[d]
        /\ result'[d] = result[d] /\ through'[d] = through[d] /\ (d \in lost' <=> d \in lost)
  BY <1>1 DEF RInv, CallsTypeOK, R!ResolverTypeOK
<1> QED BY <1>3, <1>5, <1>6, <1>7, OneCall

\* The candidate that is asked next comes before the others that are left.
LEMMA NextAsked ==
  ASSUME RInv, NEW c \in R!Goroutines, left[c] # {}
  PROVE  /\ R!First(left[c]) \in left[c] /\ \A j \in left[c] : R!First(left[c]) <= j
         /\ R!First(left[c]) \in R!Candidates /\ R!Candidate(c) \in R!Names
         /\ R!Candidate(c) = R!Items[R!First(left[c])].name
<1>1. left[c] \subseteq R!Candidates /\ R!Candidates \subseteq Nat
  BY ItemFacts DEF RInv, CallOK, CallsTypeOK
<1> QED BY <1>1, FirstIs, ItemFacts DEF RInv, CallsTypeOK, R!Candidate

\* A candidate without a route is asked no more.
LEMMA NotRoutedKeeps ==
  ASSUME RInv, NEW c \in R!Goroutines, R!NotRouted(c)
  PROVE  RInv'
<1> USE DEF R!NotRouted
<1> DEFINE f == R!First(left[c])
<1>1. /\ f \in left[c] /\ R!Candidate(c) = R!Items[f].name
      /\ R!Candidate(c) \notin R!Routed(asked[c].address)
  BY NextAsked
<1> HIDE DEF f
<1>2. left' = [left EXCEPT ![c] = left[c] \ {f}]
  BY DEF f
<1>3. CallsTypeOK'
  BY <1>2, SameWorld DEF RInv, CallsTypeOK, R!ResolverTypeOK
<1>4. left'[c] = left[c] \ {f}
  BY <1>2 DEF RInv, CallsTypeOK, R!ResolverTypeOK
<1>5. CallOK(c)'
  <2>1. CallOK(c)
    BY DEF RInv
  <2>2. \A n \in through[c] : n # R!Items[f].name
    BY <1>1, <2>1 DEF CallOK
  <2> QED BY <1>4, <2>1, <2>2, SameWorld DEF CallOK
<1>6. ASSUME ~moved', ~failed' PROVE CacheOK' /\ StillOK(c)'
  <2>1. CacheOK /\ StillOK(c)
    BY <1>6 DEF RInv
  <2>2. StillOK(c)'
    BY <1>1, <1>4, <2>1, SameWorld DEF StillOK
  <2> QED BY <2>1, <2>2, SameCache
<1>7. \A d \in R!Goroutines \ {c} : left'[d] = left[d]
  BY <1>2 DEF RInv, CallsTypeOK, R!ResolverTypeOK
<1> QED BY <1>3, <1>5, <1>6, <1>7, OneCall

\* A failure is remembered, and with it that the answer may be wrong.
LEMMA CommandFailsKeeps ==
  ASSUME RInv, NEW c \in R!Goroutines, R!CommandFails(c)
  PROVE  RInv'
<1> USE DEF R!CommandFails
<1>1. PICK rest \in {left[c] \ {R!First(left[c])}, {}} : left' = [left EXCEPT ![c] = rest]
  OBVIOUS
<1>2. CallsTypeOK'
  BY <1>1, SameWorld DEF RInv, CallsTypeOK, R!ResolverTypeOK
<1>3. left'[c] \subseteq left[c]
  BY <1>1 DEF RInv, CallsTypeOK, R!ResolverTypeOK
<1>4. CallOK(c)'
  BY <1>3, SameWorld DEF RInv, CallOK
<1>5. \A d \in R!Goroutines \ {c} : left'[d] = left[d]
  BY <1>1 DEF RInv, CallsTypeOK, R!ResolverTypeOK
<1> QED BY <1>2, <1>4, <1>5, OneCall

\* The first candidate with a route is the answer.
LEMMA FoundKeeps ==
  ASSUME RInv, NEW c \in R!Goroutines, R!Found(c)
  PROVE  RInv'
<1> USE DEF R!Found
<1>1. /\ R!First(left[c]) \in left[c] /\ \A j \in left[c] : R!First(left[c]) <= j
      /\ R!First(left[c]) \in R!Candidates /\ R!Candidate(c) \in R!Names
      /\ R!Candidate(c) = R!Items[R!First(left[c])].name
  BY NextAsked
<1>2. CallsTypeOK'
  BY SameWorld DEF RInv, CallsTypeOK, R!ResolverTypeOK
<1>3. at'[c] = "store" /\ result'[c] = R!Candidate(c)
  BY DEF RInv, CallsTypeOK, R!ResolverTypeOK
<1>4. CallOK(c)'
  BY <1>1, <1>3, SameWorld DEF RInv, CallOK
<1>5. ASSUME ~moved', ~failed' PROVE CacheOK' /\ StillOK(c)'
  <2>1. CacheOK /\ StillOK(c)
    BY <1>5 DEF RInv
  <2>2. IsBest(asked[c].address, R!Candidate(c))
    BY <1>1, <2>1 DEF StillOK, IsBest
  <2>3. StillOK(c)'
    BY <1>3, <2>2, SameWorld DEF StillOK
  <2> QED BY <2>1, <2>3, SameCache
<1>6. \A d \in R!Goroutines \ {c} : at'[d] = at[d] /\ result'[d] = result[d]
  BY DEF RInv, CallsTypeOK, R!ResolverTypeOK
<1> QED BY <1>2, <1>4, <1>5, <1>6, OneCall

\* What is stored is right for the address it is stored for.
LEMMA StoreKeeps ==
  ASSUME RInv, NEW c \in R!Goroutines, R!Store(c)
  PROVE  RInv'
<1> USE DEF R!Store
<1>1. asked[c].address \in Addresses /\ result[c] \in R!Names
      /\ ~R!Decided(asked[c]) /\ R!Detects(asked[c])
  BY DEF RInv, CallOK
<1>2. CallsTypeOK'
  BY <1>1, SameWorld DEF RInv, CallsTypeOK, R!ResolverTypeOK
<1>3. at'[c] = "done"
  BY DEF RInv, CallsTypeOK, R!ResolverTypeOK
<1>4. CallOK(c)'
  BY <1>3, SameWorld DEF RInv, CallOK
<1>5. ASSUME ~moved', ~failed' PROVE CacheOK' /\ StillOK(c)'
  <2>1. CacheOK /\ IsBest(asked[c].address, result[c])
    BY <1>5 DEF RInv, StillOK
  <2>2. \A a \in Addresses : routeCache'[a] # "" => IsBest(a, routeCache'[a])
    BY <2>1 DEF CacheOK, RInv, CallsTypeOK, R!ResolverTypeOK
  <2>3. CacheOK'
    BY <2>2, SameWorld DEF CacheOK
  <2>4. result[c] = R!Expected(asked[c])
    BY <1>1, <2>1, BestIsExpected DEF RInv, CallsTypeOK
  <2>5. StillOK(c)'
    BY <1>3, <2>4, SameWorld DEF StillOK
  <2> QED BY <2>3, <2>5
<1>6. \A d \in R!Goroutines \ {c} : at'[d] = at[d]
  BY DEF RInv, CallsTypeOK, R!ResolverTypeOK
<1> QED BY <1>2, <1>4, <1>5, <1>6, OneCall

\* Only when no candidate has a route is it the default.
LEMMA DefaultKeeps ==
  ASSUME RInv, NEW c \in R!Goroutines, R!Default(c)
  PROVE  RInv'
<1> USE DEF R!Default
<1>1. CallsTypeOK'
  BY SameWorld DEF RInv, CallsTypeOK, R!ResolverTypeOK
<1>2. at'[c] = "done" /\ result'[c] = config.default
  BY DEF RInv, CallsTypeOK, R!ResolverTypeOK
<1>3. CallOK(c)'
  BY <1>2, SameWorld DEF RInv, CallOK
<1>4. ASSUME ~moved', ~failed' PROVE CacheOK' /\ StillOK(c)'
  <2>1. CacheOK /\ StillOK(c) /\ ~R!Decided(asked[c])
    BY <1>4 DEF RInv, CallOK
  <2>2. R!Expected(asked[c]) = config.default
    BY <2>1, NoneIsDefault DEF StillOK
  <2>3. StillOK(c)'
    BY <1>2, <2>2, SameWorld DEF StillOK
  <2> QED BY <2>1, <2>3, SameCache
<1>5. \A d \in R!Goroutines \ {c} : at'[d] = at[d] /\ result'[d] = result[d]
  BY DEF RInv, CallsTypeOK, R!ResolverTypeOK
<1> QED BY <1>1, <1>3, <1>4, <1>5, OneCall

\* A call that has returned leaves nothing behind.
LEMMA ReturnKeeps ==
  ASSUME RInv, NEW c \in R!Goroutines, R!Return(c)
  PROVE  RInv'
<1> USE DEF R!Return
<1>1. CallsTypeOK'
  BY SameWorld DEF RInv, CallsTypeOK, R!ResolverTypeOK
<1>2. at'[c] = "idle" /\ left'[c] = {} /\ through'[c] = {} /\ c \notin lost'
  BY DEF RInv, CallsTypeOK, R!ResolverTypeOK
<1>3. CallOK(c)'
  BY <1>2 DEF CallOK
<1>4. ASSUME ~moved', ~failed' PROVE CacheOK' /\ StillOK(c)'
  BY <1>2, <1>4, SameCache DEF RInv, StillOK
<1>5. \A d \in R!Goroutines \ {c} :
        /\ at'[d] = at[d] /\ asked'[d] = asked[d] /\ left'[d] = left[d]
        /\ result'[d] = result[d] /\ through'[d] = through[d] /\ (d \in lost' <=> d \in lost)
  BY DEF RInv, CallsTypeOK, R!ResolverTypeOK
<1> QED BY <1>1, <1>3, <1>4, <1>5, OneCall

\* A route that moves leaves the calls nothing that is routed no more.
LEMMA RoutesChangeKeeps ==
  ASSUME RInv, R!RoutesChange
  PROVE  RInv'
<1> USE DEF R!RoutesChange
<1>1. routes' \in SUBSET (R!Names \X Addresses)
  BY DEF RInv, CallsTypeOK, R!ResolverTypeOK
<1>2. \A c \in R!Goroutines : through'[c] = {n \in through[c] : <<n, asked[c].address>> \in routes'}
  OBVIOUS
<1>3. CallsTypeOK'
  BY <1>1, SameWorld DEF RInv, CallsTypeOK, R!ResolverTypeOK
<1>4. ASSUME NEW c \in R!Goroutines PROVE CallOK(c)'
  <2>1. CallOK(c) /\ through[c] \subseteq R!Names
    BY DEF RInv, CallsTypeOK
  <2>2. (through[c] \subseteq R!Routed(asked[c].address))'
    BY <1>2, <2>1, SameWorld DEF R!Routed
  <2> QED BY <1>2, <2>1, <2>2, SameWorld DEF CallOK
<1> QED BY <1>3, <1>4 DEF RInv

\* Every step of the resolver keeps the invariant.
LEMMA RStep == RInv /\ R!Next => RInv'
  BY ResolveKeeps, NotRoutedKeeps, CommandFailsKeeps, FoundKeeps, StoreKeeps, DefaultKeeps,
     ReturnKeeps, RoutesChangeKeeps DEF R!Next, R!CallStep

\* Both properties of the resolver follow.
LEMMA RImplies == RInv => R!CacheIsTransparent /\ R!DefaultMissesNothing
<1> SUFFICES ASSUME RInv PROVE R!CacheIsTransparent /\ R!DefaultMissesNothing
  OBVIOUS
<1>1. R!CacheIsTransparent
  BY DEF RInv, StillOK, R!CacheIsTransparent
<1>2. ASSUME NEW c \in R!Goroutines, at[c] = "ask", left[c] = {}, c \notin lost
      PROVE  through[c] = {}
  BY <1>2 DEF RInv, CallOK
<1> QED BY <1>1, <1>2 DEF R!DefaultMissesNothing

(***************************************************************************)
(* The package a behaviour is about keeps its invariant.                   *)
(***************************************************************************)
IInv == /\ kind \in {"resolver", "endpoint", "relabel", "ports"}
        /\ kind = "resolver" => RInv
        /\ kind = "endpoint" => EInv
        /\ kind = "relabel" => MInv
        /\ kind = "ports" => PInv

\* A step of another package, or of none.
LEMMA Stutter ==
  /\ RInv /\ UNCHANGED resolverVars => RInv'
  /\ EInv /\ UNCHANGED endpointVars => EInv'
  /\ MInv /\ UNCHANGED relabelVars => MInv'
  /\ PInv /\ UNCHANGED portVars => PInv'
<1>1. ASSUME RInv, UNCHANGED resolverVars PROVE RInv'
  <2> USE <1>1 DEF resolverVars
  <2>1. CallsTypeOK'
    BY SameWorld DEF RInv, CallsTypeOK, R!ResolverTypeOK
  <2>2. \A c \in R!Goroutines : CallOK(c)'
    BY SameWorld DEF RInv, CallOK
  <2>3. ASSUME ~moved', ~failed' PROVE CacheOK' /\ \A c \in R!Goroutines : StillOK(c)'
    BY <2>3, SameCache, SameWorld DEF RInv, StillOK
  <2> QED BY <2>1, <2>2, <2>3 DEF RInv
<1>2. EInv /\ UNCHANGED endpointVars => EInv'
  BY DEF EInv, endpointVars
<1>3. ASSUME MInv, UNCHANGED relabelVars PROVE MInv'
  <2> USE <1>3 DEF relabelVars
  <2>1. M!AllOrNothing'
    BY AllWritten DEF MInv
  <2> QED BY <2>1 DEF MInv, ResultsOK, Owned, M!Samples, M!SeriesApart
<1>4. PInv /\ UNCHANGED portVars => PInv'
  BY DEF PInv, portVars, P!PortsTypeOK, P!MapsAgree, P!RefusedOnlyIfFull, P!Range
<1> QED BY <1>1, <1>2, <1>3, <1>4

\* The invariant of the package holds in every behaviour.
THEOREM Invariance == Spec => []IInv
<1>1. Init => IInv
  BY RInit, EStep, MInit, PInit DEF Init, IInv
<1>2. IInv /\ [Next]_vars => IInv'
  <2> SUFFICES ASSUME IInv, [Next]_vars PROVE IInv'
    OBVIOUS
  <2>1. CASE ResolverNext(R!Next)
    BY <2>1, RStep DEF ResolverNext, IInv
  <2>2. CASE kind = "endpoint" /\ E!Next /\ UNCHANGED <<kind, resolverVars, relabelVars, portVars>>
    BY <2>2, EStep DEF IInv
  <2>3. CASE kind = "relabel" /\ M!Next /\ UNCHANGED <<kind, resolverVars, endpointVars, portVars>>
    BY <2>3, MStep DEF IInv
  <2>4. CASE kind = "ports" /\ P!Next /\ UNCHANGED <<kind, resolverVars, endpointVars, relabelVars>>
    BY <2>4, PStep DEF IInv
  <2>5. CASE UNCHANGED vars
    BY <2>5, Stutter DEF vars, IInv
  <2> QED BY <2>1, <2>2, <2>3, <2>4, <2>5 DEF Next
<1> QED BY <1>1, <1>2, PTL DEF Spec

\* Every variable of the package keeps its type, and /metrics counts every result.
THEOREM TypeCorrect == Spec => []TypeOK
<1>1. MInv => M!RelabelTypeOK
  <2> SUFFICES ASSUME MInv PROVE M!RelabelTypeOK
    OBVIOUS
  <2>1. Len(results) = MaxResults
    BY UtilitiesAssumption DEF MInv, ResultsOK
  <2> QED BY <2>1 DEF MInv, M!RelabelTypeOK
<1>2. IInv => TypeOK
  BY <1>1 DEF IInv, RInv, CallsTypeOK, PInv, TypeOK
<1> QED BY <1>2, Invariance, PTL

\* Whatever the two goroutines ask and store, as long as no route moves and no
\* command fails an answer is what the rules give (resolver.go 158-177).
THEOREM CacheIsTransparentHolds == Spec => []CacheIsTransparent
<1>1. IInv => CacheIsTransparent
  BY RImplies DEF IInv, CacheIsTransparent
<1> QED BY <1>1, Invariance, PTL

\* A target to which a candidate has had a route throughout a call in which no
\* command failed does not get the default (resolver.go 167-182).
THEOREM DefaultMissesNothingHolds == Spec => []DefaultMissesNothing
<1>1. IInv => DefaultMissesNothing
  BY RImplies DEF IInv, DefaultMissesNothing
<1> QED BY <1>1, Invariance, PTL

\* Of an endpoint with any number of pieces one of its readings is kept, and
\* what has been normalized is normalized (netutil.go 131-158).
THEOREM NormalizationIsSoundHolds == Spec => []NormalizationIsSound
<1>1. IInv => NormalizationIsSound
  BY EImplies DEF IInv, NormalizationIsSound
<1> QED BY <1>1, Invariance, PTL

\* No series of one exporter is taken for that of another (server.go 145-149).
THEOREM SeriesApartHolds == Spec => []SeriesApart
<1>1. IInv => SeriesApart
  BY DEF IInv, MInv, SeriesApart
<1> QED BY <1>1, Invariance, PTL

\* The samples of an exporter are in the body all or not at all, however many
\* lines its answer has and whatever the others answered (relabel.go 131-133,
\* server.go 130-154).
THEOREM AllOrNothingHolds == Spec => []AllOrNothing
<1>1. IInv => AllOrNothing
  BY DEF IInv, MInv, AllOrNothing
<1> QED BY <1>1, Invariance, PTL

\* The two maps of the allocator agree, and no target is refused a port while
\* one is free (allocator.go 54-82).
THEOREM PortsAreExactHolds == Spec => []PortsAreExact
<1>1. IInv => PortsAreExact
  BY DEF IInv, PInv, PortsAreExact
<1> QED BY <1>1, Invariance, PTL
=============================================================================
