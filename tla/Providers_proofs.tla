-------------------------- MODULE Providers_proofs --------------------------
(***************************************************************************)
(* Theorems about the scans of the polling providers, for every number of  *)
(* domains, files and servers: what may be relied on although the world    *)
(* changes between the steps of a scan.                                    *)
(***************************************************************************)
EXTENDS Providers, TLAPS

(***************************************************************************)
(* Libvirt.  What has been true ever since the scan began is true now; a   *)
(* domain the scan is bound to see is found, or still to be asked about.   *)
(***************************************************************************)
ByVirsh == {"domains", "agent", "lease", "sendvirsh"}
ByFiles == {"runfiles", "etc", "etcfiles", "sendfiles"}
Asked   == {"agent", "lease"}

AskedUsesIP == phase \in Asked => L!UsesIP(at)

\* The virsh scan has found d, or will still ask the source that knows it.
Pending(d) == \/ d \in L!FoundDomains
              \/ phase \in {"domains", "agent", "lease"} /\ d \in todo
              \/ phase = "agent" /\ at = d
              \/ phase = "lease" /\ at = d /\ <<d, "agent">> \notin steady

VirshSees == phase \in ByVirsh => \A d \in Domains : L!SeenByVirsh(d) => Pending(d)

FilesSee == phase \in ByFiles =>
              \A d \in Domains : L!SeenByFiles(d) =>
                d \in L!FoundDomains \/ (phase = "runfiles" /\ d \in todo)

VirshRan == phase \in ByVirsh => /\ L!FoundDomains \subseteq ran /\ todo \subseteq ran
                                 /\ phase \in Asked => at \in ran

LInv == /\ L!TypeOK /\ steady \subseteq L!Now /\ AskedUsesIP
        /\ VirshSees /\ FilesSee /\ VirshRan

\* The constants of the libvirt provider.
LEMMA DomainsAreDefined == Persistent \subseteq Domains
  BY LibvirtAssumption DEF L!DomainsAssumption

\* The invariant of a provider that has not scanned yet.
LEMMA LInit == L!Init => LInv
<1> SUFFICES ASSUME L!Init PROVE LInv
  OBVIOUS
<1>1. L!TypeOK
  BY DEF L!Init, L!TypeOK, L!Facts
<1>2. AskedUsesIP /\ VirshSees /\ FilesSee /\ VirshRan
  BY DEF L!Init, AskedUsesIP, VirshSees, FilesSee, VirshRan, Asked, ByVirsh, ByFiles
<1> QED BY <1>1, <1>2 DEF LInv, L!Init

\* Now is a set of facts, and says of a domain that it runs if it does.
LEMMA NowFacts ==
  ASSUME L!TypeOK
  PROVE  /\ L!Now \subseteq L!Facts
         /\ \A d \in Domains : <<d, "run">> \in L!Now => d \in running
         /\ \A d \in Domains : <<d, "virsh">> \in L!Now => virsh
         /\ \A d \in Domains : <<d, "xml">> \in L!Now => d \notin broken
         /\ \A d \in Domains, s \in L!Sources : <<d, s>> \in L!Now => <<d, s>> \in address
  BY LibvirtAssumption DEF L!DomainsAssumption, L!TypeOK, L!Now, L!Facts, L!Sources

\* What the host does in the middle of a scan takes nothing from its promise.
LEMMA HostStep == ASSUME LInv, L!Host PROVE LInv'
<1> USE DEF LInv, L!Host
<1>1. /\ running' \in SUBSET Domains /\ virsh' \in BOOLEAN /\ broken' \in SUBSET GetVsockCID
      /\ address' \in SUBSET (Domains \X L!Sources)
  BY DEF L!WorldChange, L!TypeOK
<1>2. L!TypeOK' /\ (steady \subseteq L!Now)'
  BY <1>1 DEF L!TypeOK, L!Facts, L!Now
<1>3. steady' \subseteq steady /\ ran \subseteq ran' /\ (L!FoundDomains)' = L!FoundDomains
  BY DEF L!FoundDomains
<1>4. AskedUsesIP' /\ VirshRan'
  BY <1>3 DEF AskedUsesIP, VirshRan, L!UsesIP, L!UsesVsock
<1>5. VirshSees'
  <2> SUFFICES ASSUME phase \in ByVirsh, NEW d \in Domains, L!SeenByVirsh(d)' PROVE Pending(d)'
    BY DEF VirshSees
  <2>1. L!SeenByVirsh(d)
    BY <1>3 DEF L!SeenByVirsh, L!UsesIP, L!UsesVsock, L!Wanted
  <2>2. Pending(d)
    BY <2>1 DEF VirshSees
  <2> QED BY <1>3, <2>2 DEF Pending
<1>6. FilesSee'
  BY <1>3 DEF FilesSee, L!SeenByFiles, L!Wanted
<1> QED BY <1>2, <1>4, <1>5, <1>6

\* A scan that begins sees the domains that run.
LEMMA BeginStep == ASSUME LInv, L!ListRunning \/ L!ReadRunDir PROVE LInv'
<1> USE DEF LInv, L!ListRunning, L!ReadRunDir, L!NewScan
<1>1. L!TypeOK' /\ (steady \subseteq L!Now)'
  <2>1. UNCHANGED <<running, virsh, broken, address, at, report>>
    BY DEF L!world
  <2>2. L!Now' = L!Now
    BY <2>1 DEF L!Now
  <2>3. /\ phase' \in {"domains", "runfiles"}
        /\ todo' = running /\ found' = {} /\ steady' = L!Now /\ ran' = running
    OBVIOUS
  <2>4. L!TypeOK
    OBVIOUS
  <2> QED BY ONLY <2>1, <2>2, <2>3, <2>4, NowFacts DEF L!TypeOK, L!VirshSteps, L!FileSteps
<1>2. (L!FoundDomains)' = {}
  BY DEF L!FoundDomains
<1>3. AskedUsesIP' /\ VirshRan'
  BY <1>2 DEF AskedUsesIP, VirshRan, Asked, ByVirsh
<1>4. /\ phase' \in {"domains", "runfiles"} /\ todo' = running
      /\ \A d \in Domains : <<d, "run">> \in steady' => d \in running
  BY NowFacts
<1>5. VirshSees' /\ FilesSee'
  BY ONLY <1>4 DEF VirshSees, FilesSee, ByVirsh, ByFiles, Pending, L!SeenByVirsh, L!SeenByFiles
<1> QED BY <1>1, <1>3, <1>5

\* The XML decides whether a listed domain is skipped, found or asked about.
LEMMA DumpStep == ASSUME LInv, NEW d \in Domains, L!DumpXML(d) PROVE LInv'
<1> USE DEF LInv, L!DumpXML
<1>1. L!Now' = L!Now /\ UNCHANGED <<running, virsh, broken, address, report, steady, ran>>
  BY DEF L!world, L!history, L!Now
<1>2. L!TypeOK' /\ (steady \subseteq L!Now)'
  BY <1>1 DEF L!TypeOK, L!VirshSteps
<1>3. (L!FoundDomains)' = L!FoundDomains \/ (L!FoundDomains)' = L!FoundDomains \cup {d}
  BY DEF L!FoundDomains
<1>4. AskedUsesIP' /\ FilesSee'
  BY <1>1 DEF AskedUsesIP, Asked, FilesSee, ByFiles, L!UsesIP, L!UsesVsock
<1>5. VirshRan'
  BY <1>1, <1>3 DEF VirshRan, ByVirsh, Asked
<1>6. VirshSees'
  <2> SUFFICES ASSUME NEW e \in Domains, L!SeenByVirsh(e)' PROVE Pending(e)'
    BY DEF VirshSees
  <2>1. L!SeenByVirsh(e)
    BY <1>1 DEF L!SeenByVirsh, L!UsesIP, L!UsesVsock, L!Wanted
  <2>2. e \in L!FoundDomains \/ e \in todo
    BY <2>1 DEF VirshSees, ByVirsh, Pending
  <2>3. CASE e \in L!FoundDomains \/ e # d
    BY <1>3, <2>2, <2>3 DEF Pending
  <2>4. CASE e = d
    <3>1. /\ virsh /\ d \in running
          /\ L!Wanted(d) /\ (L!UsesVsock(d) \/ L!UsesIP(d))
      BY <2>1, <2>4, NowFacts DEF L!SeenByVirsh
    <3>2. L!HasXML(d)
      BY <3>1 DEF L!HasXML
    <3>3. <<d, "vsock">> \in found' \/ (phase' = "agent" /\ at' = d)
      <4>1. CASE L!UsesVsock(d)
        BY <3>1, <3>2, <4>1 DEF L!UsesIP
      <4>2. CASE L!UsesIP(d)
        BY <3>1, <3>2, <4>2 DEF L!UsesIP
      <4> QED BY <3>1, <4>1, <4>2
    <3>4. <<d, "vsock">> \in found' => d \in (L!FoundDomains)'
      BY ONLY TRUE DEF L!FoundDomains
    <3> QED BY ONLY <2>4, <3>3, <3>4 DEF Pending
  <2> QED BY <2>3, <2>4
<1> QED BY <1>2, <1>4, <1>5, <1>6

\* An address the scan is bound to see is found at one source or the other.
LEMMA AskStep == ASSUME LInv, L!AskAgent \/ L!AskLease PROVE LInv'
<1> USE DEF LInv, L!AskAgent, L!AskLease, L!Keep
<1>1. L!Now' = L!Now /\ UNCHANGED <<running, virsh, broken, address, report, steady, ran, todo, at>>
  BY DEF L!world, L!history, L!Now
<1>2. L!TypeOK' /\ (steady \subseteq L!Now)'
  BY <1>1 DEF L!TypeOK, L!VirshSteps
<1>3. /\ L!FoundDomains \subseteq (L!FoundDomains)'
      /\ (L!FoundDomains)' \subseteq L!FoundDomains \cup {at}
  BY DEF L!FoundDomains
<1>4. AskedUsesIP' /\ FilesSee'
  BY <1>1 DEF AskedUsesIP, Asked, FilesSee, ByFiles, L!UsesIP, L!UsesVsock
<1>5. VirshRan'
  BY <1>1, <1>3 DEF VirshRan, ByVirsh, Asked
<1>6. VirshSees'
  <2> SUFFICES ASSUME NEW d \in Domains, L!SeenByVirsh(d)' PROVE Pending(d)'
    BY DEF VirshSees
  <2>1. L!SeenByVirsh(d)
    BY <1>1 DEF L!SeenByVirsh, L!UsesIP, L!UsesVsock, L!Wanted
  <2>2. Pending(d)
    BY <2>1 DEF VirshSees, ByVirsh
  <2>3. CASE d # at \/ d \in L!FoundDomains
    BY <1>1, <1>3, <2>2, <2>3 DEF Pending
  <2>4. CASE d = at
    <3>1. L!UsesIP(d) /\ ~L!UsesVsock(d)
      BY <2>4 DEF AskedUsesIP, Asked, L!UsesIP
    <3>2. /\ virsh /\ d \in running
          /\ \E s \in L!Sources : <<d, s>> \in steady /\ <<d, s>> \in address
      BY <2>1, <3>1, NowFacts DEF L!SeenByVirsh
    <3>3. <<d, "agent">> \in steady => L!Finds("agent")
      BY <2>4, <3>2, NowFacts DEF L!Finds, L!Sources
    <3>4. <<d, "lease">> \in steady => L!Finds("lease")
      BY <2>4, <3>2, NowFacts DEF L!Finds, L!Sources
    <3>5. <<at, "ip">> \in found' => d \in (L!FoundDomains)'
      BY <2>4 DEF L!FoundDomains
    <3>6. CASE phase = "agent"
      BY <1>1, <2>4, <3>3, <3>5, <3>6 DEF Pending
    <3>7. CASE phase = "lease" /\ d \notin L!FoundDomains /\ d \notin todo
      <4>1. <<d, "lease">> \in steady
        BY <2>2, <3>2, <3>7 DEF Pending, L!Sources
      <4> QED BY <3>4, <3>5, <3>7, <4>1 DEF Pending
    <3>8. CASE phase = "lease" /\ (d \in L!FoundDomains \/ d \in todo)
      BY <1>1, <1>3, <3>8 DEF Pending
    <3> QED BY <3>6, <3>7, <3>8
  <2> QED BY <2>3, <2>4
<1> QED BY <1>2, <1>4, <1>5, <1>6

\* The XML file of a domain that runs is there, and is read unless it is broken.
LEMMA ReadStep == ASSUME LInv, NEW d \in Domains, L!ReadXML(d) PROVE LInv'
<1> USE DEF LInv, L!ReadXML
<1>1. L!Now' = L!Now /\ UNCHANGED <<running, virsh, broken, address, report, steady, ran, phase, at>>
  BY DEF L!world, L!history, L!Now
<1>2. L!TypeOK' /\ (steady \subseteq L!Now)'
  BY <1>1 DEF L!TypeOK
<1>3. L!FoundDomains \subseteq (L!FoundDomains)'
  BY DEF L!FoundDomains
<1>4. AskedUsesIP' /\ VirshSees' /\ VirshRan'
  BY <1>1 DEF AskedUsesIP, Asked, VirshSees, VirshRan, ByVirsh
<1>5. FilesSee'
  <2> SUFFICES ASSUME NEW e \in Domains, L!SeenByFiles(e)'
               PROVE  e \in (L!FoundDomains)' \/ (phase' = "runfiles" /\ e \in todo')
    BY DEF FilesSee
  <2>1. L!SeenByFiles(e) /\ e \in running \ broken
    BY <1>1, NowFacts DEF L!SeenByFiles, L!Wanted
  <2>2. e \in L!FoundDomains \/ (phase = "runfiles" /\ e \in todo)
    BY <2>1 DEF FilesSee, ByFiles
  <2>3. todo' = todo \ {d} /\ phase' = phase
    BY <1>1
  <2>4. CASE e = d /\ phase = "runfiles"
    <3>1. <<e, "vsock">> \in found'
      BY <2>1, <2>4 DEF L!SeenByFiles, L!Readable
    <3> QED BY ONLY <3>1 DEF L!FoundDomains
  <2>5. CASE e # d \/ phase # "runfiles"
    BY ONLY <1>3, <2>2, <2>3, <2>5
  <2> QED BY ONLY <2>4, <2>5
<1> QED BY <1>2, <1>4, <1>5

\* The steps between the commands, and the end of the provider.
LEMMA QuietStep ==
  ASSUME LInv, L!ListDone \/ L!ReadEtcDir \/ L!DirDone \/ L!Send \/ L!Quit \/ UNCHANGED L!vars
  PROVE  LInv'
<1> USE DEF LInv, L!ListDone, L!ReadEtcDir, L!DirDone, L!Send, L!Quit, L!vars
<1>1. L!Now' = L!Now /\ UNCHANGED <<running, virsh, broken, address, steady, ran, found, at>>
  BY DEF L!world, L!history, L!Now
<1>2. \/ phase' = phase /\ todo' = todo
      \/ phase = "domains" /\ todo = {} /\ phase' = "sendvirsh" /\ todo' = todo
      \/ phase = "runfiles" /\ todo = {} /\ phase' = "etc"
      \/ phase = "etc" /\ phase' = "etcfiles"
      \/ phase = "etcfiles" /\ phase' = "sendfiles"
      \/ phase' \in {"wait", "stopped"}
  BY DEF L!Sending
<1>3. L!TypeOK' /\ (steady \subseteq L!Now)'
  BY <1>1, DomainsAreDefined DEF L!TypeOK, L!FileSteps, L!VirshSteps, L!Sending
<1>4. (L!FoundDomains)' = L!FoundDomains
  BY <1>1 DEF L!FoundDomains
<1>5. AskedUsesIP'
  BY <1>1, <1>2 DEF AskedUsesIP, Asked, L!UsesIP, L!UsesVsock
<1>6. VirshSees'
  BY <1>1, <1>2, <1>4 DEF VirshSees, ByVirsh, Pending, L!SeenByVirsh, L!UsesIP, L!UsesVsock, L!Wanted
<1>7. FilesSee' /\ VirshRan'
  BY <1>1, <1>2, <1>4 DEF FilesSee, ByFiles, VirshRan, ByVirsh, Asked, L!SeenByFiles, L!Wanted
<1> QED BY <1>3, <1>5, <1>6, <1>7

\* Every step of the libvirt provider and of its host preserves the invariant.
LEMMA LStep == LInv /\ [L!Next]_(L!vars) => LInv'
  BY HostStep, BeginStep, DumpStep, AskStep, ReadStep, QuietStep DEF L!Next, L!Scan

(***************************************************************************)
(* File.  Every entry that has been in its file all along is found, or its *)
(* file is still to be read; what is found was in some file meanwhile.     *)
(***************************************************************************)
FilesCover == phase \in {"files", "send"} =>
                /\ \A p \in steady : p[2] \in found \/ (phase = "files" /\ p[1] \in todo)
                /\ found \subseteq ran /\ F!Shown \subseteq ran

FInv == F!TypeOK /\ steady \subseteq F!Pairs /\ FilesCover

\* A file that is there and is not empty shows its ids.
LEMMA ParsedIsShown ==
  ASSUME F!TypeOK, NEW f \in F!FileNames
  PROVE  /\ F!Parsed(f) \subseteq F!Shown /\ F!Parsed(f) \subseteq Ids
         /\ \A p \in F!Pairs : p[1] = f => p[2] \in F!Parsed(f)
<1>1. ASSUME NEW id \in F!Parsed(f) PROVE id \in F!Shown /\ id \in Ids
  <2>1. directory /\ id \in content[f] /\ id \in Ids
    BY <1>1 DEF F!Parsed, F!TypeOK
  <2>2. <<f, id>> \in F!Pairs
    BY <2>1 DEF F!Pairs
  <2> QED BY <2>1, <2>2 DEF F!Shown
<1>2. \A p \in F!Pairs : p[1] = f => p[2] \in F!Parsed(f)
  BY DEF F!Pairs, F!Parsed
<1> QED BY <1>1, <1>2

\* Whoever edits the files, and every step of the scan, preserves the invariant.
LEMMA FStep == FInv /\ [F!Next]_(F!vars) => FInv'
<1> SUFFICES ASSUME FInv, [F!Next]_(F!vars) PROVE FInv'
  OBVIOUS
<1> USE DEF FInv
<1>1. CASE F!Edit
  <2>1. directory' \in BOOLEAN /\ content' \in [F!FileNames -> SUBSET Ids]
    BY <1>1 DEF F!Edit, F!TypeOK
  <2>2. /\ steady' = steady \cap F!Pairs' /\ ran' = ran \cup F!Shown'
        /\ UNCHANGED <<phase, todo, found, report>>
    BY <1>1 DEF F!Edit
  <2>3. F!Shown' \subseteq Ids
    BY DEF F!Shown, F!Pairs
  <2> QED BY <2>1, <2>2, <2>3 DEF F!TypeOK, FilesCover
<1>2. CASE F!ReadDir
  <2>1. /\ UNCHANGED <<directory, content, report>> /\ todo' \in SUBSET F!FileNames
        /\ phase' = "files" /\ found' = {} /\ steady' = F!Pairs /\ ran' = F!Shown
        /\ \A f \in F!FileNames : content[f] # {} => f \in todo'
    BY <1>2 DEF F!ReadDir
  <2>2. F!Pairs' = F!Pairs /\ F!Shown' = F!Shown
    BY <2>1 DEF F!Pairs, F!Shown
  <2>3. F!Pairs \subseteq F!FileNames \X Ids /\ F!Shown \subseteq Ids
    BY DEF F!Pairs, F!Shown
  <2>4. \A p \in F!Pairs : p[1] \in todo'
    BY <2>1 DEF F!Pairs
  <2> QED BY <2>1, <2>2, <2>3, <2>4 DEF F!TypeOK, FilesCover
<1>3. CASE F!ReadFile
  <2>1. PICK f \in F!FileNames : todo' = todo \ {f} /\ found' = found \cup F!Parsed(f)
    BY <1>3 DEF F!ReadFile
  <2>2. phase = "files" /\ UNCHANGED <<directory, content, phase, report, steady, ran>>
    BY <1>3 DEF F!ReadFile
  <2>3. F!Pairs' = F!Pairs /\ F!Shown' = F!Shown
    BY <2>2 DEF F!Pairs, F!Shown
  <2> QED BY <2>1, <2>2, <2>3, ParsedIsShown DEF F!TypeOK, FilesCover
<1>4. CASE F!FilesDone \/ F!Send \/ F!Quit \/ UNCHANGED F!vars
  <2>1. UNCHANGED <<directory, content, todo, found, steady, ran>>
    BY <1>4 DEF F!FilesDone, F!Send, F!Quit, F!vars
  <2>2. /\ report' \in {report, found}
        /\ \/ phase' = phase
           \/ phase = "files" /\ todo = {} /\ phase' = "send"
           \/ phase' \in {"wait", "stopped"}
    BY <1>4 DEF F!FilesDone, F!Send, F!Quit, F!vars
  <2>3. F!Pairs' = F!Pairs /\ F!Shown' = F!Shown
    BY <2>1 DEF F!Pairs, F!Shown
  <2> QED BY <2>1, <2>2, <2>3 DEF F!TypeOK, FilesCover
<1> QED BY <1>1, <1>2, <1>3, <1>4 DEF F!Next, F!Scan

(***************************************************************************)
(* Nova.  The servers Nova has known of all along are in the answer.       *)
(***************************************************************************)
NInv == /\ N!TypeOK
        /\ steady \subseteq N!IdsOf(active)
        /\ phase = "send" => steady \subseteq N!IdsOf(found)

\* The ids of targets are servers.
LEMMA IdsAreServers == \A S \in SUBSET N!Targets : N!IdsOf(S) \in SUBSET Servers
  BY DEF N!IdsOf, N!Targets

\* Every step of the provider, of OpenStack and of the clock preserves the invariant.
LEMMA NStep == NInv /\ [N!Next]_(N!vars) => NInv'
<1> SUFFICES ASSUME NInv, [N!Next]_(N!vars) PROVE NInv'
  OBVIOUS
<1> USE DEF NInv
<1>0. TokenLife \in Nat /\ 0 \in 0 .. TokenLife
  BY NovaAssumption DEF N!LifeAssumption
<1>1. CASE N!Cloud
  <2>1. /\ active' \in SUBSET N!Targets /\ nova' \in BOOLEAN /\ keystone' \in BOOLEAN
        /\ steady' = steady \cap N!IdsOf(active')
        /\ UNCHANGED <<token, age, phase, found, report>>
    BY <1>1 DEF N!Cloud, N!TypeOK
  <2>2. N!IdsOf(active') = N!IdsOf(active)'
    BY DEF N!IdsOf
  <2>3. UNCHANGED N!IdsOf(found)
    BY <2>1 DEF N!IdsOf
  <2> QED BY <2>1, <2>2, <2>3 DEF N!TypeOK
<1>2. CASE N!Answered
  <2>1. /\ found' \in SUBSET active /\ N!IdsOf(found') = N!IdsOf(active)
        /\ phase' = "send" /\ UNCHANGED <<active, nova, keystone, token, age, report, steady>>
    BY <1>2 DEF N!Answered, N!Choices, N!world
  <2>2. N!IdsOf(found') = N!IdsOf(found)' /\ UNCHANGED N!IdsOf(active)
    BY <2>1 DEF N!IdsOf
  <2> QED BY <2>1, <2>2 DEF N!TypeOK
<1>3. CASE N!Send
  <2>1. /\ report' = found /\ steady' = N!IdsOf(active) /\ phase' = "wait"
        /\ UNCHANGED <<active, nova, keystone, token, age, found>>
    BY <1>3 DEF N!Send, N!world
  <2>2. UNCHANGED N!IdsOf(active) /\ N!IdsOf(active) \in SUBSET Servers
    BY <2>1, IdsAreServers DEF N!IdsOf, N!TypeOK
  <2> QED BY <2>1, <2>2 DEF N!TypeOK
<1>4. CASE N!Revoke \/ N!Tick \/ N!UseToken \/ N!NewToken \/ N!Refused \/ N!Quit \/ UNCHANGED N!vars
  <2>1. UNCHANGED <<active, nova, keystone, found, report, steady>>
    BY <1>4 DEF N!Revoke, N!Tick, N!UseToken, N!NewToken, N!Refused, N!Quit, N!vars, N!world
  <2>2. UNCHANGED N!IdsOf(active) /\ UNCHANGED N!IdsOf(found)
    BY <2>1 DEF N!IdsOf
  <2>3. phase' = phase \/ phase' \in {"wait", "request", "stopped"}
    BY <1>4 DEF N!Revoke, N!Tick, N!UseToken, N!NewToken, N!Refused, N!Quit, N!vars
  <2>4. token' = token \/ token' \in {"good", "revoked"}
    BY <1>4 DEF N!Revoke, N!Tick, N!UseToken, N!NewToken, N!Refused, N!Quit, N!vars
  <2>5. age' \in 0 .. TokenLife
    <3>1. age \in 0 .. TokenLife
      BY DEF N!TypeOK
    <3>2. age' \in {age, 0} \/ (age < TokenLife /\ age' = age + 1)
      BY <1>4 DEF N!Revoke, N!Tick, N!UseToken, N!NewToken, N!Refused, N!Quit, N!vars
    <3> QED BY ONLY <1>0, <3>1, <3>2
  <2> QED BY <2>1, <2>2, <2>3, <2>4, <2>5 DEF N!TypeOK
<1> QED BY <1>1, <1>2, <1>3, <1>4 DEF N!Next, N!Scan

(***************************************************************************)
(* The provider a behaviour is about keeps its invariant.                  *)
(***************************************************************************)
IInv == /\ kind \in {"libvirt", "file", "nova"}
        /\ kind = "libvirt" => LInv
        /\ kind = "file" => FInv
        /\ kind = "nova" => NInv

\* The invariant of the provider holds in every behaviour.
THEOREM Invariance == Spec => []IInv
<1>1. Init => IInv
  <2>1. F!Init => FInv
    BY DEF F!Init, FInv, F!TypeOK, FilesCover
  <2>2. N!Init => NInv
    BY NovaAssumption DEF N!Init, NInv, N!TypeOK, N!LifeAssumption
  <2> QED BY <2>1, <2>2, LInit DEF Init, IInv
<1>2. IInv /\ [Next]_vars => IInv'
  <2> SUFFICES ASSUME IInv, [Next]_vars PROVE IInv'
    OBVIOUS
  <2>1. CASE LibvirtNext(L!Next)
    BY <2>1, LStep DEF LibvirtNext, IInv
  <2>2. CASE FileNext(F!Next)
    BY <2>2, FStep DEF FileNext, IInv
  <2>3. CASE NovaNext(N!Next)
    BY <2>3, NStep DEF NovaNext, IInv
  <2>4. CASE UNCHANGED vars
    <3>1. UNCHANGED kind /\ UNCHANGED L!vars /\ UNCHANGED F!vars /\ UNCHANGED N!vars
      BY <2>4 DEF vars, libvirtVars, fileVars, novaVars, L!vars, L!world, L!history, F!vars,
         N!vars, N!world
    <3> QED BY <3>1, LStep, FStep, NStep DEF IInv
  <2> QED BY <2>1, <2>2, <2>3, <2>4 DEF Next
<1> QED BY <1>1, <1>2, PTL DEF Spec

\* Every variable of each provider keeps its type.
THEOREM TypeCorrect == Spec => []TypeOK
<1>1. IInv => TypeOK
  BY DEF IInv, LInv, FInv, NInv, TypeOK
<1> QED BY <1>1, Invariance, PTL

\* A domain that runs, and keeps its CID or one address, throughout a scan is
\* in the list the scan sends, and a scan through virsh reports only what has run
\* during it (libvirt.go 103-202, 311-369).
THEOREM LibvirtScanIsExactHolds == Spec => []LibvirtScanIsExact
<1>1. LInv => L!ScanMissesNothing
  BY DEF LInv, L!ScanMissesNothing, VirshSees, FilesSee, ByVirsh, ByFiles, Pending
<1>2. LInv => L!VirshFindsRunning
  BY DEF LInv, L!VirshFindsRunning, VirshRan, ByVirsh
<1>3. IInv => LibvirtScanIsExact
  BY <1>1, <1>2 DEF IInv, LibvirtScanIsExact
<1> QED BY <1>3, Invariance, PTL

\* A target that stays in its file during a scan is in the list, and nothing is
\* that no file held meanwhile (file.go 93-125).
THEOREM FileScanIsExactHolds == Spec => []FileScanIsExact
<1>1. FInv => F!ScanIsExact
  BY DEF FInv, FilesCover, F!ScanIsExact
<1>2. IInv => FileScanIsExact
  BY <1>1 DEF IInv, FileScanIsExact
<1> QED BY <1>2, Invariance, PTL

\* No outage and no revoked token takes a server out of the reports that Nova
\* still knows of (nova.go 65-68, 84-87).
THEOREM NovaKeepsActiveHolds == Spec => []NovaKeepsActive
<1>1. NInv => N!ActiveIsKept
  BY DEF NInv, N!ActiveIsKept
<1>2. IInv => NovaKeepsActive
  BY <1>1 DEF IInv, NovaKeepsActive
<1> QED BY <1>2, Invariance, PTL
=============================================================================
