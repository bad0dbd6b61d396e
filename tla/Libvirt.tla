------------------------------ MODULE Libvirt ------------------------------
(***************************************************************************)
(* The libvirt provider, internal/pkg/discovery/libvirt: a scan lists the  *)
(* running domains with virsh, then asks for the XML and, if need be, the  *)
(* addresses of one domain after the other, while domains start and stop,  *)
(* addresses come and go and libvirtd is restarted.  When the list cannot  *)
(* be had the scan reads the XML files of two directories instead.  The    *)
(* list it has put together replaces the provider's last report.           *)
(*                                                                         *)
(* A target is the domain and the kind of its endpoint.  The text virsh    *)
(* prints is what the command found: an address that parseAndSelectIP      *)
(* accepts, or none.  As libvirt.go 99 has it, /var/run/libvirt/qemu holds *)
(* the XML of every running domain, and /etc/libvirt/qemu that of every    *)
(* persistent one; a file that cannot be read or does not parse as a       *)
(* domain is skipped, and tells the scan nothing of its domain.            *)
(***************************************************************************)
EXTENDS Naturals

CONSTANTS
  Domains,
  Persistent,     \* the domains that are defined when they do not run
  HasGPU,         \* the domains with a pci or mdev host device
  GetVsockCID,    \* the domains with a vsock CID in their XML
  FilterGPUOnly, ConnectionMode

DomainsAssumption ==
  /\ Persistent \subseteq Domains
  /\ HasGPU \subseteq Domains
  /\ GetVsockCID \subseteq Domains
ModeAssumption ==
  /\ FilterGPUOnly \in BOOLEAN
  /\ ConnectionMode \in {"auto", "vsock", "ip"}

VARIABLES
  running,  \* the domains that run
  virsh,    \* virsh is there and libvirtd answers it
  broken,   \* the domains whose file in /var/run/libvirt/qemu would be skipped
  address,  \* the pairs <<d, source>> of addresses domifaddr would find
  phase,    \* where Run is
  todo,     \* the names the scan has not come to
  at,       \* the domain whose addresses it asks for
  found,    \* the targets the scan has so far
  report,   \* the last list given to discovery
  steady,   \* history: what has been true ever since the scan began
  ran       \* history: the domains that have run since the scan began

world    == <<running, virsh, broken, address>>
history  == <<steady, ran>>
vars     == <<world, phase, todo, at, found, report, history>>

Sources  == {"agent", "lease"}
Facts    == Domains \X (Sources \cup {"run", "virsh", "xml"})
VirshSteps == {"domains", "agent", "lease"}
FileSteps  == {"runfiles", "etc", "etcfiles"}

TypeOK ==
  /\ running \in SUBSET Domains
  /\ virsh \in BOOLEAN
  /\ broken \in SUBSET GetVsockCID
  /\ address \in SUBSET (Domains \X Sources)
  /\ phase \in {"wait", "sendvirsh", "sendfiles", "stopped"} \cup VirshSteps \cup FileSteps
  /\ todo \in SUBSET Domains
  /\ at \in Domains
  /\ found \in SUBSET (Domains \X {"vsock", "ip"})
  /\ report \in SUBSET (Domains \X {"vsock", "ip"})
  /\ steady \in SUBSET Facts
  /\ ran \in SUBSET Domains

\* What a scan could see at this moment.
Now == (running \X {"run"}) \cup ((GetVsockCID \ broken) \X {"xml"})
         \cup (IF virsh THEN address \cup (Domains \X {"virsh"}) ELSE {})

Init ==
  /\ running \in SUBSET Domains
  /\ virsh \in BOOLEAN
  /\ broken \in SUBSET GetVsockCID
  /\ address = {}
  /\ phase = "wait"
  /\ todo = {}
  /\ at \in Domains
  /\ found = {}
  /\ report = {}
  /\ steady = {}
  /\ ran = {}

-----------------------------------------------------------------------------
(* The host.                                                               *)

\* A file of a domain without a CID adds nothing to a scan, skipped or not.
WorldChange == \/ \E d \in Domains : /\ \/ running' = running \cup {d}
                                        \/ running' = running \ {d}
                                     /\ UNCHANGED <<virsh, broken, address>>
               \/ /\ virsh' = ~virsh
                  /\ UNCHANGED <<running, broken, address>>
               \/ \E d \in GetVsockCID : /\ \/ broken' = broken \cup {d}
                                            \/ broken' = broken \ {d}
                                         /\ UNCHANGED <<running, virsh, address>>
               \/ \E a \in Domains \X Sources : /\ \/ address' = address \cup {a}
                                                   \/ address' = address \ {a}
                                                /\ UNCHANGED <<running, virsh, broken>>

Host == /\ WorldChange
        /\ steady' = steady \cap Now'
        /\ ran' = ran \cup running'
        /\ UNCHANGED <<phase, todo, at, found, report>>

-----------------------------------------------------------------------------
(* The scan through virsh.                                                 *)

Wanted(d) == FilterGPUOnly => d \in HasGPU
NewScan   == steady' = Now /\ ran' = running /\ found' = {}

ListRunning == /\ phase = "wait"
               /\ virsh
               /\ phase' = "domains"
               /\ todo' = running
               /\ NewScan
               /\ UNCHANGED <<world, at, report>>

\* dumpxml fails without libvirtd, and for a domain that is gone altogether.
HasXML(d) == virsh /\ d \in running \cup Persistent
UsesVsock(d) == ConnectionMode \in {"vsock", "auto"} /\ d \in GetVsockCID
UsesIP(d)    == ConnectionMode \in {"ip", "auto"} /\ ~UsesVsock(d)

\* One domain of the list: skipped, reported by its CID, or asked for addresses.
DumpXML(d) ==
  /\ phase = "domains"
  /\ d \in todo
  /\ todo' = todo \ {d}
  /\ \/ /\ HasXML(d) /\ Wanted(d) /\ UsesVsock(d)
        /\ found' = found \cup {<<d, "vsock">>}
        /\ UNCHANGED <<phase, at>>
     \/ /\ HasXML(d) /\ Wanted(d) /\ UsesIP(d)
        /\ phase' = "agent"
        /\ at' = d
        /\ UNCHANGED found
     \/ /\ ~(HasXML(d) /\ Wanted(d) /\ (UsesVsock(d) \/ UsesIP(d)))
        /\ UNCHANGED <<phase, at, found>>
  /\ UNCHANGED <<world, report, history>>

Finds(source) == virsh /\ at \in running /\ <<at, source>> \in address
Keep == found' = found \cup {<<at, "ip">>} /\ phase' = "domains"

\* Mutant: the scan gives the domain up when the agent does not know.
AskAgentMut == /\ phase = "agent"
               /\ \/ Finds("agent") /\ Keep
                  \/ ~Finds("agent") /\ phase' = "domains" /\ UNCHANGED found
               /\ UNCHANGED <<world, todo, at, report, history>>

AskAgent == /\ phase = "agent"
            /\ \/ Finds("agent") /\ Keep
               \/ ~Finds("agent") /\ phase' = "lease" /\ UNCHANGED found
            /\ UNCHANGED <<world, todo, at, report, history>>

\* Mutant: the scan waits for a lease.
AskLeaseMut == /\ phase = "lease"
               /\ Finds("lease")
               /\ Keep
               /\ UNCHANGED <<world, todo, at, report, history>>

AskLease == /\ phase = "lease"
            /\ \/ Finds("lease") /\ Keep
               \/ ~Finds("lease") /\ phase' = "domains" /\ UNCHANGED found
            /\ UNCHANGED <<world, todo, at, report, history>>

ListDone == /\ phase = "domains"
            /\ todo = {}
            /\ phase' = "sendvirsh"
            /\ UNCHANGED <<world, todo, at, found, report, history>>

-----------------------------------------------------------------------------
(* The scan of the files: /var/run/libvirt/qemu, then /etc/libvirt/qemu.   *)

ReadRunDir == /\ phase = "wait"
              /\ ~virsh
              /\ phase' = "runfiles"
              /\ todo' = running
              /\ NewScan
              /\ UNCHANGED <<world, at, report>>

ReadEtcDir == /\ phase = "etc"
              /\ phase' = "etcfiles"
              /\ todo' = Persistent
              /\ UNCHANGED <<world, at, found, report, history>>

\* The file may be gone by now, or not parse, as one of /etc/libvirt/qemu may at
\* any time.  connection_mode is not looked at.
Readable(d) == phase = "runfiles" => d \in running \ broken

ReadXML(d) == /\ phase \in {"runfiles", "etcfiles"}
              /\ d \in todo
              /\ todo' = todo \ {d}
              /\ \/ /\ Readable(d) /\ Wanted(d) /\ d \in GetVsockCID
                    /\ found' = found \cup {<<d, "vsock">>}
                 \/ /\ Readable(d) /\ Wanted(d) /\ d \in GetVsockCID => phase = "etcfiles"
                    /\ UNCHANGED found
              /\ UNCHANGED <<world, phase, at, report, history>>

DirDone == /\ todo = {}
           /\ \/ phase = "runfiles" /\ phase' = "etc"
              \/ phase = "etcfiles" /\ phase' = "sendfiles"
           /\ UNCHANGED <<world, todo, at, found, report, history>>

-----------------------------------------------------------------------------
Sending == phase \in {"sendvirsh", "sendfiles"}

Send == /\ Sending
        /\ phase' = "wait"
        /\ report' = found
        /\ UNCHANGED <<world, todo, at, found, history>>

\* The context is cancelled: both selects of Run return.
Quit == /\ phase = "wait" \/ Sending
        /\ phase' = "stopped"
        /\ UNCHANGED <<world, todo, at, found, report, history>>

Scan == \/ ListRunning \/ AskAgent \/ AskLease \/ ListDone
        \/ ReadRunDir \/ ReadEtcDir \/ DirDone \/ Send
        \/ \E d \in Domains : DumpXML(d) \/ ReadXML(d)

Next == Host \/ Scan \/ Quit

Spec == Init /\ [][Next]_vars

(* The provider's goroutine runs, its ticker fires and its commands return.*)
(* Nothing is assumed of the host, of libvirtd or of the cancellation.     *)
FairSpec == Spec /\ WF_vars(Scan)

-----------------------------------------------------------------------------
(* Safety.                                                                 *)

FoundDomains == {t[1] : t \in found}

\* What one scan may be relied on to see: a domain that ran all the time and
\* had a CID, or an address at one and the same source, all the time.
SeenByVirsh(d) == /\ {<<d, "run">>, <<d, "virsh">>} \subseteq steady
                  /\ Wanted(d)
                  /\ \/ UsesVsock(d)
                     \/ UsesIP(d) /\ \E s \in Sources : <<d, s>> \in steady
SeenByFiles(d) == /\ {<<d, "run">>, <<d, "xml">>} \subseteq steady
                  /\ Wanted(d) /\ d \in GetVsockCID

\* A domain that was there throughout the scan is in the list it sends, however
\* the others and their addresses come and go between the commands; a list
\* without it would end its exporter (libvirt.go 103-202, 311-369).
ScanMissesNothing ==
  /\ phase = "sendvirsh" => \A d \in Domains : SeenByVirsh(d) => d \in FoundDomains
  /\ phase = "sendfiles" => \A d \in Domains : SeenByFiles(d) => d \in FoundDomains

\* A scan through virsh reports no domain that has not run during the scan,
\* although it goes on asking about domains that have stopped meanwhile.
VirshFindsRunning ==
  phase = "sendvirsh" => FoundDomains \subseteq ran

-----------------------------------------------------------------------------
(* Liveness.                                                               *)

Reported(d) == \E ep \in {"vsock", "ip"} : <<d, ep>> \in report

\* A domain that runs from some moment on, and has a CID, is in every report
\* from some moment on, whether libvirtd answers then or, if its file can be read
\* from some moment on, does not, until the provider ends.
RunningIsReported ==
  \A d \in Domains, answers \in BOOLEAN :
    Wanted(d) /\ UsesVsock(d) /\ <>[](d \in running /\ virsh = answers /\ (virsh \/ d \notin broken))
      => <>[]Reported(d) \/ <>(phase = "stopped")

-----------------------------------------------------------------------------
(* What the repository says of the program and the program does not do.    *)

\* README 76: the provider inspects running domains; what a scan sends has run
\* during it.
OnlyRunningDomains ==
  Sending => FoundDomains \subseteq ran
=============================================================================
