----------------------------- MODULE Providers -----------------------------
(***************************************************************************)
(* The discovery providers that poll.  Their Run is written three times in *)
(* the source and is one loop: scan, send the list, wait for the ticker;   *)
(* they differ in the scan.  The providers of one supervisor run beside    *)
(* each other and share nothing but discovery (Discovery.tla), so that     *)
(* what holds of each holds of any number of them: kind says which of them *)
(* a behaviour is about, and the variables of the loop are declared once.  *)
(***************************************************************************)
EXTENDS Naturals

CONSTANTS
  Domains, Persistent, HasGPU, GetVsockCID, FilterGPUOnly, ConnectionMode, \* libvirt
  Ids, NumFiles,                                                          \* file
  Servers, Addresses, AuthURL, TokenLife                                  \* nova

VARIABLES
  kind,
  phase, todo, found, report, steady, ran, \* Run and its scan
  running, virsh, broken, address, at,     \* libvirt
  directory, content,                      \* file
  active, nova, keystone, token, age       \* nova

libvirtVars == <<running, virsh, broken, address, at>>
fileVars    == <<directory, content>>
novaVars    == <<active, nova, keystone, token, age>>
vars == <<kind, phase, todo, found, report, steady, ran, libvirtVars, fileVars, novaVars>>

L == INSTANCE Libvirt
F == INSTANCE TargetFiles
N == INSTANCE Nova

ASSUME LibvirtAssumption == L!DomainsAssumption /\ L!ModeAssumption
ASSUME FileAssumption == F!NumFilesAssumption
ASSUME NovaAssumption == N!AuthAssumption /\ N!LifeAssumption

\* What a provider does not use keeps one value.
NoLibvirt == /\ running = {} /\ virsh = FALSE /\ broken = {} /\ address = {}
             /\ at = CHOOSE d \in Domains : TRUE
NoFiles   == directory = FALSE /\ content = <<>>
NoNova    == active = {} /\ nova = FALSE /\ keystone = FALSE /\ token = "none" /\ age = 0

Init ==
  \/ kind = "libvirt" /\ L!Init /\ NoFiles /\ NoNova
  \/ kind = "file" /\ F!Init /\ NoLibvirt /\ NoNova
  \/ kind = "nova" /\ N!Init /\ NoLibvirt /\ NoFiles /\ todo = {} /\ ran = {}

LibvirtNext(A) == kind = "libvirt" /\ A /\ UNCHANGED <<kind, fileVars, novaVars>>
FileNext(A)    == kind = "file" /\ A /\ UNCHANGED <<kind, libvirtVars, novaVars>>
NovaNext(A)    == kind = "nova" /\ A /\ UNCHANGED <<kind, todo, ran, libvirtVars, fileVars>>

Next == LibvirtNext(L!Next) \/ FileNext(F!Next) \/ NovaNext(N!Next)

(* The goroutine of each provider runs, its ticker fires, its commands and *)
(* requests return (the HTTP client gives up after 15 s), and time passes. *)
Fairness == /\ WF_vars(LibvirtNext(L!Scan))
            /\ WF_vars(FileNext(F!Scan))
            /\ WF_vars(NovaNext(N!Scan))
            /\ WF_vars(NovaNext(N!Tick))

Spec == Init /\ [][Next]_vars /\ Fairness

-----------------------------------------------------------------------------
(* What the modules of the providers promise.                              *)

\* Every variable of the provider has its type.
TypeOK == /\ kind = "libvirt" => L!TypeOK
          /\ kind = "file" => F!TypeOK
          /\ kind = "nova" => N!TypeOK

\* Libvirt: a domain that is there throughout a scan is in its list, and what
\* virsh listed has run during it.
LibvirtScanIsExact == kind = "libvirt" => L!ScanMissesNothing /\ L!VirshFindsRunning

\* Libvirt: a running domain with a CID is reported, and goes on being reported,
\* as long as virsh answers or its file can be read.
LibvirtReportsRunning == kind = "libvirt" => L!RunningIsReported

\* File: a scan finds what stays in its file and nothing no file held.
FileScanIsExact == kind = "file" => F!ScanIsExact

\* File: a target that is in no file any more is forgotten.
FileForgetsRemoved == kind = "file" => F!RemovedIsForgotten

\* Nova: an outage or a revoked token takes no server out of the reports.
NovaKeepsActive == kind = "nova" => N!ActiveIsKept

\* Nova: the provider recovers from a revoked token.
NovaReportsResume == kind = "nova" => N!ReportsResume

\* Libvirt: whichever way a scan goes, what it reports has run during it.
LibvirtOnlyRunning == kind = "libvirt" => L!OnlyRunningDomains
=============================================================================
