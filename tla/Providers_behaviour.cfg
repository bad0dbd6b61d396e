\* Two domains, one with a CID; two files and two targets; one server in two
\* networks and a token kept for two ticks.
CONSTANTS
  Domains = {d1, d2}
  Persistent = {d1}
  HasGPU = {d1, d2}
  GetVsockCID = {d1}
  FilterGPUOnly = TRUE
  ConnectionMode = "auto"
  Ids = {t1, t2}
  NumFiles = 2
  Servers = {s1}
  Addresses = {a1, a2}
  AuthURL = TRUE
  TokenLife = 2
SPECIFICATION Spec
INVARIANTS LibvirtScanIsExact FileScanIsExact NovaKeepsActive
PROPERTIES LibvirtReportsRunning FileForgetsRemoved NovaReportsResume
\* A provider ends when it is cancelled.
CHECK_DEADLOCK FALSE
