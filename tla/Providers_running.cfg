\* The same host, and whatever a scan sends.
CONSTANTS
  Domains = {d1, d2}
  Persistent = {d1}
  HasGPU = {d1, d2}
  GetVsockCID = {d1}
  FilterGPUOnly = TRUE
  ConnectionMode = "auto"
  Ids = {t1, t2}
  NumFiles = 2
  Servers = {s1}
  Addresses = {a1, a2}
  AuthURL = TRUE
  TokenLife = 2
SPECIFICATION Spec
INVARIANT LibvirtOnlyRunning
CHECK_DEADLOCK FALSE
