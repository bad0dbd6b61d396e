\* The same application, a reload while a VM is monitored.
CONSTANTS
  vm = vm
  s1 = s1
  s2 = s2
  f1 = f1
  f2 = f2
  f3 = f3
  n1 = n1
  n2 = n2
  Ids = {vm, s1, s2}
  Polled = {vm}
  Files = {f1, f2, f3}
  FirstFile = f1
  StaticIn <- StaticTargets
  StaticOn = {f1, f2}
  NsOf <- Resolution
  Namespaces = {n1, n2}
  Absent = Absent
  QueueCap = 2
SPECIFICATION Spec
PROPERTY ReloadKeepsDiscovered
\* The process ends.
CHECK_DEADLOCK FALSE
