\* More connections than workers, one remembered client and a failing disk, under fairness.
CONSTANTS
  t1 = t1
  t2 = t2
  t3 = t3
  i1 = i1
  i2 = i2
  m1 = m1
  m2 = m2
  NoMac = NoMac
  Free = Free
  NoFile = NoFile
  Invalid = Invalid
  Threads = {t1, t2}
  MaxWorkers = 2
  Ips = {i1}
  Macs = {m1}
  MaxClients = 1
  MaxRecent = 0
  Size = 1
  MaxSent = 1
  MaxRequests = 2
  MaxCrashes = 0
  MaxFailures = 1
  MaxRejected = 1
SPECIFICATION FairSpec
CHECK_DEADLOCK FALSE
INVARIANTS
  TypeOK
PROPERTIES
  WorkersReturn
