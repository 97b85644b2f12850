\* Two handlers, a crash and a failing disk; a client may name itself at any time.
CONSTANTS
  t1 = t1
  t2 = t2
  t3 = t3
  i1 = i1
  i2 = i2
  m1 = m1
  m2 = m2
  NoMac = NoMac
  Free = Free
  NoFile = NoFile
  Invalid = Invalid
  Threads = {t1, t2}
  MaxWorkers = 2
  Ips = {i1}
  Macs = {m1}
  MaxClients = 2
  MaxRecent = 3
  Size = 1
  MaxSent = 2
  MaxRequests = 2
  MaxCrashes = 1
  MaxFailures = 1
  MaxRejected = 0
SPECIFICATION Spec
CHECK_DEADLOCK FALSE
INVARIANTS
  NoneLost
  SettledOnce
  ServedIsDurable
  AllAttributed
  InFlightFollows
PROPERTIES
  FileMonotone
SYMMETRY ThreadSymmetry
