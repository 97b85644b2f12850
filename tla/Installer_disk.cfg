\* A stick that is mounted when seen, a disk that is too small, and the medium.
CONSTANTS
  medium = medium
  stick = stick
  tiny = tiny
  p1 = p1
  p2 = p2
  p3 = p3
  noDisk = noDisk
  noPath = noPath
  NoDisk = noDisk
  NoPath = noPath
  Disk = {medium, stick, tiny}
  Live = medium
  Small = {tiny}
  Removable = {stick}
  Path = {p1, p2, p3}
  Files <- MCFiles
  MaxInstalls = 2
  MaxFaults = 2
  MaxMoves = 1
SPECIFICATION Spec
CHECK_DEADLOCK FALSE
SYMMETRY Names
INVARIANTS
  SuccessIsComplete
  PowerWaits
PROPERTIES
  ErasedWasFree
