\* Two profiles, one of them signed; an exchanged release, a lost supply or stick, a kill, a
\* signal, rot.
CONSTANTS
  lite = lite
  full = full
  h1 = h1
  h2 = h2
  p1 = p1
  p2 = p2
  NoPart = NoPart
  Partial = Partial
  NoFile = NoFile
  NoImage = NoImage
  Profiles = {lite, full}
  Images = {h1, h2}
  Parts = {p1}
  Signed = {full}
  MaxDeploys = 1
  MaxLosses = 1
  MaxKills = 1
  MaxSignals = 1
  MaxFaults = 2
  MaxRots = 1
SPECIFICATION FairSpec
CHECK_DEADLOCK FALSE
INVARIANTS
  RunsVerified
  PublishedIsWhole
  SavedIsOnDisk
  
PROPERTIES
  PreviousKept
  SaveEnds
