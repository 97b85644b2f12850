\* Required configuration under fairness.
CONSTANTS
  d1 = d1
  d2 = d2
  bad = bad
  e1 = e1
  u1 = u1
  u2 = u2
  Factory = Factory
  Empty = Empty
  NoDoc = NoDoc
  NoUrl = NoUrl
  Docs = {d1, d2}
  Accepted = {d1, d2}
  Edits = {}
  Urls = {u1}
  Allowed = {u1}
  FixedUrl = NoUrl
  Policies = {"required"}
  HasStick = FALSE
  MaxEvents = 2
  MaxKills = 1
  MaxBoots = 0
  MaxServed = 1
SPECIFICATION FairSpec
CHECK_DEADLOCK FALSE
PROPERTIES
  GateReachesManager
  GateStaysOpen
INVARIANTS
  GateHasConfig
  StatusDescribesRemote
