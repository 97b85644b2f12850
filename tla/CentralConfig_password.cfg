\* The first administrator password is set before central configuration arrives.
CONSTANTS
  d1 = d1
  d2 = d2
  bad = bad
  e1 = e1
  u1 = u1
  u2 = u2
  Factory = Factory
  Empty = Empty
  NoDoc = NoDoc
  NoUrl = NoUrl
  Docs = {d1}
  Accepted = {d1}
  Edits = {}
  Urls = {u1}
  Allowed = {u1}
  FixedUrl = NoUrl
  Policies = {"required"}
  HasStick = FALSE
  MaxEvents = 1
  MaxKills = 0
  MaxBoots = 0
  MaxServed = 0
SPECIFICATION Spec
CHECK_DEADLOCK FALSE
INVARIANTS
  CentralListShown
