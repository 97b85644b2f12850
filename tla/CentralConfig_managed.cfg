\* Optional central configuration from DHCP, a TCCONF stick, an administrator.
CONSTANTS
  d1 = d1
  d2 = d2
  bad = bad
  e1 = e1
  u1 = u1
  u2 = u2
  Factory = Factory
  Empty = Empty
  NoDoc = NoDoc
  NoUrl = NoUrl
  Docs = {d1, bad}
  Accepted = {d1}
  Edits = {e1}
  Urls = {u1}
  Allowed = {u1}
  FixedUrl = NoUrl
  Policies = {"optional", "required", "malformed"}
  HasStick = TRUE
  MaxEvents = 1
  MaxKills = 1
  MaxBoots = 1
  MaxServed = 1
SPECIFICATION Spec
CHECK_DEADLOCK FALSE
INVARIANTS
  LoadedIsFresh
  SavedWins
