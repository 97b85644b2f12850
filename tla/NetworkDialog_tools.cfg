\* Two windows one after the other, with jobs and tests that outlive the first.
CONSTANTS
  dhcp = dhcp
  static = static
  cafe = cafe
  off = off
  Off = off
  Settings = {dhcp, static}
  Networks = {cafe}
  Reach <- MCReach
  Targets <- MCTargets
  MaxWindows = 2
  MaxPresses = 2
  MaxFaults = 1
SPECIFICATION Spec
CHECK_DEADLOCK FALSE
INVARIANTS
  MessageTellsTruth
  ReportIsTrue
