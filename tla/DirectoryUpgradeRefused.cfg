CONSTANTS
  MaxServers = 2
  MaxOpens = 3
  Releases = 2
  MaxChanges = 1
  MaxFaults = 1
  MaxMeddling = 1
SPECIFICATION Spec
INVARIANT UpgradeOpens
