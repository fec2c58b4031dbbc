SPECIFICATION ProxiedSpec
CONSTANTS
  Scripts <- MCScripts
  MaxMalformed = 1
  MaxLines = 4
  Window = 2
  Proxies <- MCProxies
  MaxHeader = 5
  Patience = 3
  Spare = 2
  Unknown = Unknown
  ProxiedScripts <- MCProxiedScripts
INVARIANTS DeliveredInOrder PermitBracketsCall TunnelIsClean DialIsBounded
PROPERTY StreamEnds
