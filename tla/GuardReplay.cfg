CONSTANTS
  c1 = c1
  c2 = c2
  near = near
  far = far
  Conns = {c1, c2}
  Peers = {near, far}
  Local = near
  PeerOf <- MCPeerOf
  RateMax = 1
  AuthMax = 1
  RateWindow = 2
  MapMax = 1
  Concurrency = 1
  Skew = 1
  Offsets = {1}
  NonceMax = 4
  MaxTurns = 2
  Horizon = 4
  MaxSigned = 5
SPECIFICATION Spec
INVARIANTS
  SlotsAreHeld
  
  BurstBounded
  EffectsLeaveATurn
PROPERTIES
  SlotComesBack
