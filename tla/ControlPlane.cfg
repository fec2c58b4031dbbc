CONSTANTS
  p1 = p1
  p2 = p2
  r1 = r1
  r2 = r2
  Providers <- MCProviders
  Routes <- MCRoutes
  Proxies = {q1}
  Clients = {k1}
  Models = {m1}
  Bases = {b1}
  None = None
  Keep = Keep
  MaxKeys = 2
  MaxFaults = 1
SPECIFICATION Spec
SYMMETRY MCSymmetry
INVARIANTS NothingIsOrphaned DeadKeysStayDead
