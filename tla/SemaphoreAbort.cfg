\* Every caller passes a signal: all interleavings of aborts with the pump.
SPECIFICATION Spec
CONSTANTS
  c1 = c1
  c2 = c2
  c3 = c3
  c4 = c4
  c5 = c5
  Callers = {c1, c2, c3, c4, c5}
  Cancellable = {c1, c2, c3, c4, c5}
  Nobody = Nobody
  Limit = 2
  QueueLimit = 2
  MaxSlots = 5
SYMMETRY CallerSymmetry
INVARIANTS TypeOK UpstreamCap Conservation
PROPERTY FirstComeFirstServed
