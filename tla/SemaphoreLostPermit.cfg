SPECIFICATION Spec
CONSTANTS
  c1 = c1
  c2 = c2
  c3 = c3
  Callers = {c1, c2, c3}
  Cancellable = {c1, c2, c3}
  Nobody = Nobody
  Limit = 1
  QueueLimit = 2
  MaxSlots = 4
INVARIANT PermitNeverLost
