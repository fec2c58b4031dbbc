SPECIFICATION FairSpec
CONSTANTS
  p1 = p1
  p2 = p2
  r1 = r1
  r2 = r2
  r3 = r3
  Nobody = Nobody
  Requests = {r1, r2}
  Streams = {r2}
  Cancellable = {r2}
  Providers <- Pair
  Routes <- AnyThenFree
  OperatorMay <- SwitchAndReprice
  CallEnds = {"ok", "transient", "fatal", "config", "openfails"}
  Limit = 1
  QueueLimit = 1
  MaxSlots = 2
  Threshold = 1
  Cooldown = 1
PROPERTIES PermitsMatchAttempts FatalSurfaces EveryRequestEnds CommittedStaysPut HalfOpenIsOwned
