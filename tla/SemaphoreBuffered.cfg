\* No caller passes a signal, as on the buffered path.
SPECIFICATION FairSpec
CONSTANTS
  c1 = c1
  c2 = c2
  c3 = c3
  c4 = c4
  c5 = c5
  Callers = {c1, c2, c3, c4, c5}
  Cancellable = {}
  Nobody = Nobody
  Limit = 2
  QueueLimit = 2
  MaxSlots = 5
PROPERTIES EveryWaiterAnswered ImplementsPromise
