\* A buffered call, with one more turn for its tools, beside a stream, under one
\* id or two; one request and three attempts are kept.
SPECIFICATION Spec
CONSTANTS
  a = a
  b = b
  Calls = {a, b}
  Streams = {b}
  Ids = {1, 2}
  RequestRetention = 1
  AttemptRetention = 3
  Reports <- NoReports
  MaxAttempts = 2
  MaxEligible = 2
  MaxTurns = 2
  MaxWork = 2
  MaxTime = 1
  MaxUpsets = 1
INVARIANTS TablesAgree NewestKept
CHECK_DEADLOCK FALSE
