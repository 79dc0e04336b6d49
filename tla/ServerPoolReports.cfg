SPECIFICATION Spec
CONSTANTS
  Threads = {t1, t2}
  Sessions = {s1, s2, s3}
  Requests <- CounterRequests
  MaxRequests = 3
  MaxDeferred = 0
  None = None
CHECK_DEADLOCK FALSE
INVARIANT ReportConsistent
