SPECIFICATION Spec
CONSTANTS
  Threads = {t1}
  Sessions = {s1, s2}
  Requests <- LifecycleRequests
  MaxRequests = 1
  MaxDeferred = 1
  None = None
CHECK_DEADLOCK FALSE
INVARIANT RepliesIntact
