SPECIFICATION Spec
CONSTANTS
  Threads = {t1}
  Sessions = {s1, s2}
  Requests <- LifecycleRequests
  MaxRequests = 1
  MaxDeferred = 0
  None = None
CHECK_DEADLOCK FALSE
PROPERTY DeletedAfterWriting
