SPECIFICATION Spec
CONSTANTS
  Threads = {t1, t2}
  Sessions = {s1, s2, s3}
  Requests <- LifecycleRequests
  MaxRequests = 2
  MaxDeferred = 1
  None = None
SYMMETRY Symmetry
CHECK_DEADLOCK FALSE
INVARIANTS TypeOK OneHandlerPerSession NoUseAfterDelete MutualExclusion AcceptChain NoLeak
PROPERTIES RefinesConnection
