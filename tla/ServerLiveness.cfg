SPECIFICATION SteadySpec
CONSTANTS
  Threads = {t1, t2}
  Sessions = {s1, s2, s3}
  Requests <- LivenessRequests
  MaxRequests = 2
  MaxDeferred = 0
  None = None
CHECK_DEADLOCK FALSE
PROPERTIES EveryRequestAnswered AcceptRearmed LostSessionsDeleted
