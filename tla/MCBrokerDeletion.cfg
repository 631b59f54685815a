\* A deletion that arrives between the lock and the status update.
\* An instance is over when every bound is used up, so it may stop.
SPECIFICATION Spec
CONSTANTS
  provider = provider
  requester = requester
  r1 = r1
  r2 = r2
  r3 = r3
  bad = bad
  None = None
  Clusters = {provider, requester}
  Reservations = {r1}
  HttpRequests = {}
  Registered = {provider}
  Kinds <- MCKinds
  RequesterID <- MCRequesterID
  Requested <- MCRequested
  Duration <- MCDuration
  Reports <- OneReport
  ForeignOverlap = TRUE
  MaxTime = 0
  MaxReports = 0
  MaxTouches = 0
  MaxUserWrites = 1
  MaxStaleStarts = 0
  MaxCrashes = 0
  MaxErrors = 0
INVARIANTS
  DeletedHoldsNothing
CHECK_DEADLOCK FALSE
