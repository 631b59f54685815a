\* Progress, for a reservation from the API and an invalid one.
\* An instance is over when every bound is used up, so it may stop.
SPECIFICATION FairSpec
CONSTANTS
  provider = provider
  requester = requester
  r1 = r1
  r2 = r2
  r3 = r3
  bad = bad
  None = None
  Clusters = {provider, requester}
  Reservations = {r1}
  HttpRequests = {r1}
  Registered = {provider}
  Kinds <- MCKinds
  RequesterID <- MCRequesterID
  Requested <- MCRequested
  Duration <- MCDuration
  Reports <- OneReport
  ForeignOverlap = TRUE
  MaxTime = 2
  MaxReports = 0
  MaxTouches = 0
  MaxUserWrites = 2
  MaxStaleStarts = 1
  MaxCrashes = 0
  MaxErrors = 1
PROPERTIES
  DeletionCompletes
  ExpiryIsHonoured
  RequestsAreAnswered
  ReservedGetsFinalizer
CHECK_DEADLOCK FALSE
