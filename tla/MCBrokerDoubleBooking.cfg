\* A release repeated after a conflicting write, in a cluster that fits one of
\* three equal reservations.
\* An instance is over when every bound is used up, so it may stop.
SPECIFICATION Spec
SYMMETRY Interchangeable
CONSTANTS
  provider = provider
  requester = requester
  r1 = r1
  r2 = r2
  r3 = r3
  bad = bad
  None = None
  Clusters = {provider, requester}
  Reservations = {r1, r2, r3}
  HttpRequests = {}
  Registered = {provider}
  Kinds <- MCKinds
  RequesterID <- MCRequesterID
  Requested <- EqualRequested
  Duration <- NoDuration
  Reports <- TinyReport
  ForeignOverlap = TRUE
  MaxTime = 0
  MaxReports = 0
  MaxTouches = 0
  MaxUserWrites = 2
  MaxStaleStarts = 0
  MaxCrashes = 0
  MaxErrors = 0
INVARIANTS
  NoDoubleBooking
CHECK_DEADLOCK FALSE
