\* Two valid reservations and an invalid one, created with kubectl, and nothing
\* goes wrong: no handler, crash or outdated read, and nobody writes a
\* Reservation while the worker is on it.
\* An instance is over when every bound is used up, so it may stop.
SPECIFICATION Spec
CONSTANTS
  provider = provider
  requester = requester
  r1 = r1
  r2 = r2
  r3 = r3
  bad = bad
  None = None
  Clusters = {provider, requester}
  Reservations = {r1, r2, bad}
  HttpRequests = {}
  Registered = {provider}
  Kinds <- MCKinds
  RequesterID <- MCRequesterID
  Requested <- MCRequested
  Duration <- MCDuration
  Reports <- OneReport
  ForeignOverlap = FALSE
  MaxTime = 2
  MaxReports = 0
  MaxTouches = 0
  MaxUserWrites = 1
  MaxStaleStarts = 0
  MaxCrashes = 0
  MaxErrors = 0
INVARIANTS
  Balanced
  NoDoubleBooking
CHECK_DEADLOCK FALSE
