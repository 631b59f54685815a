\* One reservation through POST /api/v1/reservations, with the worker on it at
\* the same time, a crash, an outdated read, expiry and writes by others.
\* An instance is over when every bound is used up, so it may stop.
SPECIFICATION Spec
CONSTANTS
  provider = provider
  requester = requester
  r1 = r1
  r2 = r2
  r3 = r3
  bad = bad
  None = None
  Clusters = {provider, requester}
  Reservations = {r1}
  HttpRequests = {r1}
  Registered = {provider}
  Kinds <- MCKinds
  RequesterID <- MCRequesterID
  Requested <- MCRequested
  Duration <- MCDuration
  Reports <- OneReport
  ForeignOverlap = TRUE
  MaxTime = 2
  MaxReports = 0
  MaxTouches = 0
  MaxUserWrites = 2
  MaxStaleStarts = 1
  MaxCrashes = 1
  MaxErrors = 1
INVARIANTS
  TypeOK
  LedgerIdentity
  SettledWasReleased
  RepeatsAreAccountedFor
PROPERTIES
  RemovedWasReleased
  ImplementsLedger
CHECK_DEADLOCK FALSE
