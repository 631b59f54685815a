\* A handler and the worker compete for one cluster while it is republished and
\* the other cluster registers.
\* An instance is over when every bound is used up, so it may stop.
SPECIFICATION Spec
CONSTANTS
  provider = provider
  requester = requester
  r1 = r1
  r2 = r2
  r3 = r3
  bad = bad
  None = None
  Clusters = {provider, requester}
  Reservations = {r1, r2}
  HttpRequests = {r1}
  Registered = {provider}
  Kinds <- MCKinds
  RequesterID <- MCRequesterID
  Requested <- MCRequested
  Duration <- MCDuration
  Reports <- TwoReports
  ForeignOverlap = TRUE
  MaxTime = 0
  MaxReports = 1
  MaxTouches = 1
  MaxUserWrites = 0
  MaxStaleStarts = 0
  MaxCrashes = 0
  MaxErrors = 0
INVARIANTS
  LedgerIdentity
  ReservedWasLocked
PROPERTIES
  ImplementsLedger
CHECK_DEADLOCK FALSE
