\* The handler against the worker: who has the last word on the phase.
\* An instance is over when every bound is used up, so it may stop.
SPECIFICATION Spec
CONSTANTS
  provider = provider
  requester = requester
  r1 = r1
  r2 = r2
  r3 = r3
  bad = bad
  None = None
  Clusters = {provider, requester}
  Reservations = {r2}
  HttpRequests = {r2}
  Registered = {provider}
  Kinds <- MCKinds
  RequesterID <- MCRequesterID
  Requested <- MCRequested
  Duration <- MCDuration
  Reports <- OneReport
  ForeignOverlap = TRUE
  MaxTime = 0
  MaxReports = 0
  MaxTouches = 0
  MaxUserWrites = 0
  MaxStaleStarts = 0
  MaxCrashes = 0
  MaxErrors = 0
PROPERTIES
  TerminalStates
CHECK_DEADLOCK FALSE
