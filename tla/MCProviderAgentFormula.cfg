\* Everything shared, one hold, nothing else happens: the formula of the README.
SPECIFICATION Spec
CONSTANTS
  n1 = n1
  n2 = n2
  p1 = p1
  p2 = p2
  r1 = r1
  r2 = r2
  other = other
  None = None
  Unset = Unset
  Unparsable = Unparsable
  Kinds <- MCKinds
  Gpu = "gpu"
  NodeNames = {n1}
  Allocatable <- MCAllocatable
  PodNames = {p1}
  Pods <- MCPods
  Sharing = "all"
  SharingPercentage = 50
  SharingFixed <- NoFixed
  Reservations = {r1, other}
  Own = {r1}
  Requested <- MCRequested
  Durations = {0, 1}
  PeeringFile = FALSE
  MaxTime = 3
  MaxBooked = 1
  MaxChanges = 0
  MaxFaults = 0
INVARIANTS
  AvailableFormula
CHECK_DEADLOCK FALSE
