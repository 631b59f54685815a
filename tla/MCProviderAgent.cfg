\* A provider with a reservation of its own and one of another cluster.
SPECIFICATION FairSpec
CONSTANTS
  n1 = n1
  n2 = n2
  p1 = p1
  p2 = p2
  r1 = r1
  r2 = r2
  other = other
  None = None
  Unset = Unset
  Unparsable = Unparsable
  Kinds <- MCKinds
  Gpu = "gpu"
  NodeNames = {n1}
  Allocatable <- MCAllocatable
  PodNames = {p1}
  Pods <- MCPods
  Sharing = "fixed"
  SharingPercentage = 50
  SharingFixed <- MCFixed
  Reservations = {r1, other}
  Own = {r1}
  Requested <- MCRequested
  Durations = {0, 1}
  PeeringFile = FALSE
  MaxTime = 2
  MaxBooked = 1
  MaxChanges = 1
  MaxFaults = 1
INVARIANTS
  TypeOK
  EnforcedWasDelivered
  
  OfferFits
PROPERTIES
  HeldUntilExpiry
  ReservationIsServed
  ExpiredIsGivenUp
  CapacityReturns
CHECK_DEADLOCK FALSE
