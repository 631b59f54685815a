\* A request with three providers to choose from, under both policies.
\* An instance is over when every bound is used up, so it may stop.
SPECIFICATION FairSpec
CONSTANTS
  c1 = c1
  c2 = c2
  c3 = c3
  None = None
  Providers = {c1, c2, c3}
  Latency <- MCLatency
  Estimate <- MCEstimate
  Elsewhere <- MCElsewhere
  Region <- MCRegion
  Located <- MCLocated
  Allocatable <- MCAllocatable
  EnergyCost <- MCEnergyCost
  Renewable <- MCRenewable
  Policies = {"latency", ""}
  MaxAttempts = 2
  MaxReservations = 2
  MaxFaults = 1
  MaxChanges = 1
INVARIANTS
  TypeOK
  ReservedIsBacked
  ActualMeansConnected
  GrantsAreAccountedFor
  OneInstruction
PROPERTIES
  
  NoEarlySwitch
  RequestIsDecided
CHECK_DEADLOCK FALSE
