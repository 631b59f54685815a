\* Two instructions, for one provider or for two.
\* An instance is over when every bound is used up, so it may stop.
SPECIFICATION FairSpec
CONSTANTS
  r1 = r1
  r2 = r2
  c1 = c1
  c2 = c2
  None = None
  Ids = {r1, r2}
  Clusters = {c1, c2}
  Grants <- MCGrants
  KubeconfigsDir = TRUE
  MaxFaults = 1
INVARIANTS
  TypeOK
  PeeringIsRecorded
  DeliveredIsPeered
PROPERTIES
  TeardownBeforeRemoval
  ExpiredIsDeleted
  CredentialIsUsed
CHECK_DEADLOCK FALSE
