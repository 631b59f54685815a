\* Nothing fails but liqoctl, which may be killed after the work.
SPECIFICATION Spec
CONSTANTS
  r1 = r1
  r2 = r2
  c1 = c1
  c2 = c2
  None = None
  Ids = {r1, r2}
  Clusters = {c1, c2}
  Grants <- MCGrants
  KubeconfigsDir = TRUE
  MaxFaults = 0
INVARIANTS
  ExpiredLeavesNoPeering
CHECK_DEADLOCK FALSE
