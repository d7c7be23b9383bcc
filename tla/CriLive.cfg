SPECIFICATION FairSpec
CONSTANTS
  p1 = p1
  p2 = p2
  c1 = c1
  c2 = c2
  Sandboxes = {p1}
  Containers = {c1}
  Pod <- OnePod
  Reqs = {r1, r2}
  Sups = {w1}
  None = None
  Initial = {p1}
  Ops = {"stop", "start", "stopc", "exec"}
  MaxReqs = 2
  MaxCrashes = 0
  MaxDeaths = 1
  MayFail = TRUE
CHECK_DEADLOCK FALSE

PROPERTIES ExitsReported RequestsEnd
