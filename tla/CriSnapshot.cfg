SPECIFICATION Spec
CONSTANTS
  p1 = p1
  p2 = p2
  c1 = c1
  c2 = c2
  Sandboxes = {p1, p2}
  Containers = {c1, c2}
  Pod <- OnePod
  Reqs = {r1, r2}
  Sups = {w1, w2}
  None = None
  Initial = {p1}
  Ops = {"run", "stop", "remove", "create", "start", "stopc", "removec", "exec"}
  MaxReqs = 2
  MaxCrashes = 1
  MaxDeaths = 1
  MayFail = FALSE
CHECK_DEADLOCK FALSE
INVARIANT ManagedOnDisk
