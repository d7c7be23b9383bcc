SPECIFICATION Spec
CONSTANTS
  Boxes = {b1}
  Stale = {o1, o2, o3}
  Services <- MCServices
  Waits = {s2}
  s1 = s1
  s2 = s2
  Procs = {p1, p2}
  HostBits = 3
  MaxCmds = 3
  MaxFaults = 1
SYMMETRY ProcSymmetry
CHECK_DEADLOCK FALSE

INVARIANTS TypeOK EndpointsValid RunningIsConnected NothingLeftBehind
PROPERTY AttachedKept
