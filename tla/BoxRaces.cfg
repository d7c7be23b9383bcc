SPECIFICATION Spec
CONSTANTS
  b1 = b1
  b2 = b2
  Boxes = {b1, b2}
  AutoRemove = {b2}
  Policy <- UnlessStopped
  MaxRestart <- AtMostOne
  HasCheck = {}
  Retries = 1
  RetryCap = 2
  Cli = {c1, c2}
  Monitor = m
  Checkers = {}
  NoProc = NoProc
  NoBox = NoBox
  Initial = {b1}
  Ops = {"runfg", "start", "stop", "restart", "killterm", "pause", "rmforce", "ps"}
  MaxOps = 3
  MaxArgs = 1
  MaxPid = 2
  MonitorRuns = FALSE
  MayCrash = TRUE
INVARIANTS RecordsConsistent LockHeldInModify
CHECK_DEADLOCK FALSE
SYMMETRY CliSymmetry
