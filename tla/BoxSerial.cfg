SPECIFICATION Spec
CONSTANTS
  b1 = b1
  b2 = b2
  Boxes = {b1, b2}
  AutoRemove = {b2}
  Policy <- OnFailure
  MaxRestart <- AtMostOne
  HasCheck = {b1}
  Retries = 1
  RetryCap = 2
  Cli = {c1}
  Monitor = m
  Checkers = {k1}
  NoProc = NoProc
  NoBox = NoBox
  Initial = {}
  Ops = {"create", "run", "runfg", "start", "stop", "restart", "rm", "rmforce", "killterm", "killkill", "killstop", "killcont", "killusr", "pause", "unpause", "prune", "touch", "ps"}
  MaxOps = 4
  MaxArgs = 2
  MaxPid = 3
  MonitorRuns = FALSE
  MayCrash = FALSE
INVARIANTS TypeOK VmsTracked FrozenIsPaused
CHECK_DEADLOCK FALSE
