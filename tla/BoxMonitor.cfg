SPECIFICATION FairSpec
CONSTANTS
  b1 = b1
  b2 = b2
  Boxes = {b1}
  AutoRemove = {}
  Policy <- OnFailure
  MaxRestart <- AtMostOne
  HasCheck = {b1}
  Retries = 1
  RetryCap = 1
  Cli = {c1}
  Monitor = m
  Checkers = {}
  NoProc = NoProc
  NoBox = NoBox
  Initial = {b1}
  Ops = {"start", "stop"}
  MaxOps = 2
  MaxArgs = 1
  MaxPid = 3
  MonitorRuns = TRUE
  MayCrash = FALSE
INVARIANTS RecordsConsistent 
PROPERTIES CommandsEnd 
