SPECIFICATION FairSpec
CONSTANTS
  Clients = {c1, c2}
  Main = Main
  Loop = Loop
  N = 5
  MaxSize = 2
  MinIdle = 2
  MaxMinIdle = 0
  MaxAcquires = 2
  MaxFaults = 1
  MaxDrains = 2
CHECK_DEADLOCK FALSE

INVARIANTS TypeOK VmsAccounted IdleBounded
PROPERTIES DrainedIsQuiet Replenished DrainEnds
