SPECIFICATION FairSpec
CONSTANTS
  Kinds = {"exec", "pty"}
  Streams = {"stdout"}
  MaxOut = 2
  PipeCap = 1
  MaxRotations = 1
  MaxFaults = 1
INVARIANTS TypeOK LogComplete FlushBoundary ReopenedInPlace ExitCodeReported
PROPERTY StopEnds
CHECK_DEADLOCK FALSE
