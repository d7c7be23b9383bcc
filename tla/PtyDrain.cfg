SPECIFICATION Spec
CONSTANTS
  Kinds = {"pty"}
  Streams = {"stdout"}
  MaxOut = 1
  PipeCap = 1
  MaxRotations = 1
  MaxFaults = 0
INVARIANT PtyDrained
CHECK_DEADLOCK FALSE
