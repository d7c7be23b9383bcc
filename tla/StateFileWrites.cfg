SPECIFICATION Spec
CONSTANTS
  Procs = {p1, p2, p3}
  Unlocked = {p3}
  NoProc = NoProc
  Values = {s1, s2, s3}
  Truncated = Truncated
  Garbled = Garbled
  NoFile = NoFile
INVARIANTS TypeOK TmpOwned
PROPERTY AtomicUntilRaced
