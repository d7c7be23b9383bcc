SPECIFICATION FairSpec
CONSTANTS
  MIN_BACKOFF = 1
  MAX_BACKOFF = 6
  STABLE_THRESHOLD = 3
INVARIANT TypeOK
PROPERTIES ResetKeepsDistance Retried
