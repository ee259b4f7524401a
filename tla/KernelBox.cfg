CONSTANTS
  p1 = p1
  p2 = p2
  k1 = k1
  k2 = k2
  None = None
  Phones = {p1, p2}
  KThreads = {k1, k2}
  AllocFails = FALSE
  MaxCalls = 1
SPECIFICATION FairSpec
PROPERTIES KboxCleanupEnds
\* The task is gone in the end.
CHECK_DEADLOCK FALSE
