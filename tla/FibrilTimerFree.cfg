CONSTANTS
  c1 = c1
  c2 = c2
  tf = tf
  None = None
  Clients = {c1, c2}
  Timer = tf
  MaxSets = 1
SPECIFICATION FairSpec
PROPERTIES ConnectionFreed
\* The system stops when all references have been dropped.
CHECK_DEADLOCK FALSE
