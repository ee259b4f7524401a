CONSTANTS
  c1 = c1
  c2 = c2
  tf = tf
  None = None
  Clients = {c1, c2}
  Timer = tf
  MaxSets = 1
SPECIFICATION FairSpec
PROPERTIES ClearEnds
\* The system stops when all references have been dropped, or when every client waits
\* for a handler that has ended.
CHECK_DEADLOCK FALSE
