CONSTANTS
  t1 = t1
  t2 = t2
  c1 = c1
  c2 = c2
  NoOne = NoOne
  Threads = {t1, t2}
  Contexts = {c1, c2}
  Modes <- AllModes
  MaxOps = 3
SPECIFICATION FairSpec
INVARIANTS TypeOK NoLostWakeup NoLostInterrupt NoLostTimeout RequeuedOnce TimeoutFrameAlive
PROPERTIES QueueUnusedOnReturn ImplementsContract SleepEnds
\* A thread may sleep for ever when nobody wakes it up.
CHECK_DEADLOCK FALSE
