CONSTANTS
  r1 = r1
  r2 = r2
  main = main
  w1 = w1
  w2 = w2
  m1 = m1
  m2 = m2
  NoFibril = NoFibril
  Runners = {r1, r2}
  FirstRunner = r1
  Workers = {main, w1}
  Main = main
  Managers = {m1}
  Late = {w1}
  BufferCount = 1
  MaxOps = 4
  MaxCalls = 1
SPECIFICATION FairSpec
INVARIANTS TypeOK TokenAccounting InOnePlace NotifyNotLost AssertionsHold CallsConserved
PROPERTIES IdleRunnersWork TimedWaitsEnd
\* The program may have nothing to do any more.
CHECK_DEADLOCK FALSE
