CONSTANTS
  t1 = t1
  t2 = t2
  t3 = t3
  Threads = {t1, t2, t3}
  Tokens = 1
  MaxUps = 1
SPECIFICATION FairSpec
INVARIANTS TypeOK TokensAddUp NoTokenInvented NoTokenLost
PROPERTIES DownEnds
\* A state in which everybody sleeps violates DownEnds.
CHECK_DEADLOCK FALSE
