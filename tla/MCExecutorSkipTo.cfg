CONSTANTS
  t1 = t1
  t2 = t2
  Threads = {t1}
  K = 1
  L = 2
  QueueSize = 3
  Nulls = {}
  MayFail = FALSE
  MaxSeq = 4
SPECIFICATION FairSpec
PROPERTY SkipToReturns
CHECK_DEADLOCK FALSE
