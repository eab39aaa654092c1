CONSTANTS
  t1 = t1
  t2 = t2
  Threads = {t1}
  K = 2
  L = 4
  QueueSize = 3
  Nulls = {2, 3}
  MayFail = TRUE
  MaxSeq = 8
SPECIFICATION Spec
INVARIANT TypeOK
INVARIANT NoGap
CHECK_DEADLOCK FALSE
