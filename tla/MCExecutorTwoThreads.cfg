CONSTANTS
  t1 = t1
  t2 = t2
  Threads = {t1, t2}
  K = 2
  L = 4
  QueueSize = 5
  Nulls = {}
  MayFail = FALSE
  MaxSeq = 4
SPECIFICATION Spec
INVARIANT NoGap
CHECK_DEADLOCK FALSE
