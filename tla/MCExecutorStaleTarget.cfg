CONSTANTS
  t1 = t1
  t2 = t2
  Threads = {t1}
  K = 1
  L = 2
  QueueSize = 3
  Nulls = {}
  MayFail = FALSE
  MaxSeq = 4
SPECIFICATION Spec
INVARIANT Complete
CHECK_DEADLOCK FALSE
