CONSTANTS
  a = a
  b = b
  c = c
  N = 3
  F = 0
  K = 1
  L = 1
  MaxView = 0
  Requests = {a, b, c}
  Faulty = {}
  FaultyMsgs <- MCNoMsgs
  Client <- MCClientBC
INIT InitCheckpoint
NEXT Next
SYMMETRY MCPermutations
INVARIANT LedgerAgreement
INVARIANT CheckpointAgreement
INVARIANT WatermarkExecuted
PROPERTY NeverBack
CHECK_DEADLOCK FALSE
