CONSTANTS
  a = a
  b = b
  c = c
  N = 2
  F = 0
  K = 1
  L = 2
  MaxView = 0
  Requests = {a, b}
  Faulty = {}
  FaultyMsgs <- MCNoMsgs
  Client <- MCClientAB
SPECIFICATION Spec
INVARIANT CheckpointAgreement
CHECK_DEADLOCK FALSE
