CONSTANTS
  a = a
  b = b
  c = c
  N = 4
  F = 1
  K = 2
  L = 2
  MaxView = 1
  Requests = {a, b}
  Faulty = {0}
  FaultyMsgs <- MCNoMsgs
  Client <- MCNoClient
INIT InitEndOfView0
NEXT Next
INVARIANT TypeOK
INVARIANT Agreement
CHECK_DEADLOCK FALSE
