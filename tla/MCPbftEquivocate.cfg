CONSTANTS
  a = a
  b = b
  c = c
  N = 4
  F = 1
  K = 2
  L = 4
  MaxView = 0
  Requests = {a, b}
  Faulty = {0}
  FaultyMsgs <- MCEquivocate
  Client <- MCNoClient
INIT InitEquivocate
NEXT Next
INVARIANT Agreement
INVARIANT PreparedAgreement
CHECK_DEADLOCK FALSE
