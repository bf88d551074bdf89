SPECIFICATION Spec
CONSTANTS
  NULL = NULL
  a1 = a1
  b1 = b1
  b2 = b2
  d1 = d1
  d2 = d2
  w1 = w1
  w2 = w2
  Agents = {a1}
  Borrowers = {b1, b2}
  Workers = {w1, w2}
  Dials = {d1, d2}
  WorkerOf <- MCSharedWorker
  Leavers = {}
  RESERVATION_TTL = 0
  MAX_CALL_ATTEMPTS = 2
  RetryBackoff <- MCBackoff
  MaxTime = 1
  MaxVersion = 6
INVARIANTS
  AgentExclusive
CHECK_DEADLOCK FALSE
