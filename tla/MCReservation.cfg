SPECIFICATION Spec
CONSTANTS
  NULL = NULL
  a1 = a1
  b1 = b1
  b2 = b2
  d1 = d1
  d2 = d2
  w1 = w1
  w2 = w2
  Agents = {a1}
  Borrowers = {b1}
  Workers = {w1, w2}
  Dials = {d1, d2}
  WorkerOf <- MCWorkerOf
  Leavers = {}
  RESERVATION_TTL = 0
  MAX_CALL_ATTEMPTS = 2
  RetryBackoff <- MCBackoff
  MaxTime = 1
  MaxVersion = 4
INVARIANTS
  TypeOK
  AgentClaimStands
  AgentExclusive
  BorrowerExclusive
  AttemptsRemain
PROPERTIES
  SettledStaysSettled
  OnlyItsWorkerEndsAClaim
  ImplementsExclusiveClaims
CHECK_DEADLOCK FALSE
