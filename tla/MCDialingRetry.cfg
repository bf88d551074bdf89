SPECIFICATION Spec
CONSTANTS
  NULL = NULL
  a1 = a1
  a2 = a2
  b1 = b1
  b2 = b2
  w1 = w1
  w2 = w2
  Agents = {a1}
  Borrowers = {b1}
  Workers = {w1}
  OutOfOrder = FALSE
  Duplicates = FALSE
  MAX_CALL_ATTEMPTS = 2
  RetryBackoff <- MCBackoff
  MaxFaults = 0
  MaxClaims = 2
INVARIANTS
  ReservedBorrowersAreInWork
PROPERTIES
  CallsFollowTheLifecycle
CHECK_DEADLOCK FALSE
