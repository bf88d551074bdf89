SPECIFICATION Spec
CONSTANTS
  a1 = a1
  r1 = r1
  r2 = r2
  w1 = w1
  NULL = NULL
  Agents = {a1}
  RecoveryWorkers = {r1}
  DialerWorkers = {w1}
  AGENT_HEARTBEAT_TIMEOUT_SECONDS = 1
  WRAP_UP_SECONDS = 1
  MaxSweepDelay = 0
PROPERTIES
  OfflineMeansSilent
CHECK_DEADLOCK FALSE
