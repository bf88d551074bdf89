SPECIFICATION FairSpec
CONSTANTS
  Loops = {a, b}
  a = a
  b = b
  Outcomes = {"accepted", "rejected", "timeout"}
  HEALTH_WINDOW = 1
  HEALTH_MIN_SAMPLES = 3
  UNHEALTHY_CONSECUTIVE_FAILURES = 2
  TIMEOUT_PERCENT = 50
  FAILURE_PERCENT = 20
  SOON_FREE_PERCENT = 50
  MARGIN_PERCENT = 85
  VOLATILITY_PERCENT = 60
  MAX_REQUEST_PER_TICK = 2
  BASELINE_PERCENT = 30
  MIN_ANSWER_PERCENT = 5
  MAX_ANSWER_PERCENT = 95
  VOLATILITY_THRESHOLD_PERCENT = 15
INVARIANTS
  TypeOK
  OutageIsContained
  RetriesAreContained
PROPERTIES
  OutageEnds
  RepairIsNoticed
