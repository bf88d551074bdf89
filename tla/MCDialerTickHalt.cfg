SPECIFICATION FairSpec
CONSTANTS
  a1 = a1
  a2 = a2
  c1 = c1
  c2 = c2
  c3 = c3
  w1 = w1
  w2 = w2
  NULL = NULL
  GONE = GONE
  NONE = NONE
  Processes = {w1}
  Agents = {a1}
  Calls = {c1, c2}
  MaxConcurrentCalls = 2
  MaxFaults = 1
  MaxOutcomes = 1
  BASELINE_PERCENT = 30
  MIN_ANSWER_PERCENT = 5
  MAX_ANSWER_PERCENT = 95
  VOLATILITY_THRESHOLD_PERCENT = 15
  Modes = {"PROGRESSIVE", "PREDICTIVE"}
  MAX_CONSECUTIVE_CONTENTIONS = 2
  DROP_PERCENT = 25
  SOON_FREE_PERCENT = 50
  MARGIN_PERCENT = 85
  VOLATILITY_PERCENT = 60
  MAX_REQUEST_PER_TICK = 2
  MAX_RINGING_PERCENT = 200
PROPERTIES
  HaltedCampaignDrains
  IdleAgentsAreUsed
CHECK_DEADLOCK FALSE
