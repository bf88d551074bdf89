------------------------------------ MODULE Pacing ------------------------------------
(* How many calls a tick asks for: app/pacing/pacing_engine.py and the configuration the  *)
(* two dialers give it.  Rates and factors are percentages, so every floor is exact; the  *)
(* code's floating point may differ from it by one call at an exact boundary.              *)
EXTENDS Naturals

CONSTANTS SOON_FREE_PERCENT,    \* Settings.SOON_FREE_WEIGHT
          MARGIN_PERCENT,       \* Settings.SAFETY_MARGIN
          VOLATILITY_PERCENT,   \* Settings.VOLATILITY_FACTOR
          MAX_REQUEST_PER_TICK,
          BASELINE_PERCENT,     \* PacingConfig.baseline_answer_rate of the campaign
          MIN_ANSWER_PERCENT, MAX_ANSWER_PERCENT,   \* Settings.MIN_ANSWER_RATE, MAX_ANSWER_RATE
          VOLATILITY_THRESHOLD_PERCENT              \* Settings.VOLATILITY_THRESHOLD

ASSUME PacingAssumption ==
  /\ SOON_FREE_PERCENT \in Nat /\ MARGIN_PERCENT \in Nat /\ VOLATILITY_PERCENT \in Nat
  /\ MAX_REQUEST_PER_TICK \in Nat /\ BASELINE_PERCENT \in 1 .. 100
  /\ MIN_ANSWER_PERCENT \in 1 .. 100 /\ MAX_ANSWER_PERCENT \in MIN_ANSWER_PERCENT .. 100
  /\ VOLATILITY_THRESHOLD_PERCENT \in Nat

DialingMode == {"PROGRESSIVE", "PREDICTIVE"}

ProviderHealthStatus == {"HEALTHY", "DEGRADED", "UNHEALTHY"}

HEALTH_PERCENT == [HEALTHY |-> 100, DEGRADED |-> 50, UNHEALTHY |-> 0]

\* The calls that ended in a window of time, and those of them that had been answered.
Windows == [answered : Nat, total : Nat]

\* A rate is seen only where calls have ended; observed_answer_rate is None otherwise.
observed_answer_rate(window) == (100 * window.answered) \div window.total

\* blended_answer_rate, clamped, in hundredths of a percent: 70 % recent, 30 % baseline.
blended_answer_rate(recent) ==
  LET blended == IF recent.total = 0 THEN 100 * BASELINE_PERCENT
                 ELSE 70 * observed_answer_rate(recent) + 30 * BASELINE_PERCENT
  IN IF blended < 100 * MIN_ANSWER_PERCENT THEN 100 * MIN_ANSWER_PERCENT
     ELSE IF blended > 100 * MAX_ANSWER_PERCENT THEN 100 * MAX_ANSWER_PERCENT
     ELSE blended

is_volatile(recent, previous) ==
  /\ recent.total > 0 /\ previous.total > 0
  /\ \/ observed_answer_rate(recent) > observed_answer_rate(previous) + VOLATILITY_THRESHOLD_PERCENT
     \/ observed_answer_rate(previous) > observed_answer_rate(recent) + VOLATILITY_THRESHOLD_PERCENT

\* engine_config of the two dialers; PROGRESSIVE forces the answer rate to 1.
EngineConfig(mode, recent) ==
  IF mode = "PROGRESSIVE" THEN [rate |-> 10000, margin |-> 100, soonFree |-> 0]
  ELSE [rate |-> blended_answer_rate(recent), margin |-> MARGIN_PERCENT,
        soonFree |-> SOON_FREE_PERCENT]

\* math.floor(max(0.0, calls_needed - in_flight)).
RawRequest(snapshot, config) ==
  LET needed == (100 * (100 * snapshot.available + config.soonFree * snapshot.soonFree))
                  \div config.rate
  IN IF needed > snapshot.inFlight THEN needed - snapshot.inFlight ELSE 0

\* PacingSnapshot: available agents, agents soon free, calls and agents in flight, the
\* provider's health and the last two windows.
Snapshots ==
  [ available : Nat, soonFree : Nat, inFlight : Nat, health : ProviderHealthStatus,
    recent : Windows, previous : Windows ]

\* _compute.
compute_request(snapshot, mode) ==
  LET config == EngineConfig(mode, snapshot.recent)
      volatile == is_volatile(snapshot.recent, snapshot.previous)
      scaled == (RawRequest(snapshot, config) * config.margin
                  * HEALTH_PERCENT[snapshot.health]
                  * (IF volatile THEN VOLATILITY_PERCENT ELSE 100)) \div 1000000
  IN IF scaled < MAX_REQUEST_PER_TICK THEN scaled ELSE MAX_REQUEST_PER_TICK
=======================================================================================
