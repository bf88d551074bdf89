---------------------------------- MODULE SafetyProofs ---------------------------------
(* What one pacing request and one safety decision guarantee, for every snapshot, every   *)
(* reading and all settings.                                                              *)
EXTENDS SafetyController, WellFoundedInduction, TLAPS

(* The request: Pacing.                                                                   *)

LEMMA Quotient ==
  ASSUME NEW n \in Nat, NEW d \in Nat, d > 0
  PROVE  n \div d \in Nat /\ (n \div d) * d <= n
  BY Z3

LEMMA Product ==
  ASSUME NEW m \in Nat, NEW n \in Nat
  PROVE  m * n \in Nat
  OBVIOUS

LEMMA RateIsNumber ==
  ASSUME NEW window \in Windows, window.total > 0
  PROVE  observed_answer_rate(window) \in Nat
  <1>1. 100 * window.answered \in Nat /\ window.total \in Nat
    BY DEF Windows
  <1> QED BY <1>1, Quotient DEF observed_answer_rate

\* Whatever the last window saw, the rate the pacing engine divides by is within the limits of
\* the settings, never 0, and never more than certainty.
THEOREM AnswerRateIsClamped ==
  ASSUME NEW recent \in Windows
  PROVE  /\ blended_answer_rate(recent) \in 100 * MIN_ANSWER_PERCENT .. 100 * MAX_ANSWER_PERCENT
         /\ blended_answer_rate(recent) \in 100 .. 10000
  <1> DEFINE blended == IF recent.total = 0 THEN 100 * BASELINE_PERCENT
                        ELSE 70 * observed_answer_rate(recent) + 30 * BASELINE_PERCENT
             low == 100 * MIN_ANSWER_PERCENT
             high == 100 * MAX_ANSWER_PERCENT
  <1>1. low \in Nat /\ high \in Nat /\ low <= high /\ 100 <= low /\ high <= 10000
    BY PacingAssumption
  <1>2. blended \in Nat
    <2>1. recent.total \in Nat /\ BASELINE_PERCENT \in Nat
      BY PacingAssumption DEF Windows
    <2>2. recent.total # 0 => observed_answer_rate(recent) \in Nat
      BY <2>1, RateIsNumber
    <2> QED BY <2>1, <2>2
  <1>3. blended_answer_rate(recent) =
          IF blended < low THEN low ELSE IF blended > high THEN high ELSE blended
    BY DEF blended_answer_rate
  <1> HIDE DEF blended, low, high
  <1>4. blended_answer_rate(recent) \in low .. high
    BY <1>1, <1>2, <1>3
  <1>5. low .. high \subseteq 100 .. 10000
    BY <1>1
  <1> QED BY <1>4, <1>5 DEF low, high

LEMMA ConfigType ==
  ASSUME NEW mode, NEW recent \in Windows
  PROVE  EngineConfig(mode, recent) \in [rate : Nat \ {0}, margin : Nat, soonFree : Nat]
  BY AnswerRateIsClamped, PacingAssumption DEF EngineConfig

LEMMA RawOfConfig ==
  ASSUME NEW snapshot \in Snapshots,
         NEW config \in [rate : Nat \ {0}, margin : Nat, soonFree : Nat]
  PROVE  RawRequest(snapshot, config) \in Nat
  <1> DEFINE agents == 100 * (100 * snapshot.available + config.soonFree * snapshot.soonFree)
  <1>1. /\ snapshot.available \in Nat /\ snapshot.soonFree \in Nat /\ snapshot.inFlight \in Nat
    BY DEF Snapshots
  <1>2. config.rate \in Nat /\ config.rate > 0 /\ config.soonFree \in Nat
    OBVIOUS
  <1>3. config.soonFree * snapshot.soonFree \in Nat
    BY <1>1, <1>2, Product
  <1>4. agents \in Nat
    BY <1>1, <1>3
  <1> HIDE DEF agents
  <1>5. agents \div config.rate \in Nat
    BY <1>2, <1>4, Quotient
  <1>6. RawRequest(snapshot, config) =
          IF agents \div config.rate > snapshot.inFlight
          THEN agents \div config.rate - snapshot.inFlight ELSE 0
    BY DEF RawRequest, agents
  <1> QED BY <1>1, <1>5, <1>6

LEMMA RawType ==
  ASSUME NEW mode, NEW snapshot \in Snapshots
  PROVE  RawRequest(snapshot, EngineConfig(mode, snapshot.recent)) \in Nat
  <1>1. snapshot.recent \in Windows
    BY DEF Snapshots
  <1> QED BY <1>1, ConfigType, RawOfConfig

LEMMA HealthFactor ==
  ASSUME NEW health \in ProviderHealthStatus
  PROVE  HEALTH_PERCENT[health] \in 0 .. 100 /\ (health = "UNHEALTHY" => HEALTH_PERCENT[health] = 0)
  BY DEF ProviderHealthStatus, HEALTH_PERCENT

\* A tick asks for a whole number of calls, never for more than MAX_REQUEST_PER_TICK, and for
\* none while the provider is UNHEALTHY.
THEOREM RequestIsBounded ==
  ASSUME NEW mode, NEW snapshot \in Snapshots
  PROVE  /\ compute_request(snapshot, mode) \in 0 .. MAX_REQUEST_PER_TICK
         /\ snapshot.health = "UNHEALTHY" => compute_request(snapshot, mode) = 0
  <1> DEFINE config == EngineConfig(mode, snapshot.recent)
             raw == RawRequest(snapshot, config)
             factor == IF is_volatile(snapshot.recent, snapshot.previous)
                       THEN VOLATILITY_PERCENT ELSE 100
             health == HEALTH_PERCENT[snapshot.health]
             product == raw * config.margin * health * factor
  <1>1. /\ raw \in Nat /\ config.margin \in Nat /\ factor \in Nat /\ health \in Nat
        /\ snapshot.health = "UNHEALTHY" => health = 0
    <2>1. snapshot.health \in ProviderHealthStatus /\ snapshot.recent \in Windows
      BY DEF Snapshots
    <2>2. raw \in Nat
      BY RawType
    <2>3. config.margin \in Nat
      BY <2>1, ConfigType
    <2>4. factor \in Nat
      BY PacingAssumption
    <2>5. health \in 0 .. 100 /\ (snapshot.health = "UNHEALTHY" => health = 0)
      BY <2>1, HealthFactor
    <2> HIDE DEF raw, config, factor, health
    <2> QED BY <2>2, <2>3, <2>4, <2>5
  <1>2. compute_request(snapshot, mode) =
          IF product \div 1000000 < MAX_REQUEST_PER_TICK
          THEN product \div 1000000 ELSE MAX_REQUEST_PER_TICK
    BY DEF compute_request
  <1> HIDE DEF raw, config, factor, health
  <1>3. product \in Nat /\ (health = 0 => product = 0)
    <2>1. raw * config.margin \in Nat
      BY <1>1, Product
    <2> DEFINE rc == raw * config.margin
    <2> HIDE DEF rc
    <2>2. rc * health \in Nat /\ (health = 0 => rc * health = 0)
      BY <1>1, <2>1, Product DEF rc
    <2> DEFINE rch == rc * health
    <2> HIDE DEF rch
    <2>3. rch * factor \in Nat /\ (rch = 0 => rch * factor = 0)
      BY <1>1, <2>2, Product DEF rch
    <2> QED BY <2>2, <2>3 DEF rc, rch
  <1> HIDE DEF product
  <1>4. product \div 1000000 \in Nat /\ (product = 0 => product \div 1000000 = 0)
    BY <1>3, Quotient
  <1> QED BY <1>1, <1>2, <1>3, <1>4, PacingAssumption

\* Progressive dialing never asks for a call without an agent for it: the request and what is
\* already in flight fit the agents that are available, unless the settings make a volatile
\* answer rate a reason to ask for more.
THEOREM ProgressiveNeedsAgents ==
  ASSUME NEW snapshot \in Snapshots, VOLATILITY_PERCENT <= 100
  PROVE  LET request == compute_request(snapshot, "PROGRESSIVE")
         IN request = 0 \/ request + snapshot.inFlight <= snapshot.available
  <1> DEFINE config == EngineConfig("PROGRESSIVE", snapshot.recent)
             raw == RawRequest(snapshot, config)
             factor == IF is_volatile(snapshot.recent, snapshot.previous)
                       THEN VOLATILITY_PERCENT ELSE 100
             health == HEALTH_PERCENT[snapshot.health]
             product == raw * config.margin * health * factor
             request == compute_request(snapshot, "PROGRESSIVE")
  <1>1. /\ raw \in Nat /\ config.margin = 100 /\ factor \in 0 .. 100 /\ health \in 0 .. 100
        /\ snapshot.available \in Nat /\ snapshot.inFlight \in Nat
    <2>1. snapshot.health \in ProviderHealthStatus /\ snapshot.available \in Nat
          /\ snapshot.inFlight \in Nat
      BY DEF Snapshots
    <2>2. raw \in Nat
      BY RawType
    <2>3. config.margin = 100
      BY DEF EngineConfig
    <2>4. factor \in 0 .. 100
      BY PacingAssumption
    <2>5. health \in 0 .. 100
      BY <2>1, HealthFactor
    <2> HIDE DEF raw, config, factor, health
    <2> QED BY <2>1, <2>2, <2>3, <2>4, <2>5
  <1>2. raw = 0 \/ raw + snapshot.inFlight = snapshot.available
    <2>1. config.rate = 10000 /\ config.soonFree = 0 /\ snapshot.soonFree \in Nat
      BY DEF EngineConfig, Snapshots
    <2>2. (100 * (100 * snapshot.available + 0 * snapshot.soonFree)) \div 10000 = snapshot.available
      BY <1>1, <2>1
    <2> HIDE DEF config
    <2> QED BY <1>1, <2>1, <2>2 DEF RawRequest
  <1>3. request = IF product \div 1000000 < MAX_REQUEST_PER_TICK
                  THEN product \div 1000000 ELSE MAX_REQUEST_PER_TICK
    BY DEF compute_request
  <1> HIDE DEF raw, config, factor, health, request
  <1>4. product \in Nat /\ product <= raw * 1000000
    <2> DEFINE hf == health * factor
    <2>1. hf \in 0 .. 10000
      BY <1>1, Z3
    <2>2. product = raw * 100 * hf
      BY <1>1, Z3
    <2> HIDE DEF hf
    <2>3. raw * 100 * hf \in Nat /\ raw * 100 * hf <= raw * 100 * 10000
      BY <1>1, <2>1, Z3
    <2> QED BY <1>1, <2>2, <2>3
  <1> HIDE DEF product
  <1>5. product \div 1000000 \in Nat /\ (product \div 1000000) * 1000000 <= product
    BY <1>4, Quotient
  <1>6. product \div 1000000 <= raw
    BY <1>1, <1>4, <1>5
  <1>7. request <= raw /\ request \in Nat
    BY <1>1, <1>3, <1>5, <1>6, PacingAssumption
  <1> QED BY <1>1, <1>2, <1>7 DEF request

--------------------------------------------------------------------------------------
(* The decision: SafetyController.                                                        *)

\* Min of FiniteSetsExt is what its name says, for every set of numbers.
LEMMA MinOfNumbers ==
  ASSUME NEW S, S \subseteq Nat, S # {}
  PROVE  Min(S) \in S /\ \A n \in S : Min(S) <= n
<1>1. PICK m \in S : \A n \in S : ~(<<n, m>> \in OpToRel(<, Nat))
  BY NatLessThanWellFounded, WFMin, Zenon
<1>2. \A n \in S : ~(n < m)
  BY <1>1, Zenon DEF OpToRel
<1>3. \A n \in S : m <= n
  BY <1>2
<1> QED
  BY <1>3 DEF Min

LEMMA TheConstraints ==
  Constraints = { "agent_capacity", "campaign_concurrency", "ringing_ceiling",
                  "provider_health", "progressive_mode_cap", "stale_state",
                  "availability_drop", "failure_rate" }
<1>1. 1 .. 8 = {1, 2, 3, 4, 5, 6, 7, 8}
  OBVIOUS
<1>2. Constraints = { CONSTRAINTS[i] : i \in {1, 2, 3, 4, 5, 6, 7, 8} }
  BY <1>1 DEF Constraints
<1> QED
  BY <1>2 DEF CONSTRAINTS

\* No limit is negative, which is why max(0, ...) never changes what is approved.
LEMMA LimitsAreNumbers ==
  ASSUME NEW requested \in Nat, NEW mode, NEW reading \in Readings, NEW c \in Constraints
  PROVE  Limits(requested, mode, reading)[c] \in Nat
<1>1. \A a, b \in Nat : Minus(a, b) \in Nat
  BY DEF Minus
<1>2. ringing_ceiling(reading) \in Nat
  BY RingingAssumption DEF ringing_ceiling, Readings
<1>3. reading.available \in Nat /\ reading.reserved \in Nat /\ reading.maxCalls \in Nat
      /\ reading.active \in Nat /\ reading.ringing \in Nat
  BY DEF Readings
<1>4. LET limits == Limits(requested, mode, reading)
      IN /\ limits.agent_capacity \in Nat /\ limits.campaign_concurrency \in Nat
         /\ limits.ringing_ceiling \in Nat /\ limits.provider_health \in Nat
         /\ limits.progressive_mode_cap \in Nat /\ limits.stale_state \in Nat
         /\ limits.availability_drop \in Nat /\ limits.failure_rate \in Nat
  BY <1>1, <1>2, <1>3 DEF Limits
<1> QED
  BY <1>4, TheConstraints

\* The approved number is one of the nine it is the least of.
LEMMA ApprovedIsLeast ==
  ASSUME NEW requested \in Nat, NEW mode, NEW reading \in Readings
  PROVE  LET limits == Limits(requested, mode, reading)
             approved == Approved(requested, mode, reading)
         IN /\ approved \in Nat
            /\ approved <= requested
            /\ \A c \in Constraints : approved <= limits[c]
            /\ approved = requested \/ \E c \in Constraints : approved = limits[c]
<1> DEFINE limits == Limits(requested, mode, reading)
           S == {requested} \cup { limits[c] : c \in Constraints }
<1>1. S \subseteq Nat
  BY LimitsAreNumbers
<1>2. Min(S) \in S /\ \A n \in S : Min(S) <= n
  BY <1>1, MinOfNumbers
<1> QED
  BY <1>1, <1>2 DEF Approved

\* A decision never approves more calls than were asked for, than there are agents free, or
\* than the campaign may still start; and none with an UNHEALTHY provider or stale state.
THEOREM ApprovalIsBounded ==
  ASSUME NEW requested \in Nat, NEW mode, NEW reading \in Readings
  PROVE  LET approved == Approved(requested, mode, reading)
         IN /\ approved \in 0 .. requested
            /\ approved + reading.reserved <= reading.available \/ approved = 0
            /\ approved + reading.active <= reading.maxCalls \/ approved = 0
            /\ reading.health = "UNHEALTHY" \/ reading.stale => approved = 0
<1> DEFINE limits == Limits(requested, mode, reading)
           approved == Approved(requested, mode, reading)
<1>1. /\ approved \in Nat
      /\ approved <= requested
      /\ \A c \in Constraints : approved <= limits[c]
  BY ApprovedIsLeast
<1>2. {"agent_capacity", "campaign_concurrency", "provider_health", "stale_state"}
        \subseteq Constraints
  BY TheConstraints
<1>3. approved + reading.reserved <= reading.available \/ approved = 0
  BY <1>1, <1>2 DEF Limits, Minus, Readings
<1>4. approved + reading.active <= reading.maxCalls \/ approved = 0
  BY <1>1, <1>2 DEF Limits, Minus, Readings
<1>5. reading.health = "UNHEALTHY" \/ reading.stale => approved = 0
  BY <1>1, <1>2 DEF Limits
<1> QED
  BY <1>1, <1>3, <1>4, <1>5

\* A decision that grants less than was asked names the first limit that allows no more: the
\* dashboard can always show "which rule bit".
THEOREM ReductionIsExplained ==
  ASSUME NEW requested \in Nat, NEW mode, NEW reading \in Readings,
         Approved(requested, mode, reading) < requested
  PROVE  LET rule == BindingConstraint(requested, mode, reading)
         IN rule \in Constraints
            /\ Limits(requested, mode, reading)[rule] = Approved(requested, mode, reading)
<1> DEFINE approved == Approved(requested, mode, reading)
           limits == Limits(requested, mode, reading)
           binding == { i \in 1 .. 8 : limits[CONSTRAINTS[i]] = approved }
<1>1. approved \in Nat /\ \E c \in Constraints : approved = limits[c]
  BY ApprovedIsLeast
<1>2. binding # {}
  BY <1>1 DEF Constraints
<1>3. Min(binding) \in binding
  BY <1>2, MinOfNumbers
<1>4. BindingConstraint(requested, mode, reading) = CONSTRAINTS[Min(binding)]
  BY <1>1, <1>2 DEF BindingConstraint
<1> QED
  BY <1>3, <1>4 DEF Constraints

\* Falling back to progressive never lowers what is approved: the limit of a DEGRADED
\* provider, of progressive mode, of an availability drop and of a high failure rate is the
\* number of available agents, and agent_capacity never allows more than that.
THEOREM FallbackNeverBinds ==
  ASSUME NEW requested \in Nat, NEW mode, NEW reading \in Readings
  PROVE  Approved(requested, mode, reading) =
           Approved(requested, "PREDICTIVE",
             [reading EXCEPT !.health  = IF @ = "UNHEALTHY" THEN @ ELSE "HEALTHY",
                             !.dropped = FALSE, !.failing = FALSE])
<1> DEFINE plain == [reading EXCEPT !.health  = IF @ = "UNHEALTHY" THEN @ ELSE "HEALTHY",
                                    !.dropped = FALSE, !.failing = FALSE]
           limits == Limits(requested, mode, reading)
           plainLimits == Limits(requested, "PREDICTIVE", plain)
           approved == Approved(requested, mode, reading)
           plainApproved == Approved(requested, "PREDICTIVE", plain)
<1>1. plain \in Readings
  BY DEF Readings, ProviderHealthStatus
<1>2. /\ plainLimits.agent_capacity = limits.agent_capacity
      /\ plainLimits.campaign_concurrency = limits.campaign_concurrency
      /\ plainLimits.ringing_ceiling = limits.ringing_ceiling
      /\ plainLimits.stale_state = limits.stale_state
      /\ plainLimits.provider_health = IF reading.health = "UNHEALTHY" THEN 0 ELSE requested
      /\ plainLimits.progressive_mode_cap = requested
      /\ plainLimits.availability_drop = requested
      /\ plainLimits.failure_rate = requested
  BY DEF Limits, ringing_ceiling, Readings
<1>3. /\ limits.provider_health \in {reading.available, plainLimits.provider_health}
      /\ reading.health = "UNHEALTHY" => limits.provider_health = 0
      /\ limits.progressive_mode_cap \in {reading.available, requested}
      /\ limits.availability_drop \in {reading.available, requested}
      /\ limits.failure_rate \in {reading.available, requested}
  BY <1>2 DEF Limits
<1>4. limits.agent_capacity <= reading.available
  BY DEF Limits, Minus, Readings
<1>5. /\ approved \in Nat /\ approved <= requested
      /\ \A c \in Constraints : approved <= limits[c]
      /\ approved = requested \/ \E c \in Constraints : approved = limits[c]
  BY ApprovedIsLeast
<1>6. /\ plainApproved \in Nat /\ plainApproved <= requested
      /\ \A c \in Constraints : plainApproved <= plainLimits[c]
      /\ plainApproved = requested \/ \E c \in Constraints : plainApproved = plainLimits[c]
  BY <1>1, ApprovedIsLeast
<1>7. reading.available \in Nat /\ \A c \in Constraints : limits[c] \in Nat
  BY LimitsAreNumbers DEF Readings
<1> HIDE DEF limits, plainLimits, approved, plainApproved, plain
\* What is granted fits the plain limits, ...
<1>8. approved <= plainApproved
  <2>1. \A c \in Constraints : approved <= plainLimits[c]
    BY <1>2, <1>3, <1>5, TheConstraints
  <2> QED
    BY <2>1, <1>5, <1>6
\* ... and what is plainly granted fits every limit, through agent_capacity.
<1>9. plainApproved <= approved
  <2>1. plainApproved <= reading.available
    BY <1>2, <1>4, <1>6, <1>7, TheConstraints
  <2>2. \A c \in Constraints : plainApproved <= limits[c]
    BY <2>1, <1>2, <1>3, <1>6, TheConstraints
  <2> QED
    BY <2>2, <1>5, <1>6
<1> QED
  BY <1>5, <1>6, <1>8, <1>9 DEF approved, plainApproved, plain

\* What a verdict says is so: APPROVED grants everything, REJECTED nothing of something, and
\* FALLBACK_PROGRESSIVE no more than the agents available, and only for a DEGRADED provider,
\* an availability drop or a high failure rate.  Stale state and too many ringing calls, the
\* other two reasons, allow no call at all and are always reported as REJECTED.
THEOREM VerdictIsTrue ==
  ASSUME NEW requested \in Nat, NEW mode, NEW reading \in Readings
  PROVE  LET d == Decision(requested, mode, reading)
         IN /\ d.verdict = "APPROVED" => d.approved = requested
            /\ d.verdict = "REJECTED" => d.approved = 0 /\ requested > 0
            /\ d.verdict = "REDUCED" => 0 < d.approved /\ d.approved < requested
            /\ d.verdict = "FALLBACK_PROGRESSIVE" =>
                 /\ d.approved <= reading.available
                 /\ ~reading.stale /\ reading.ringing <= ringing_ceiling(reading)
                 /\ reading.health = "DEGRADED" \/ reading.dropped \/ reading.failing
<1> DEFINE approved == Approved(requested, mode, reading)
           limits == Limits(requested, mode, reading)
           reason == FallbackReason(reading)
<1>1. /\ approved \in Nat /\ approved <= requested
      /\ \A c \in Constraints : approved <= limits[c]
  BY ApprovedIsLeast
<1>2. /\ approved <= limits.agent_capacity /\ approved <= limits.ringing_ceiling
      /\ approved <= limits.stale_state /\ approved <= limits.provider_health
  BY <1>1, TheConstraints
<1>3. /\ reading.available \in Nat /\ reading.ringing \in Nat /\ ringing_ceiling(reading) \in Nat
      /\ reading.health \in ProviderHealthStatus
      /\ reading.stale \in BOOLEAN /\ reading.dropped \in BOOLEAN /\ reading.failing \in BOOLEAN
  BY RingingAssumption DEF ringing_ceiling, Readings
<1>4. approved <= reading.available
  BY <1>1, <1>2 DEF Limits, Minus, Readings
<1>5. reading.stale => approved = 0
  BY <1>1, <1>2 DEF Limits
<1>6. reading.ringing > ringing_ceiling(reading) => approved = 0
  BY <1>1, <1>2, <1>3 DEF Limits, Minus
<1>7. reading.health = "UNHEALTHY" => approved = 0
  BY <1>1, <1>2 DEF Limits
<1>8. Decision(requested, mode, reading).approved = approved
      /\ Decision(requested, mode, reading).verdict = Verdict(requested, approved, reason)
  BY DEF Decision
<1> HIDE DEF approved, limits
<1>9. reason # NONE /\ approved > 0 =>
        /\ ~reading.stale /\ reading.ringing <= ringing_ceiling(reading)
        /\ reading.health = "DEGRADED" \/ reading.dropped \/ reading.failing
  BY <1>1, <1>3, <1>5, <1>6, <1>7 DEF FallbackReason, ProviderHealthStatus
<1> HIDE DEF reason
<1>10. LET v == Verdict(requested, approved, reason)
       IN /\ v = "APPROVED" => approved = requested
          /\ v = "REJECTED" => approved = 0 /\ requested > 0
          /\ v = "REDUCED" => 0 < approved /\ approved < requested
          /\ v = "FALLBACK_PROGRESSIVE" => reason # NONE /\ approved > 0
  BY <1>1 DEF Verdict
<1> QED
  BY <1>4, <1>8, <1>9, <1>10
========================================================================================
