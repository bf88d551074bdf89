------------------------------- MODULE SafetyController -------------------------------
(* The decision of app/safety/safety_controller.py on one request, as a function of what  *)
(* it reads: eight limits, the number approved, the limit that is named, the verdict.     *)
(* Ratios against a threshold (failure rate, availability drop, snapshot age) enter as     *)
(* whether they exceed it.                                                                 *)
EXTENDS Pacing, FiniteSetsExt

CONSTANTS MAX_RINGING_PERCENT,  \* Settings.MAX_RINGING_RATIO
          NONE                  \* no limit is binding, no reason to fall back

ASSUME RingingAssumption == MAX_RINGING_PERCENT \in Nat

SafetyVerdict == {"APPROVED", "REDUCED", "REJECTED", "FALLBACK_PROGRESSIVE"}

\* The order in which _build_constraints lists them.
CONSTRAINTS ==
  << "agent_capacity", "campaign_concurrency", "ringing_ceiling", "provider_health",
     "progressive_mode_cap", "stale_state", "availability_drop", "failure_rate" >>

Constraints == { CONSTRAINTS[i] : i \in 1 .. 8 }

\* CapacityReading, with the campaign's limit and what the request and the tracker add.
Readings ==
  [ available : Nat, reserved : Nat, active : Nat, ringing : Nat, maxCalls : Nat,
    health : ProviderHealthStatus, stale : BOOLEAN, dropped : BOOLEAN, failing : BOOLEAN ]

\* max(0, a - b).
Minus(a, b) == IF a > b THEN a - b ELSE 0

ringing_ceiling(reading) == (MAX_RINGING_PERCENT * reading.available) \div 100

\* _build_constraints.  An uncapped limit is the request itself.
Limits(requested, mode, reading) ==
  LET progressive(capped) == IF capped THEN reading.available ELSE requested IN
  [ agent_capacity       |-> Minus(reading.available, reading.reserved),
    campaign_concurrency |-> Minus(reading.maxCalls, reading.active),
    ringing_ceiling      |-> Minus(ringing_ceiling(reading), reading.ringing),
    provider_health      |-> IF reading.health = "UNHEALTHY" THEN 0
                             ELSE progressive(reading.health = "DEGRADED"),
    progressive_mode_cap |-> progressive(mode = "PROGRESSIVE"),
    stale_state          |-> IF reading.stale THEN 0 ELSE requested,
    availability_drop    |-> progressive(reading.dropped),
    failure_rate         |-> progressive(reading.failing) ]

\* max(0, min(requested, every limit)); no limit is negative.
Approved(requested, mode, reading) ==
  Min({requested} \cup { Limits(requested, mode, reading)[c] : c \in Constraints })

BindingConstraint_bug(requested, mode, reading) ==   \* the first limit that reduces anything
  LET limits == Limits(requested, mode, reading)
      binding == { i \in 1 .. 8 : limits[CONSTRAINTS[i]] < requested }
  IN IF binding = {} THEN NONE ELSE CONSTRAINTS[Min(binding)]

\* _mark_binding: the first limit that equals what is approved.
BindingConstraint(requested, mode, reading) ==
  LET approved == Approved(requested, mode, reading)
      binding == { i \in 1 .. 8 : Limits(requested, mode, reading)[CONSTRAINTS[i]] = approved }
  IN IF approved >= requested \/ binding = {} THEN NONE ELSE CONSTRAINTS[Min(binding)]

\* should_fallback_to_progressive.
FallbackReason(reading) ==
  IF reading.stale THEN "stale_state"
  ELSE IF reading.health # "HEALTHY" THEN "provider_degraded"
  ELSE IF reading.dropped THEN "availability_drop"
  ELSE IF reading.ringing > ringing_ceiling(reading) THEN "excessive_ringing"
  ELSE IF reading.failing THEN "high_failure_rate"
  ELSE NONE

\* _verdict.
Verdict(requested, approved, reason) ==
  IF requested = 0 THEN "APPROVED"
  ELSE IF reason # NONE /\ approved > 0 THEN "FALLBACK_PROGRESSIVE"
  ELSE IF approved = 0 THEN "REJECTED"
  ELSE IF approved < requested THEN "REDUCED"
  ELSE "APPROVED"

\* What evaluate returns when _evaluate raises: it fails closed.
RejectedByError == [approved |-> 0, verdict |-> "REJECTED", binding |-> "evaluation_error"]

Decision(requested, mode, reading) ==
  LET approved == Approved(requested, mode, reading) IN
  [ approved |-> approved,
    verdict  |-> Verdict(requested, approved, FallbackReason(reading)),
    binding  |-> BindingConstraint(requested, mode, reading) ]
=======================================================================================
