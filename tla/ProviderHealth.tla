-------------------------------- MODULE ProviderHealth --------------------------------
(* The circuit breaker: ProviderHealthManager keeps the outcomes of the last originate      *)
(* requests of its process, derives the provider's status from them whenever somebody asks,  *)
(* and every loop asks before a batch (safety) and before every retry (RetryService).  The   *)
(* workers of a simulation share one manager, a process of main.py has one loop.  Between    *)
(* the question, the request and its answer a loop awaits the database and the provider:     *)
(* the other loops go on, and the samples grow old.  Nothing resets the window: a provider   *)
(* that gets no calls is healthy again once its samples are too old.                         *)
EXTENDS Pacing, Sequences, FiniteSets

CONSTANTS Loops,                \* dialer workers sharing the manager
          Outcomes,             \* what an originate request to this provider can lead to
          HEALTH_WINDOW,        \* in the unit of the clock
          HEALTH_MIN_SAMPLES,
          UNHEALTHY_CONSECUTIVE_FAILURES,
          TIMEOUT_PERCENT,      \* Settings.UNHEALTHY_TIMEOUT_RATE
          FAILURE_PERCENT       \* Settings.DEGRADED_FAILURE_RATE

\* Accepted, accepted after more than DEGRADED_LATENCY_MS, rejected at once, no answer
\* within PROVIDER_TIMEOUT_SECONDS (recorded as a latency above DEGRADED_LATENCY_MS).
OriginateOutcomes == {"accepted", "slow", "rejected", "timeout"}

ASSUME HealthAssumption ==
  /\ IsFiniteSet(Loops) /\ Loops # {}
  /\ Outcomes \subseteq OriginateOutcomes
  /\ HEALTH_WINDOW \in Nat /\ HEALTH_MIN_SAMPLES \in Nat
  /\ UNHEALTHY_CONSECUTIVE_FAILURES \in Nat \ {0}
  /\ TIMEOUT_PERCENT \in 0 .. 100 /\ FAILURE_PERCENT \in 0 .. 100

Failures == {"rejected", "timeout"}

\* Ages stop one beyond the window.
MaxAge == HEALTH_WINDOW + 1

Ages == 0 .. MaxAge
Sample == [ outcome : Outcomes, age : Ages ]

VARIABLES samples,    \* the window, oldest first: the outcome and its age
          up,         \* whether the provider answers, and quickly
          pc,         \* of each loop: "asleep" until its next tick, "awake", in a "batch",
                      \* "dialling" (past the gate), "calling" (request sent, no answer yet)
          left,       \* calls its batch may still make
          retrying,   \* its dial is a retry that the gate has let through
          late        \* history: retries it has sent since UNHEALTHY_CONSECUTIVE_FAILURES
                      \* failures in a row are in the window

vars == <<samples, up, pc, left, retrying, late>>

TypeOK ==
  /\ samples \in Seq(Sample)
  /\ \A i \in 1 .. Len(samples) : samples[i].age <= HEALTH_WINDOW
  /\ \A i, j \in 1 .. Len(samples) : i < j => samples[i].age >= samples[j].age
  /\ up \in BOOLEAN
  /\ pc \in [Loops -> {"asleep", "awake", "batch", "dialling", "calling"}]
  /\ left \in [Loops -> 0 .. MAX_REQUEST_PER_TICK]
  /\ \A l \in Loops : pc[l] \in {"dialling", "calling"} => left[l] < MAX_REQUEST_PER_TICK
  /\ retrying \in [Loops -> BOOLEAN]
  /\ late \in [Loops -> Nat]

Init ==
  /\ samples = <<>>
  /\ up \in BOOLEAN
  /\ pc = [l \in Loops |-> "asleep"]
  /\ left = [l \in Loops |-> 0]
  /\ retrying = [l \in Loops |-> FALSE]
  /\ late = [l \in Loops |-> 0]

--------------------------------------------------------------------------------------
Trim_bug(window) ==                        \* the last few, whatever their age
  IF Len(window) <= 4 THEN window ELSE SubSeq(window, Len(window) - 3, Len(window))

\* _trim: popleft while the oldest sample is older than the window.
Expired(window) ==
  CHOOSE n \in 0 .. Len(window) :
    /\ \A i \in 1 .. n : window[i].age > HEALTH_WINDOW
    /\ n < Len(window) => window[n + 1].age <= HEALTH_WINDOW

Trim(window) == SubSeq(window, Expired(window) + 1, Len(window))

Having(window, outcomes) == Cardinality({ i \in 1 .. Len(window) : window[i].outcome \in outcomes })

\* _count_trailing_failures.
TrailingFailures(window) ==
  Len(window) - (CHOOSE i \in 0 .. Len(window) :
                   /\ i > 0 => window[i].outcome \notin Failures
                   /\ \A j \in i + 1 .. Len(window) : window[j].outcome \in Failures)

\* int(round(0.95 * (n - 1))), half to even.
P95Index(n) ==
  LET hundredths == 95 * (n - 1)
      low == hundredths \div 100
      rest == hundredths % 100
  IN IF rest > 50 \/ (rest = 50 /\ low % 2 = 1) THEN low + 1 ELSE low

\* percentile(latencies, 0.95) > DEGRADED_LATENCY_MS: sorted, the slow ones come last.
P95IsSlow(window) ==
  Len(window) > 0 /\ P95Index(Len(window)) >= Len(window) - Having(window, {"slow", "timeout"})

derive_status_bug(window) ==               \* no verdict on a few samples
  IF Len(window) < HEALTH_MIN_SAMPLES THEN "HEALTHY"
  ELSE IF TrailingFailures(window) >= UNHEALTHY_CONSECUTIVE_FAILURES
          \/ Having(window, {"timeout"}) * 100 > TIMEOUT_PERCENT * Len(window) THEN "UNHEALTHY"
  ELSE IF \/ Having(window, Failures) * 100 > FAILURE_PERCENT * Len(window)
          \/ P95IsSlow(window) THEN "DEGRADED" ELSE "HEALTHY"

derive_status(window) ==
  LET count == Len(window)
      low_confidence == count < HEALTH_MIN_SAMPLES
      unhealthy == \/ TrailingFailures(window) >= UNHEALTHY_CONSECUTIVE_FAILURES
                   \/ ~low_confidence
                      /\ Having(window, {"timeout"}) * 100 > TIMEOUT_PERCENT * count
      degraded == \/ Having(window, Failures) * 100 > FAILURE_PERCENT * count
                  \/ P95IsSlow(window)
  IN IF unhealthy THEN "UNHEALTHY"
     ELSE IF ~low_confidence /\ degraded THEN "DEGRADED" ELSE "HEALTHY"

status == derive_status(samples)

Aged(window) ==
  [i \in 1 .. Len(window) |-> [window[i] EXCEPT !.age = IF @ < MaxAge THEN @ + 1 ELSE @]]

Record_bug(outcome, window) == Trim(<<[outcome |-> outcome, age |-> 0]>> \o window)

\* record_originate: append, then trim.
Record(outcome, window) == Trim(Append(window, [outcome |-> outcome, age |-> 0]))

--------------------------------------------------------------------------------------
\* The history starts again once the failures in the window are too few to tell.
FailuresTell(window) == TrailingFailures(window) >= UNHEALTHY_CONSECUTIVE_FAILURES

Told == late' = IF FailuresTell(samples') THEN late ELSE [l \in Loops |-> 0]

Moves(l, from, to) == pc[l] = from /\ pc' = [pc EXCEPT ![l] = to]

\* One tick of a loop: nothing is approved for an UNHEALTHY provider, for any other up to
\* MAX_REQUEST_PER_TICK; the agents decide how much.
StartBatch(l, approved) ==
  /\ Moves(l, "awake", "batch")
  /\ status = "UNHEALTHY" => approved = 0
  /\ left' = [left EXCEPT ![l] = approved]
  /\ UNCHANGED <<samples, late, up, retrying>>

\* No agent or no borrower to be had: a contended attempt, or the last one allowed.
NoPair(l) ==
  /\ pc[l] = "batch"
  /\ \E fewer \in 0 .. MAX_REQUEST_PER_TICK :
       fewer < left[l] /\ left' = [left EXCEPT ![l] = fewer]
  /\ UNCHANGED <<samples, up, pc, retrying, late>>

\* The gate of _dial: a borrower that has been called before is not called again while the
\* provider is UNHEALTHY; a first attempt is not held up.
PassGate_bug(l, retry) ==
  /\ Moves(l, "batch", "dialling") /\ left[l] > 0
  /\ left' = [left EXCEPT ![l] = @ - 1]
  /\ retrying' = [retrying EXCEPT ![l] = retry]
  /\ UNCHANGED <<samples, late, up>>

PassGate(l, retry) ==
  /\ Moves(l, "batch", "dialling") /\ left[l] > 0
  /\ retry => status # "UNHEALTHY"
  /\ left' = [left EXCEPT ![l] = @ - 1]
  /\ retrying' = [retrying EXCEPT ![l] = retry]
  /\ UNCHANGED <<samples, late, up>>

RetrySuppressed(l) ==
  /\ pc[l] = "batch" /\ left[l] > 0
  /\ status = "UNHEALTHY"
  /\ left' = [left EXCEPT ![l] = @ - 1]
  /\ UNCHANGED <<samples, late, up, pc, retrying>>

\* The call document cannot be brought to INITIATED: no request.
NotDialled(l) ==
  /\ Moves(l, "dialling", "batch")
  /\ retrying' = [retrying EXCEPT ![l] = FALSE]
  /\ UNCHANGED <<samples, up, left, late>>

\* The database operations of _dial are done and the request goes out; the window is not
\* looked at again.
Request(l) ==
  /\ Moves(l, "dialling", "calling")
  /\ late' = IF retrying[l] /\ FailuresTell(samples) THEN [late EXCEPT ![l] = @ + 1] ELSE late
  /\ retrying' = [retrying EXCEPT ![l] = FALSE]
  /\ UNCHANGED <<samples, up, left>>

\* The rest of _originate: the answer, or none, is recorded.
Originate(l, outcome) ==
  /\ Moves(l, "calling", "batch")
  /\ outcome = "accepted" \/ ~up
  /\ samples' = Record(outcome, samples)
  /\ Told
  /\ UNCHANGED <<up, left, retrying>>

\* The batch is over, or an error ends the tick; the loop waits for DIALER_TICK_SECONDS.
Sleep(l) ==
  /\ pc[l] \in {"batch", "dialling"}
  /\ pc' = [pc EXCEPT ![l] = "asleep"]
  /\ left' = [left EXCEPT ![l] = 0]
  /\ retrying' = [retrying EXCEPT ![l] = FALSE]
  /\ UNCHANGED <<samples, up, late>>

\* One unit of time, a tick's length, whatever the loops are doing.  Every reading of the
\* window trims it first, so nobody sees a sample that is too old: it is dropped at once.
TimePasses ==
  /\ samples' = Trim(Aged(samples))
  /\ pc' = [l \in Loops |-> IF pc[l] = "asleep" THEN "awake" ELSE pc[l]]
  /\ Told
  /\ UNCHANGED <<up, left, retrying>>

\* The provider breaks down or is repaired.
ProviderChanges ==
  /\ up' = ~up
  /\ UNCHANGED <<samples, pc, left, retrying, late>>

Loop(l) ==
  \/ \E approved \in 0 .. MAX_REQUEST_PER_TICK : StartBatch(l, approved)
  \/ NoPair(l)
  \/ \E retry \in BOOLEAN : PassGate(l, retry)
  \/ RetrySuppressed(l)
  \/ NotDialled(l)
  \/ Request(l)
  \/ \E outcome \in Outcomes : Originate(l, outcome)
  \/ Sleep(l)

Next == (\E l \in Loops : Loop(l)) \/ TimePasses \/ ProviderChanges

Spec == Init /\ [][Next]_vars

\* The clock goes on.  Nothing is asked of the loops: one that hangs does no harm here.
FairSpec == Spec /\ WF_vars(TimePasses)

--------------------------------------------------------------------------------------
\* A provider that is down gets no more than the batches in which it turned UNHEALTHY, one
\* of each loop: with the failures that were not enough to tell, at most this many in a row
\* in one window.  Nothing is approved afterwards until samples have expired; an outage
\* longer than the window gets another batch then.
OutageIsContained ==
  TrailingFailures(samples)
    <= UNHEALTHY_CONSECUTIVE_FAILURES - 1 + Cardinality(Loops) * MAX_REQUEST_PER_TICK

\* Retries do not keep a provider in trouble busy: from the moment the failures in the
\* window tell, until they no longer do, each loop sends at most the one retry that had
\* passed the gate before, and the loop whose failure told sends none; so none at all is
\* sent where one loop has the manager to itself (RetryService.should_retry, asked for each
\* dial some database operations before its request).
RetriesAreContained ==
  /\ \A l \in Loops : late[l] <= 1
  /\ \E l \in Loops : late[l] = 0

\* The circuit closes again: no calls means no samples, and old samples do not count.
OutageEnds == status = "UNHEALTHY" ~> status # "UNHEALTHY"

\* A provider that stays repaired is HEALTHY for good in the end, and so dialled at full
\* speed, whatever its window holds when it is repaired.
RepairIsNoticed == <>[]up => <>[](status = "HEALTHY")
=======================================================================================
