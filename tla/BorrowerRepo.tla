--------------------------------- MODULE BorrowerRepo ---------------------------------
(* The borrower document and the writes of app/repositories/borrower_repo.py, in the   *)
(* style of AgentRepo.  The statuses IN_CALL, FAILED and DNC are never written by any   *)
(* code of the repository and are left out.                                             *)
EXTENDS Documents

CONSTANTS MAX_CALL_ATTEMPTS,  \* Settings.MAX_CALL_ATTEMPTS
          RetryBackoff        \* delay after the n-th attempt: base * 2^(n-1)

ASSUME MaxAttemptsAssumption == MAX_CALL_ATTEMPTS \in Nat \ {0}
ASSUME BackoffAssumption == RetryBackoff \in [1 .. MAX_CALL_ATTEMPTS -> Nat]

BorrowerStatus == {"PENDING", "RESERVED", "CONTACTED", "EXHAUSTED"}

BorrowerReleaseOutcome == {"RELEASED", "RETRY", "CONTACTED"}

BorrowerDoc(Ids) ==
  [ status           : BorrowerStatus,
    state_version    : Nat,
    attempt_count    : Nat,
    next_eligible_at : Nat,
    reserved_by      : Ids \cup {NULL},
    lease_expires_at : Nat \cup {NULL} ]

NewBorrower ==
  [ status |-> "PENDING", state_version |-> 0, attempt_count |-> 0,
    next_eligible_at |-> 0, reserved_by |-> NULL, lease_expires_at |-> NULL ]

BorrowerClaimable_bug(bo, at) == bo.next_eligible_at <= at

ReserveBorrower_bug(bo, worker, lease) ==  \* the lease is forgotten
  [ bo EXCEPT !.status = "RESERVED", !.state_version = @ + 1, !.reserved_by = worker ]

\* try_reserve_borrower.
BorrowerClaimable(bo, at) == bo.status = "PENDING" /\ bo.next_eligible_at <= at

ReserveBorrower(bo, worker, lease) ==
  [ bo EXCEPT !.status = "RESERVED", !.state_version = @ + 1,
              !.reserved_by = worker, !.lease_expires_at = lease ]

\* Every way out of RESERVED clears the lease and makes a new version.
BackTo(bo, status, attempts, eligible) ==
  [ status |-> status, state_version |-> bo.state_version + 1, attempt_count |-> attempts,
    next_eligible_at |-> eligible, reserved_by |-> NULL, lease_expires_at |-> NULL ]

Retried_bug(bo, at) ==                     \* one attempt too many
  LET n == bo.attempt_count + 1 IN
  BackTo(bo, IF n > MAX_CALL_ATTEMPTS THEN "EXHAUSTED" ELSE "PENDING", n,
         at + RetryBackoff[n])

Retried_failed_bug(bo, at) ==              \* parked in a status nothing reads
  BackTo(bo, "FAILED", bo.attempt_count + 1, at)

\* _build_retry_update: the attempt is counted, then the limit is tested.
Retried(bo, at) ==
  LET n == bo.attempt_count + 1 IN
  BackTo(bo, IF n >= MAX_CALL_ATTEMPTS THEN "EXHAUSTED" ELSE "PENDING", n,
         at + RetryBackoff[n])

BorrowerReleaseMatches_bug(bo, worker) == bo.status = "RESERVED"

BorrowerReleaseMatches(bo, worker) == bo.reserved_by = worker /\ bo.status = "RESERVED"

release_borrower(bo, worker, outcome, at) ==
  IF ~BorrowerReleaseMatches(bo, worker) THEN bo
  ELSE CASE outcome = "RELEASED"  ->
              BackTo(bo, "PENDING", bo.attempt_count, bo.next_eligible_at)
         [] outcome = "CONTACTED" ->
              BackTo(bo, "CONTACTED", bo.attempt_count + 1, bo.next_eligible_at)
         [] outcome = "RETRY"     -> Retried(bo, at)

BorrowerSweepable_bug(bo, at) ==           \* compared the wrong way round
  bo.status = "RESERVED" /\ bo.lease_expires_at # NULL /\ at < bo.lease_expires_at

\* reclaim_expired_borrower_leases: the query, then the guarded write per candidate.
BorrowerSweepable(bo, at) ==
  /\ bo.status = "RESERVED"
  /\ bo.reserved_by # NULL
  /\ LeaseOver(bo.lease_expires_at, at)

ReclaimMatches_bug(bo, seen, at) == TRUE   \* the write trusts the query

ReclaimMatches(bo, seen, at) ==
  /\ bo.status = seen.status
  /\ bo.state_version = seen.state_version
  /\ LeaseOver(bo.lease_expires_at, at)

reclaim_borrower(bo, seen, at) ==
  IF ReclaimMatches(bo, seen, at) THEN BackTo(bo, "PENDING", bo.attempt_count, at) ELSE bo
=======================================================================================
