---------------------------------- MODULE AgentRepo ----------------------------------
(* The agent document and the writes of app/repositories/agent_repo.py.  Each write   *)
(* is one find_one_and_update, so it is one atomic step: an operator for the filter it *)
(* matches and one for the document it leaves.  The modules that use them decide who   *)
(* calls them and in which order.  The per-state time counters are left out.           *)
EXTENDS Documents, AgentStateMachine

AgentDoc(Ids, Calls) ==
  [ state            : AgentState,
    state_version    : Nat,
    reserved_by      : Ids \cup {NULL},
    lease_expires_at : Nat \cup {NULL},
    current_call_id  : Calls \cup {NULL} ]

NewAgent(state) ==
  [ state |-> state, state_version |-> 0, reserved_by |-> NULL,
    lease_expires_at |-> NULL, current_call_id |-> NULL ]

\* The *_bug operators are slips a change could make; the mutation runs put one in the place
\* of the operator below it, and the named property must fail.
Claimable_bug(ag) == ag.state \in {"AVAILABLE", "RESERVED"}

ReleaseMatches_bug(ag, worker, target, actor) == ag.state \in allowed_sources(target, actor)

\* try_reserve_agent: filter and update.
Claimable(ag) == ag.state = "AVAILABLE"

Reserve(ag, worker, lease) ==
  [ ag EXCEPT !.state = "RESERVED", !.state_version = @ + 1,
              !.reserved_by = worker, !.lease_expires_at = lease ]

\* release_agent: only the worker the lease names, only from the states the actor may
\* leave for this target.
ReleaseMatches(ag, worker, target, actor) ==
  /\ ag.reserved_by = worker
  /\ ag.state \in allowed_sources(target, actor)

Release(ag, target) ==
  [ state |-> target, state_version |-> ag.state_version + 1, reserved_by |-> NULL,
    lease_expires_at |-> NULL, current_call_id |-> NULL ]

release_agent(ag, worker, target, actor) ==
  IF ReleaseMatches(ag, worker, target, actor) THEN Release(ag, target) ELSE ag

\* transition_agent: compare-and-set on the state and version the caller read; the lease
\* and the bound call stay as they are.
TransitionMatches(ag, from, to, actor, version) ==
  /\ validate_transition(from, to, actor)
  /\ ag.state = from
  /\ ag.state_version = version

transition_agent(ag, from, to, actor, version) ==
  IF TransitionMatches(ag, from, to, actor, version)
  THEN [ag EXCEPT !.state = to, !.state_version = @ + 1]
  ELSE ag

\* bind_call: guarded by the lease holder only, and not a new version.
bind_call(ag, worker, call) ==
  IF ag.reserved_by = worker THEN [ag EXCEPT !.current_call_id = call] ELSE ag

LeaseSweepable_bug(ag, at) ==              \* agents on the phone are forgotten
  ag.state \in {"RESERVED", "DIALING"} /\ LeaseOver(ag.lease_expires_at, at)

\* find_expired_agent_leases: the query of the recovery sweep.
LeaseSweepable(ag, at) ==
  /\ ag.state \in allowed_sources("AVAILABLE", "RECOVERY")
  /\ ag.reserved_by # NULL
  /\ LeaseOver(ag.lease_expires_at, at)

\* release_expired_agent_lease: seen is the document the sweep read.
ExpiredMatches(ag, seen, at) ==
  /\ ag.state = seen.state
  /\ ag.state_version = seen.state_version
  /\ LeaseOver(ag.lease_expires_at, at)

release_expired_agent_lease(ag, seen, at) ==
  IF ExpiredMatches(ag, seen, at) THEN Release(ag, "AVAILABLE") ELSE ag
======================================================================================
