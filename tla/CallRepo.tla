----------------------------------- MODULE CallRepo -----------------------------------
(* The call document and the writes of app/repositories/call_repo.py, each one atomic  *)
(* find_one_and_update or insert.  Of the timestamps only whether answered_at is set is *)
(* kept, and of provider_call_id only whether it is attached: the provider gives every  *)
(* call an id of its own.                                                              *)
EXTENDS Documents, CallStateMachine

CallDoc(Ids) ==
  [ state : CallState, created_by_worker : Ids, attached : BOOLEAN, answered : BOOLEAN ]

\* create_call inserts this, unless its idempotency key is taken.
NewCall(worker) ==
  [ state |-> "QUEUED", created_by_worker |-> worker, attached |-> FALSE, answered |-> FALSE ]

CallTransitionMatches_bug(call, target) == ~is_terminal(call.state)

CallTransitionMatches_le_bug(call, target) == rank(call.state) <= rank(target)

\* transition_call: the filter knows ranks, not CALL_TRANSITIONS.
CallTransitionMatches(call, target) ==
  ~is_terminal(call.state) /\ rank(call.state) < rank(target)

transition_call(call, target) ==
  IF CallTransitionMatches(call, target)
  THEN [call EXCEPT !.state = target, !.answered = @ \/ target = "ANSWERED"]
  ELSE call

attach_provider_call_id(call) == [call EXCEPT !.attached = TRUE]
========================================================================================
