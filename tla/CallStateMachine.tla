------------------------------- MODULE CallStateMachine -------------------------------
(* The call lifecycle: app/state_machines/call_sm.py and the ranks of models/enums.py. *)
EXTENDS Naturals, AgentStateMachine

CALL_STATE_RANK ==
  [ QUEUED |-> 0, RESERVED |-> 1, INITIATED |-> 2, RINGING |-> 3, ANSWERED |-> 4,
    CONNECTED |-> 5, COMPLETED |-> 6, FAILED |-> 6, CANCELLED |-> 6 ]

CallState == DOMAIN CALL_STATE_RANK

TERMINAL_CALL_STATES == {"COMPLETED", "FAILED", "CANCELLED"}

rank(state) == CALL_STATE_RANK[state]

is_terminal(state) == state \in TERMINAL_CALL_STATES

CALL_TRANSITIONS ==
  [ QUEUED    |-> {"RESERVED", "INITIATED", "FAILED", "CANCELLED"},
    RESERVED  |-> {"INITIATED", "FAILED", "CANCELLED"},
    INITIATED |-> {"RINGING", "ANSWERED", "CONNECTED"} \cup TERMINAL_CALL_STATES,
    RINGING   |-> {"ANSWERED", "CONNECTED"} \cup TERMINAL_CALL_STATES,
    ANSWERED  |-> {"CONNECTED"} \cup TERMINAL_CALL_STATES,
    CONNECTED |-> TERMINAL_CALL_STATES,
    COMPLETED |-> {}, FAILED |-> {}, CANCELLED |-> {} ]

\* can_transition of this module; AgentStateMachine has the agents' one.
can_transition_call(current, target) == target \in CALL_TRANSITIONS[current]

\* The order of the tests decides which reason an ignored event gets.
should_apply_event(current, target) ==
  CASE is_terminal(current)                   -> "IGNORE_TERMINAL"
    [] ~is_terminal(current) /\ rank(target) <= rank(current) -> "IGNORE_STALE"
    [] ~is_terminal(current) /\ rank(target) > rank(current)
         /\ ~can_transition_call(current, target) -> "IGNORE_INVALID"
    [] OTHER                                  -> "APPLY"

AGENT_STATE_FOR_CALL_STATE ==
  [ INITIATED |-> "DIALING", RINGING |-> "DIALING", ANSWERED |-> "CONNECTED",
    CONNECTED |-> "CONNECTED", COMPLETED |-> "WRAP_UP", FAILED |-> "AVAILABLE",
    CANCELLED |-> "AVAILABLE" ]
========================================================================================
