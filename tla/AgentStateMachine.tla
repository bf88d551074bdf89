---------------------------- MODULE AgentStateMachine ----------------------------
(* The agent state machine of app/state_machines/agent_sm.py: which moves exist *)
(* and which actor may make each of them.  Pure tables, shared by every module   *)
(* that changes an agent.                                                        *)

AgentState ==
  {"OFFLINE", "AVAILABLE", "RESERVED", "DIALING", "CONNECTED", "WRAP_UP", "PAUSED"}

TransitionActor ==
  {"ALLOCATOR", "EVENT_PROCESSOR", "RECOVERY", "AGENT", "WORKER_TIMER"}

AGENT_TRANSITIONS ==
  [ OFFLINE   |-> {"AVAILABLE"},
    AVAILABLE |-> {"RESERVED", "PAUSED", "OFFLINE"},
    RESERVED  |-> {"DIALING", "AVAILABLE", "OFFLINE"},
    DIALING   |-> {"CONNECTED", "AVAILABLE", "OFFLINE"},
    CONNECTED |-> {"WRAP_UP", "AVAILABLE", "OFFLINE"},
    WRAP_UP   |-> {"AVAILABLE", "PAUSED", "OFFLINE"},
    PAUSED    |-> {"AVAILABLE", "OFFLINE"} ]

\* The table {(from, to): actors} read the other way: the moves of each actor.
TRANSITION_ACTORS ==
  LET Into(target, sources) == { <<s, target>> : s \in sources } IN
  [ ALLOCATOR       |-> Into("RESERVED", {"AVAILABLE"})
                        \cup Into("DIALING", {"RESERVED"})
                        \cup Into("AVAILABLE", {"RESERVED", "DIALING"}),
    EVENT_PROCESSOR |-> Into("CONNECTED", {"DIALING"})
                        \cup Into("AVAILABLE", {"DIALING", "CONNECTED"})
                        \cup Into("WRAP_UP", {"CONNECTED"}),
    RECOVERY        |-> Into("OFFLINE", AgentState \ {"OFFLINE"})
                        \cup Into("AVAILABLE", {"RESERVED", "DIALING", "CONNECTED", "WRAP_UP"}),
    AGENT           |-> Into("OFFLINE", AgentState \ {"OFFLINE"})
                        \cup Into("AVAILABLE", {"OFFLINE", "PAUSED"})
                        \cup Into("PAUSED", {"AVAILABLE", "WRAP_UP"}),
    WORKER_TIMER    |-> Into("AVAILABLE", {"WRAP_UP"}) ]

can_transition(current, target) == target \in AGENT_TRANSITIONS[current]

is_actor_allowed_bug(current, target, actor) ==     \* recovery may not end a wrap-up
  /\ <<current, target>> \in TRANSITION_ACTORS[actor]
  /\ <<current, target, actor>> # <<"WRAP_UP", "AVAILABLE", "RECOVERY">>

is_actor_allowed(current, target, actor) ==
  <<current, target>> \in TRANSITION_ACTORS[actor]

\* validate_transition raises unless this holds.
validate_transition(current, target, actor) ==
  can_transition(current, target) /\ is_actor_allowed(current, target, actor)

allowed_sources(target, actor) ==
  { s \in AgentState : can_transition(s, target) /\ is_actor_allowed(s, target, actor) }

BUSY_AGENT_STATES == {"RESERVED", "DIALING", "CONNECTED", "WRAP_UP"}
==================================================================================
