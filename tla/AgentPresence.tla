-------------------------------- MODULE AgentPresence --------------------------------
(* Who is at work: logins and other requests of agents, heartbeats, and what the sweeps    *)
(* and timers do by the clock (heartbeat timeout, end of wrap-up).  A heartbeat is a write  *)
(* of its own that changes no version; a login is two writes; a sweep acts on documents it  *)
(* read any number of steps ago.  Dials are coarse here, Dialing has them in full.          *)
EXTENDS AgentStateMachine, Naturals

CONSTANTS Agents,
          RecoveryWorkers,
          DialerWorkers,                    \* those that tick the agents' campaign
          AGENT_HEARTBEAT_TIMEOUT_SECONDS,
          WRAP_UP_SECONDS,
          MaxSweepDelay,                    \* bound: clock steps from a sweep's now to its query
          NULL

ASSUME PresenceAssumption ==
  /\ AGENT_HEARTBEAT_TIMEOUT_SECONDS \in Nat /\ WRAP_UP_SECONDS \in Nat
  /\ MaxSweepDelay \in Nat
  /\ NULL \notin Nat

Readers == RecoveryWorkers \cup DialerWorkers

\* Ages beyond these compare alike with every cutoff.
OldestBeat == AGENT_HEARTBEAT_TIMEOUT_SECONDS + MaxSweepDelay + 1
OldestWrapUp == 3 * WRAP_UP_SECONDS + MaxSweepDelay

VARIABLES agent,      \* the document, its instants as ages: the last heartbeat (NULL: never)
                      \* and, in WRAP_UP, the change of state; what became of its call
          request,    \* the request of each agent that the server is handling
          reader,     \* where each sweep is and how long ago it took its now
          seen,       \* the candidates each reader has still to look at, as it read them
          upToDate,   \* readers, and the request, that know the agent's current state_version
          here,       \* agents whose client sends heartbeats
          session     \* history: "on_time" while no heartbeat has been late since the login
                      \* and no sweep took the agent for silent between the login's writes

vars == <<agent, request, reader, seen, upToDate, here, session>>

Actions == [ login |-> "AVAILABLE", logout |-> "OFFLINE", pause |-> "PAUSED",
             resume |-> "AVAILABLE" ]

CallOf == {"none", "open", "earlier", "cut"}     \* earlier: of a session that is over

Beats == 0 .. OldestBeat \cup {NULL}
Spans == 0 .. OldestWrapUp
Delays == 0 .. MaxSweepDelay

AgentDoc == [ state : AgentState, beat : Beats, since : Spans, call : CallOf ]

\* The call it names: over, the agent's present one, or open but replaced by another since.
Candidate == [ state : AgentState, call : {"none", "open", "replaced"} ]

\* A request that has read the document, or has made the first of a login's two writes.
Handled == [ action : DOMAIN Actions, state : AgentState, at : {"read", "written"} ]

ReaderState == [ at : {"idle", "started", "silent", "wrap_ups"}, delay : Delays ]

ASSUME DocumentsAssumption == NULL \notin Candidate \cup Handled /\ "request" \notin Readers

\* The state has its type; a reader that knows an agent's version knows its state.
TypeOK ==
  /\ agent \in [Agents -> AgentDoc]
  /\ request \in [Agents -> Handled \cup {NULL}]
  /\ reader \in [Readers -> ReaderState]
  /\ seen \in [Readers -> [Agents -> Candidate \cup {NULL}]]
  /\ upToDate \in [Agents -> SUBSET (Readers \cup {"request"})]
  /\ here \subseteq Agents
  /\ session \in [Agents -> {"none", "starting", "on_time"}]
  /\ \A a \in Agents : \A r \in upToDate[a] \cap Readers :
       seen[r][a] # NULL /\ seen[r][a].state = agent[a].state

Nobody == [a \in Agents |-> NULL]

Init ==
  /\ agent = [a \in Agents |-> [state |-> "OFFLINE", beat |-> NULL, since |-> 0, call |-> "none"]]
  /\ request = Nobody
  /\ reader = [r \in Readers |-> [at |-> "idle", delay |-> 0]]
  /\ seen = [r \in Readers |-> Nobody]
  /\ upToDate = [a \in Agents |-> {}]
  /\ here = {} /\ session = [a \in Agents |-> "none"]

Becomes_bug(a, doc) ==                     \* the version stays
  agent' = [agent EXCEPT ![a] = doc] /\ UNCHANGED upToDate

\* A write that increments state_version.
Becomes(a, doc) ==
  /\ agent' = [agent EXCEPT ![a] = doc]
  /\ upToDate' = [upToDate EXCEPT ![a] = {}]

InState(a, state) == [agent[a] EXCEPT !.state = state, !.since = 0]

--------------------------------------------------------------------------------------
(* The agent: a person with a client, and the requests to routes_agents.                   *)

Arrive(a) ==
  /\ a \notin here
  /\ here' = here \cup {a}
  /\ UNCHANGED <<agent, request, reader, seen, upToDate, session>>

\* The client goes silent without a word.
Vanish(a) ==
  /\ a \in here
  /\ here' = here \ {a}
  /\ UNCHANGED <<agent, request, reader, seen, upToDate, session>>

\* The heartbeat request, or the loop of the simulated agents: whatever the state is.
Heartbeat(a) ==
  /\ a \in here
  /\ agent' = [agent EXCEPT ![a].beat = 0]
  /\ UNCHANGED <<request, reader, seen, upToDate, here, session>>

\* agent_action reads the document ...
Request(a, action) ==
  /\ a \in here /\ request[a] = NULL
  /\ request' = [request EXCEPT ![a] = [action |-> action, state |-> agent[a].state, at |-> "read"]]
  /\ upToDate' = [upToDate EXCEPT ![a] = @ \cup {"request"}]
  /\ UNCHANGED <<agent, reader, seen, here, session>>

RequestMatches(a) ==
  /\ validate_transition(request[a].state, Actions[request[a].action], "AGENT")
  /\ "request" \in upToDate[a]

\* ... and makes the transition if nobody else has changed the agent.  A call that is still
\* open stays bound to an agent who leaves.  Only action "login" goes on to the heartbeat,
\* although "resume" takes an OFFLINE agent to AVAILABLE as well.
Apply(a) ==
  LET target == Actions[request[a].action] IN
  /\ request[a] # NULL /\ request[a].at = "read"
  /\ RequestMatches(a)
  /\ Becomes(a, [InState(a, target) EXCEPT
                   !.call = IF target = "OFFLINE" /\ @ = "open" THEN "earlier" ELSE @])
  /\ request' = [request EXCEPT ![a] = IF @.action = "login" THEN [@ EXCEPT !.at = "written"] ELSE NULL]
  /\ session' = [session EXCEPT ![a] = IF target = "OFFLINE" THEN "none"
                                        ELSE IF request[a].action = "login" THEN "starting" ELSE @]
  /\ UNCHANGED <<reader, seen, here>>

\* The transition is illegal, or somebody came first.
Refuse(a) ==
  /\ request[a] # NULL /\ request[a].at = "read"
  /\ ~RequestMatches(a)
  /\ request' = [request EXCEPT ![a] = NULL]
  /\ upToDate' = [upToDate EXCEPT ![a] = @ \ {"request"}]
  /\ UNCHANGED <<agent, reader, seen, here, session>>

LoginHeartbeat(a) ==
  /\ request[a] # NULL /\ request[a].at = "written"
  /\ agent' = [agent EXCEPT ![a].beat = 0]
  /\ session' = [session EXCEPT ![a] = IF @ = "starting" THEN "on_time" ELSE @]
  /\ request' = [request EXCEPT ![a] = NULL]
  /\ UNCHANGED <<reader, seen, upToDate, here>>

\* The second write fails: the agent is logged in without a heartbeat.
LoginFails(a) ==
  /\ request[a] # NULL /\ request[a].at = "written"
  /\ request' = [request EXCEPT ![a] = NULL]
  /\ session' = [session EXCEPT ![a] = "none"]
  /\ UNCHANGED <<agent, reader, seen, upToDate, here>>

--------------------------------------------------------------------------------------
(* The dialer, as far as it changes the agent.                                            *)

Reserve(a) ==
  /\ agent[a].state = "AVAILABLE"
  /\ Becomes(a, InState(a, "RESERVED"))
  /\ UNCHANGED <<request, reader, seen, here, session>>

\* What the candidates of a name becomes what: their call is over, or a has another one.
CallsSeen(a, what) ==
  seen' = [r \in Readers |->
             IF seen[r][a] = NULL \/ seen[r][a].call # "open" THEN seen[r]
             ELSE [seen[r] EXCEPT ![a].call = what]]

CallOver(a) == CallsSeen(a, "none")

\* RESERVED -> DIALING and bind_call, in the place of a call of an earlier session.
Dial(a) ==
  /\ agent[a].state = "RESERVED"
  /\ Becomes(a, [InState(a, "DIALING") EXCEPT !.call = "open"])
  /\ CallsSeen(a, "replaced")
  /\ UNCHANGED <<request, reader, here, session>>

Connect(a) ==
  /\ agent[a].state = "DIALING" /\ agent[a].call = "open"
  /\ Becomes(a, InState(a, "CONNECTED"))
  /\ UNCHANGED <<request, reader, seen, here, session>>

\* A final event: release_agent finds the agent unless it has left.
CallEnds(a, target) ==
  /\ agent[a].call = "open"
  /\ agent[a].state \in allowed_sources(target, "EVENT_PROCESSOR")
  /\ Becomes(a, [InState(a, target) EXCEPT !.call = "none"])
  /\ CallOver(a)
  /\ UNCHANGED <<request, reader, here, session>>

\* The call of an agent who has left, or come back since.  Where release_agent finds the agent
\* all the same, reserved again by the same worker, the step is Released or CallEnds.
EarlierCallEnds(a) ==
  /\ agent[a].call = "earlier"
  /\ agent' = [agent EXCEPT ![a].call = "none"]
  /\ CallOver(a)
  /\ UNCHANGED <<request, reader, upToDate, here, session>>

\* The lease sweep of recovery, or a dial that gave up: the agent is AVAILABLE, its call over.
Released(a) ==
  /\ agent[a].state \in {"RESERVED", "DIALING", "CONNECTED"}
  /\ Becomes(a, [InState(a, "AVAILABLE") EXCEPT !.call = "none"])
  /\ CallOver(a)
  /\ UNCHANGED <<request, reader, here, session>>

--------------------------------------------------------------------------------------
(* The sweeps.                                                                            *)

\* run_sweeps takes its now and makes three other sweeps first.
StartSweeps(r) ==
  /\ r \in RecoveryWorkers /\ reader[r].at = "idle"
  /\ reader' = [reader EXCEPT ![r] = [at |-> "started", delay |-> 0]]
  /\ UNCHANGED <<agent, request, seen, upToDate, here, session>>

HeartbeatExpired_bug(doc, delay) ==        \* agents on a break are left alone
  doc.state \notin {"OFFLINE", "PAUSED"} /\ doc.beat # NULL
    /\ doc.beat > AGENT_HEARTBEAT_TIMEOUT_SECONDS + delay

\* find_heartbeat_expired, for a cutoff that was taken delay ago.
HeartbeatExpired(doc, delay) ==
  /\ doc.state # "OFFLINE"
  /\ doc.beat # NULL /\ doc.beat > AGENT_HEARTBEAT_TIMEOUT_SECONDS + delay

\* find_expired_wrap_ups, with an age of the state.
WrapUpExpired(doc, age) == doc.state = "WRAP_UP" /\ doc.since >= age

\* A query of r: the agents that match, as they are now.
Query(r, matching) ==
  /\ seen' = [seen EXCEPT ![r] = [a \in Agents |->
                IF a \notin matching THEN NULL
                ELSE [state |-> agent[a].state,
                      call |-> IF agent[a].call \in {"open", "earlier"} THEN "open" ELSE "none"]]]
  /\ upToDate' = [a \in Agents |-> IF a \in matching THEN upToDate[a] \cup {r}
                                   ELSE upToDate[a] \ {r}]

FindSilent(r) ==
  /\ reader[r].at = "started"
  /\ Query(r, { a \in Agents : HeartbeatExpired(agent[a], reader[r].delay) })
  /\ reader' = [reader EXCEPT ![r].at = "silent"]
  /\ session' = [a \in Agents |-> IF session[a] = "starting" /\ seen'[r][a] # NULL
                                    THEN "none" ELSE session[a]]
  /\ UNCHANGED <<agent, request, here>>

CutCall_bug(r, a) ==                       \* the call it has now
  /\ seen[r][a] # NULL /\ reader[r].at = "silent"
  /\ agent[a].call = "open"
  /\ agent' = [agent EXCEPT ![a].call = "cut"]
  /\ CallOver(a)
  /\ UNCHANGED <<request, reader, upToDate, here, session>>

\* _cancel_bound_call: the call of the document that was read, unless it has ended.
CutCall(r, a) ==
  /\ reader[r].at = "silent" /\ seen[r][a] # NULL
  /\ \/ /\ seen[r][a].call = "open"
        /\ agent' = [agent EXCEPT ![a].call = IF @ = "open" THEN "cut" ELSE "none"]
        /\ CallOver(a)
     \/ /\ seen[r][a].call = "replaced"
        /\ seen' = [seen EXCEPT ![r][a].call = "none"]
        /\ UNCHANGED agent
  /\ UNCHANGED <<request, reader, upToDate, here, session>>

ActorOf(r) == IF r \in RecoveryWorkers THEN "RECOVERY" ELSE "WORKER_TIMER"

CandidateMatches_bug(r, a, target) ==      \* the state alone
  agent[a].state = seen[r][a].state

\* transition_agent for a candidate: compare-and-set on the version that was read.
CandidateMatches(r, a, target) ==
  /\ validate_transition(seen[r][a].state, target, ActorOf(r))
  /\ r \in upToDate[a]

NextCandidate(r, a) == seen' = [seen EXCEPT ![r][a] = NULL]

\* The document is as it was read, except for its heartbeat, which nobody looks at again.
TakeOffline(r, a) ==
  /\ reader[r].at = "silent" /\ seen[r][a] # NULL /\ seen[r][a].call = "none"
  /\ CandidateMatches(r, a, "OFFLINE")
  /\ Becomes(a, [InState(a, "OFFLINE") EXCEPT !.call = IF @ = "open" THEN "earlier" ELSE @])
  /\ session' = [session EXCEPT ![a] = "none"]
  /\ NextCandidate(r, a)
  /\ UNCHANGED <<request, reader, here>>

\* WRAP_UP -> AVAILABLE by DialerWorker's timer or by recovery.
EndWrapUp(r, a) ==
  /\ reader[r].at = "wrap_ups" /\ seen[r][a] # NULL
  /\ CandidateMatches(r, a, "AVAILABLE")
  /\ Becomes(a, InState(a, "AVAILABLE"))
  /\ NextCandidate(r, a)
  /\ UNCHANGED <<request, reader, here, session>>

\* Somebody changed the agent in the meantime.
Skip(r, a) ==
  /\ seen[r][a] # NULL
  /\ \/ reader[r].at = "silent" /\ seen[r][a].call = "none" /\ ~CandidateMatches(r, a, "OFFLINE")
     \/ reader[r].at = "wrap_ups" /\ ~CandidateMatches(r, a, "AVAILABLE")
  /\ NextCandidate(r, a)
  /\ UNCHANGED <<agent, request, reader, upToDate, here, session>>

\* The next sweep, with the same now: WRAP_UP_SECONDS and a grace of twice as much.
FindStuckWrapUps(r) ==
  /\ reader[r].at = "silent" /\ seen[r] = Nobody
  /\ Query(r, { a \in Agents : WrapUpExpired(agent[a], 3 * WRAP_UP_SECONDS + reader[r].delay) })
  /\ reader' = [reader EXCEPT ![r].at = "wrap_ups"]
  /\ UNCHANGED <<agent, request, here, session>>

\* After a tick of a running campaign.
FindFinishedWrapUps(r) ==
  /\ r \in DialerWorkers /\ reader[r].at = "idle"
  /\ Query(r, { a \in Agents : WrapUpExpired(agent[a], WRAP_UP_SECONDS) })
  /\ reader' = [reader EXCEPT ![r].at = "wrap_ups"]
  /\ UNCHANGED <<agent, request, here, session>>

FinishSweeps(r) ==
  /\ reader[r].at = "wrap_ups" /\ seen[r] = Nobody
  /\ reader' = [reader EXCEPT ![r] = [at |-> "idle", delay |-> 0]]
  /\ UNCHANGED <<agent, request, seen, upToDate, here, session>>

\* An error ends the sweep in hand, not the round.
SweepFails(r) ==
  /\ seen[r] # Nobody
  /\ seen' = [seen EXCEPT ![r] = Nobody]
  /\ upToDate' = [a \in Agents |-> upToDate[a] \ {r}]
  /\ UNCHANGED <<agent, request, reader, here, session>>

--------------------------------------------------------------------------------------
\* The clock.  A heartbeat that is older than the timeout is late.
Tick ==
  LET Older(age, oldest) == IF age < oldest THEN age + 1 ELSE age
      Late(beat) == beat > AGENT_HEARTBEAT_TIMEOUT_SECONDS
  IN
  /\ \A r \in Readers : reader[r].at = "started" => reader[r].delay < MaxSweepDelay
  /\ agent' = [a \in Agents |->
       [agent[a] EXCEPT !.beat = IF @ = NULL THEN NULL ELSE Older(@, OldestBeat),
                        !.since = IF agent[a].state = "WRAP_UP" THEN Older(@, OldestWrapUp) ELSE 0]]
  /\ reader' = [r \in Readers |-> IF reader[r].at \in {"started", "silent"}
                                  THEN [reader[r] EXCEPT !.delay = Older(@, MaxSweepDelay)]
                                  ELSE reader[r]]
  /\ session' = [a \in Agents |-> IF session[a] = "on_time" /\ Late(agent'[a].beat)
                                    THEN "none" ELSE session[a]]
  /\ UNCHANGED <<request, seen, upToDate, here>>

Handle(a) == Apply(a) \/ Refuse(a) \/ LoginHeartbeat(a)

Work(a) ==
  \/ Reserve(a) \/ Dial(a) \/ Connect(a) \/ EarlierCallEnds(a) \/ Released(a)
  \/ \E target \in {"AVAILABLE", "WRAP_UP"} : CallEnds(a, target)

Sweep(r) ==
  \/ StartSweeps(r) \/ FindSilent(r) \/ FindStuckWrapUps(r) \/ FindFinishedWrapUps(r)
  \/ FinishSweeps(r)
  \/ \E a \in Agents : CutCall(r, a) \/ TakeOffline(r, a) \/ EndWrapUp(r, a) \/ Skip(r, a)

Next ==
  \/ \E a \in Agents : Arrive(a) \/ Vanish(a) \/ Heartbeat(a) \/ Handle(a) \/ LoginFails(a) \/ Work(a)
  \/ \E a \in Agents, action \in DOMAIN Actions : Request(a, action)
  \/ \E r \in Readers : Sweep(r) \/ SweepFails(r)
  \/ Tick

\* The clock and the recovery worker go on.  A sweep may fail or come too late, but
\* not every time: its steps are milliseconds apart, those of an agent and a dial seconds.
Fairness ==
  /\ SF_vars(Tick)
  /\ \A r \in RecoveryWorkers :
       /\ WF_vars(Sweep(r))
       /\ \A a \in Agents :
            /\ SF_vars(r \in upToDate[a] /\ CutCall(r, a))
            /\ SF_vars(TakeOffline(r, a)) /\ SF_vars(EndWrapUp(r, a))

Spec == Init /\ [][Next]_vars
FairSpec == Spec /\ Fairness

--------------------------------------------------------------------------------------
\* Recovery never takes off, nor cuts the call of, an agent whose heartbeats have all been
\* on time since the login: not even on the strength of a document read in an earlier
\* session, when the agent was silent (_sweep_heartbeat_timeouts acts on old candidates).
PresentAgentsStay ==
  [][\A a \in Agents :
       session[a] = "on_time" /\ request'[a] = request[a] =>
         /\ agent[a].state # "OFFLINE" => agent'[a].state # "OFFLINE"
         /\ agent[a].call = "open" => agent'[a].call # "cut"]_vars

\* Nobody but the agent ends a wrap-up before WRAP_UP_SECONDS of this wrap-up are over: the
\* timers of several processes and recovery hold candidates of earlier ones.
WrapUpIsWhole ==
  [][\A a \in Agents :
       agent[a].state = "WRAP_UP" /\ agent'[a].state = "AVAILABLE" =>
         agent[a].since >= WRAP_UP_SECONDS]_vars

\* An agent who goes silent is taken off in the end (README.md:399), whatever the dialer
\* still does with it: provided it ever sent a heartbeat, see SilentAgentsLeave.
SilentAgentsEndOffline ==
  \A a \in Agents :
    <>[](a \notin here /\ agent[a].beat # NULL) => <>[](agent[a].state = "OFFLINE")

\* A wrap-up ends by recovery alone, without the worker's timer (README.md:400).
WrapUpsEnd == \A a \in Agents : agent[a].state = "WRAP_UP" ~> agent[a].state # "WRAP_UP"

\* The same without the proviso: README.md:399 names none.
SilentAgentsLeave ==
  \A a \in Agents : <>[](a \notin here) => <>[](agent[a].state = "OFFLINE")

\* Recovery takes off only agents whose heartbeat has expired (docs/agent-state-machine.md:42:
\* "Not logged in, or the heartbeat expired").
OfflineMeansSilent ==
  [][\A a \in Agents :
       agent[a].state # "OFFLINE" /\ agent'[a].state = "OFFLINE" /\ request'[a] = request[a] =>
         agent[a].beat > AGENT_HEARTBEAT_TIMEOUT_SECONDS]_vars
======================================================================================
