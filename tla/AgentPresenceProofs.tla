------------------------------- MODULE AgentPresenceProofs -------------------------------
(* Proofs about AgentPresence: what a sweep that read its candidates long ago may still     *)
(* conclude about an agent from the fact that its version has not moved.                    *)
EXTENDS AgentPresence, TLAPS

\* The types in TypeOK, and its last conjunct.
Typed ==
  /\ agent \in [Agents -> AgentDoc]
  /\ request \in [Agents -> Handled \cup {NULL}]
  /\ reader \in [Readers -> ReaderState]
  /\ seen \in [Readers -> [Agents -> Candidate \cup {NULL}]]
  /\ upToDate \in [Agents -> SUBSET (Readers \cup {"request"})]
  /\ here \subseteq Agents
  /\ session \in [Agents -> {"none", "starting", "on_time"}]

StatesKnown ==
  \A a \in Agents : \A r \in upToDate[a] \cap Readers :
    seen[r][a] # NULL /\ seen[r][a].state = agent[a].state

Late(beat) == beat = NULL \/ beat > AGENT_HEARTBEAT_TIMEOUT_SECONDS

\* An agent whose call is open works on it; one in good standing has a recent heartbeat.
AgentsInOrder ==
  \A a \in Agents :
    /\ agent[a].call = "open" => agent[a].state \in {"DIALING", "CONNECTED"}
    /\ session[a] = "on_time" => ~Late(agent[a].beat)

\* A request that knows the agent's version knows its state.
RequestsKnow ==
  \A a \in Agents : "request" \in upToDate[a] =>
    request[a] # NULL /\ request[a].at = "read" /\ request[a].state = agent[a].state

\* Only recovery takes agents off, and every candidate is one of the sweep in hand.
SweepsInOrder ==
  \A r \in Readers :
    /\ reader[r].at \in {"started", "silent"} => r \in RecoveryWorkers
    /\ \A a \in Agents : seen[r][a] # NULL =>
         \/ reader[r].at = "silent" /\ seen[r][a].state # "OFFLINE"
         \/ reader[r].at = "wrap_ups" /\ seen[r][a].state = "WRAP_UP"

\* A candidate whose version has not moved has neither come back nor begun another wrap-up.
ReadersKnow ==
  \A a \in Agents : \A r \in upToDate[a] \cap Readers :
    /\ reader[r].at = "silent" => session[a] = "none"
    /\ reader[r].at = "wrap_ups" => agent[a].since >= WRAP_UP_SECONDS

\* The call a sweep is about to cut is not the present one of an agent that came back.
CallsSeenAreOver ==
  \A r \in Readers, a \in Agents :
    reader[r].at = "silent" /\ seen[r][a] # NULL /\ session[a] # "none" =>
      seen[r][a].call # "open" \/ agent[a].call # "open"

PresenceInv ==
  TypeOK /\ AgentsInOrder /\ RequestsKnow /\ SweepsInOrder /\ ReadersKnow /\ CallsSeenAreOver

--------------------------------------------------------------------------------------
(* Constants, tables and documents.                                                       *)

LEMMA TypeOKIs == TypeOK <=> Typed /\ StatesKnown
  BY DEF TypeOK, Typed, StatesKnown

LEMMA Values ==
  /\ NULL \notin Nat /\ NULL \notin Handled /\ NULL \notin Candidate
  /\ "request" \notin Readers
  /\ RecoveryWorkers \subseteq Readers
  BY PresenceAssumption, DocumentsAssumption DEF Readers

LEMMA Ages ==
  /\ AGENT_HEARTBEAT_TIMEOUT_SECONDS \in Nat /\ WRAP_UP_SECONDS \in Nat
  /\ Delays \subseteq Nat /\ Spans \subseteq Nat /\ Beats \subseteq Nat \cup {NULL}
  /\ 0 \in Delays /\ 0 \in Spans /\ 0 \in Beats /\ NULL \in Beats
  BY PresenceAssumption DEF Delays, Spans, Beats, OldestWrapUp, OldestBeat

\* What agents, events and the worker's timer may do to an agent.
LEMMA AgentMoves ==
  /\ \A s \in AgentState, action \in DOMAIN Actions :
       validate_transition(s, Actions[action], "AGENT") =>
         /\ Actions[action] \in AgentState
         /\ Actions[action] = "AVAILABLE" => s \in {"OFFLINE", "PAUSED"}
         /\ Actions[action] # "OFFLINE" => s \notin {"DIALING", "CONNECTED"}
         /\ Actions[action] \notin {"DIALING", "CONNECTED"}
  BY DEF validate_transition, can_transition, is_actor_allowed, AGENT_TRANSITIONS,
         TRANSITION_ACTORS, AgentState, Actions

LEMMA SweepMoves ==
  /\ \A s \in AgentState \ {"OFFLINE"} : validate_transition(s, "OFFLINE", "RECOVERY")
  /\ \A actor \in {"RECOVERY", "WORKER_TIMER"} :
       validate_transition("WRAP_UP", "AVAILABLE", actor)
  /\ \A s \in AgentState : s \in allowed_sources("AVAILABLE", "EVENT_PROCESSOR")
       => s # "WRAP_UP"
  BY DEF validate_transition, can_transition, is_actor_allowed, AGENT_TRANSITIONS,
         TRANSITION_ACTORS, AgentState, allowed_sources

LEMMA DocsAre ==
  ASSUME NEW doc \in AgentDoc
  PROVE  /\ \A s \in AgentState : [doc EXCEPT !.state = s, !.since = 0] \in AgentDoc
         /\ \A c \in CallOf : [doc EXCEPT !.call = c] \in AgentDoc
         /\ [doc EXCEPT !.beat = 0] \in AgentDoc
  BY Ages DEF AgentDoc

--------------------------------------------------------------------------------------
(* Two kinds of step.                                                                     *)

\* The candidates of every reader are at most those it had, with the same state; only a's
\* may be gone, and no call of theirs is open that was not.
SeenNarrows(a) ==
  /\ seen' \in [Readers -> [Agents -> Candidate \cup {NULL}]]
  /\ \A r \in Readers, b \in Agents :
       /\ seen'[r][b] # NULL =>
            /\ seen[r][b] # NULL /\ seen'[r][b].state = seen[r][b].state
            /\ seen'[r][b].call = "open" => seen[r][b].call = "open"
       /\ b # a => (seen[r][b] # NULL => seen'[r][b] # NULL)

\* A write that moves a's version: whoever knew it does so no longer.
LEMMA WriteStep ==
  ASSUME PresenceInv, NEW a \in Agents, NEW doc \in AgentDoc, Becomes(a, doc),
         doc.beat = agent[a].beat,
         doc.call = "open" => doc.state \in {"DIALING", "CONNECTED"},
         SeenNarrows(a), reader' = reader, here' = here,
         request' \in [Agents -> Handled \cup {NULL}],
         \A b \in Agents : b # a => request'[b] = request[b],
         session' \in [Agents -> {"none", "starting", "on_time"}],
         \A b \in Agents : b # a => session'[b] = session[b],
         session'[a] = "on_time" => session[a] = "on_time",
         \/ doc.call # "open"
         \/ session'[a] = session[a] /\ doc.call = agent[a].call
         \/ \A r \in Readers : seen'[r][a] # NULL => seen'[r][a].call # "open"
  PROVE  PresenceInv'
  <1> USE DEF PresenceInv
  <1>1. Typed
    BY TypeOKIs
  <1>2. Typed'
    BY <1>1 DEF Typed, SeenNarrows, Becomes
  <1>3. \A b \in Agents : upToDate'[b] = IF b = a THEN {} ELSE upToDate[b]
    BY <1>1 DEF Typed, Becomes
  <1>4. \A b \in Agents : agent'[b] = IF b = a THEN doc ELSE agent[b]
    BY <1>1 DEF Typed, Becomes
  <1>5. StatesKnown'
    BY <1>1, <1>3, <1>4, TypeOKIs DEF StatesKnown, SeenNarrows
  <1>6. AgentsInOrder'
    BY <1>4 DEF AgentsInOrder, Late
  <1>7. RequestsKnow'
    BY <1>3, <1>4 DEF RequestsKnow
  <1>8. SweepsInOrder'
    BY DEF SweepsInOrder, SeenNarrows
  <1>9. ReadersKnow'
    BY <1>3, <1>4 DEF ReadersKnow
  <1>10. CallsSeenAreOver'
    BY <1>4 DEF CallsSeenAreOver, SeenNarrows
  <1>11. TypeOK'
    BY <1>2, <1>5 DEF TypeOK, Typed, StatesKnown
  <1> QED BY <1>6, <1>7, <1>8, <1>9, <1>10, <1>11

\* A step that moves no version: what is known of the agent stays true.
LEMMA QuietStep ==
  ASSUME PresenceInv, NEW a \in Agents, NEW doc \in AgentDoc,
         agent' = [agent EXCEPT ![a] = doc], upToDate' = upToDate,
         doc.state = agent[a].state, doc.since = agent[a].since,
         doc.call = "open" => agent[a].call = "open",
         SeenNarrows(a), \A r \in Readers : seen[r][a] # NULL => seen'[r][a] # NULL,
         reader' = reader, here' \subseteq Agents,
         request' \in [Agents -> Handled \cup {NULL}],
         \A b \in Agents : "request" \in upToDate[b] => request'[b] = request[b],
         session' \in [Agents -> {"none", "starting", "on_time"}],
         \A b \in Agents : b # a => session'[b] = session[b],
         session[a] = "none" => session'[a] = "none",
         session'[a] = "on_time" => ~Late(doc.beat)
  PROVE  PresenceInv'
  <1> USE DEF PresenceInv
  <1>1. Typed
    BY TypeOKIs
  <1>2. Typed'
    BY <1>1 DEF Typed, SeenNarrows
  <1>4. \A b \in Agents : agent'[b] = IF b = a THEN doc ELSE agent[b]
    BY <1>1 DEF Typed
  <1>5. StatesKnown'
    BY <1>1, <1>4, TypeOKIs DEF StatesKnown, SeenNarrows
  <1>6. AgentsInOrder'
    BY <1>4 DEF AgentsInOrder, Late
  <1>7. RequestsKnow'
    BY <1>4 DEF RequestsKnow
  <1>8. SweepsInOrder'
    BY DEF SweepsInOrder, SeenNarrows
  <1>9. ReadersKnow'
    BY <1>4 DEF ReadersKnow
  <1>10. CallsSeenAreOver'
    BY <1>4 DEF CallsSeenAreOver, SeenNarrows
  <1>11. TypeOK'
    BY <1>2, <1>5 DEF TypeOK, Typed, StatesKnown
  <1> QED BY <1>6, <1>7, <1>8, <1>9, <1>10, <1>11

LEMMA SeenStays ==
  ASSUME Typed, NEW a \in Agents, seen' = seen
  PROVE  SeenNarrows(a) /\ \A r \in Readers : seen[r][a] # NULL => seen'[r][a] # NULL
  BY DEF Typed, SeenNarrows

LEMMA SeenCalls ==
  ASSUME Typed, NEW a \in Agents, NEW what \in {"none", "replaced"}, CallsSeen(a, what)
  PROVE  /\ SeenNarrows(a)
         /\ \A r \in Readers : seen[r][a] # NULL => seen'[r][a] # NULL
         /\ \A r \in Readers : seen'[r][a] # NULL => seen'[r][a].call # "open"
  <1>1. ASSUME NEW r \in Readers
        PROVE  /\ seen'[r] \in [Agents -> Candidate \cup {NULL}]
               /\ \A b \in Agents : b # a => seen'[r][b] = seen[r][b]
               /\ seen'[r][a] = NULL <=> seen[r][a] = NULL
               /\ seen[r][a] # NULL => seen'[r][a].state = seen[r][a].state
               /\ seen[r][a] # NULL => seen'[r][a].call # "open"
    <2>1. CASE seen[r][a] = NULL \/ seen[r][a].call # "open"
      BY <2>1 DEF Typed, CallsSeen
    <2>2. CASE ~(seen[r][a] = NULL \/ seen[r][a].call # "open")
      <3> DEFINE c == [seen[r][a] EXCEPT !.call = what]
      <3>1. seen[r][a] \in Candidate
        BY <2>2 DEF Typed
      <3>2. c \in Candidate /\ c.state = seen[r][a].state /\ c.call # "open"
        BY <3>1 DEF Candidate
      <3>3. seen'[r] = [seen[r] EXCEPT ![a] = c]
        BY <2>2 DEF CallsSeen
      <3> QED BY <2>2, <3>2, <3>3, Values DEF Typed
    <2> QED BY <2>1, <2>2
  <1>2. seen' \in [Readers -> [Agents -> Candidate \cup {NULL}]]
    BY <1>1 DEF CallsSeen
  <1>3. SeenNarrows(a)
    BY <1>1, <1>2 DEF SeenNarrows
  <1> QED BY <1>1, <1>3

LEMMA SeenNext ==
  ASSUME Typed, NEW a \in Agents, NEW r \in Readers, NextCandidate(r, a)
  PROVE  SeenNarrows(a)
  <1>1. seen' \in [Readers -> [Agents -> Candidate \cup {NULL}]]
    BY DEF Typed, NextCandidate
  <1>2. \A q \in Readers, b \in Agents :
          seen'[q][b] = IF q = r /\ b = a THEN NULL ELSE seen[q][b]
    BY DEF Typed, NextCandidate
  <1> QED BY <1>1, <1>2 DEF SeenNarrows
--------------------------------------------------------------------------------------
(* The agent.                                                                             *)

\* Steps that change neither the document nor what readers hold.
LEMMA ArriveVanishStep ==
  ASSUME PresenceInv, NEW a \in Agents, Arrive(a) \/ Vanish(a)
  PROVE  PresenceInv'
  <1>1. Typed
    BY TypeOKIs DEF PresenceInv
  <1>2. agent[a] \in AgentDoc /\ agent' = [agent EXCEPT ![a] = agent[a]]
    BY <1>1 DEF Arrive, Vanish, Typed
  <1>3. SeenNarrows(a) /\ \A r \in Readers : seen[r][a] # NULL => seen'[r][a] # NULL
    BY <1>1, SeenStays DEF Arrive, Vanish
  <1>4. session[a] = "on_time" => ~Late(agent[a].beat)
    BY DEF PresenceInv, AgentsInOrder
  <1> QED BY <1>1, <1>2, <1>3, <1>4, QuietStep DEF Arrive, Vanish, Typed

LEMMA HeartbeatStep ==
  ASSUME PresenceInv, NEW a \in Agents, Heartbeat(a)
  PROVE  PresenceInv'
  <1> DEFINE doc == [agent[a] EXCEPT !.beat = 0]
  <1>1. Typed
    BY TypeOKIs DEF PresenceInv
  <1>2. doc \in AgentDoc /\ agent' = [agent EXCEPT ![a] = doc]
    BY <1>1, DocsAre DEF Heartbeat, Typed
  <1>3. /\ doc.state = agent[a].state /\ doc.since = agent[a].since
        /\ doc.call = agent[a].call /\ doc.beat = 0
    BY <1>1 DEF Typed, AgentDoc
  <1>4. SeenNarrows(a) /\ \A r \in Readers : seen[r][a] # NULL => seen'[r][a] # NULL
    BY <1>1, SeenStays DEF Heartbeat
  <1>5. ~Late(doc.beat)
    BY <1>3, Ages, Values DEF Late
  <1> HIDE DEF doc
  <1> QED BY <1>1, <1>2, <1>3, <1>4, <1>5, QuietStep DEF Heartbeat, Typed

LEMMA LoginHeartbeatStep ==
  ASSUME PresenceInv, NEW a \in Agents, LoginHeartbeat(a)
  PROVE  PresenceInv'
  <1> DEFINE doc == [agent[a] EXCEPT !.beat = 0]
  <1>1. Typed
    BY TypeOKIs DEF PresenceInv
  <1>2. doc \in AgentDoc /\ agent' = [agent EXCEPT ![a] = doc]
    BY <1>1, DocsAre DEF LoginHeartbeat, Typed
  <1>3. /\ doc.state = agent[a].state /\ doc.since = agent[a].since
        /\ doc.call = agent[a].call /\ doc.beat = 0
    BY <1>1 DEF Typed, AgentDoc
  <1>4. SeenNarrows(a) /\ \A r \in Readers : seen[r][a] # NULL => seen'[r][a] # NULL
    BY <1>1, SeenStays DEF LoginHeartbeat
  <1>5. ~Late(doc.beat)
    BY <1>3, Ages, Values DEF Late
  <1>6. \A b \in Agents : "request" \in upToDate[b] => request'[b] = request[b]
    BY <1>1 DEF LoginHeartbeat, Typed, PresenceInv, RequestsKnow
  <1>7. /\ request' \in [Agents -> Handled \cup {NULL}]
        /\ session' \in [Agents -> {"none", "starting", "on_time"}]
        /\ \A b \in Agents : b # a => session'[b] = session[b]
        /\ session[a] = "none" => session'[a] = "none"
        /\ upToDate' = upToDate /\ reader' = reader /\ here' \subseteq Agents
    BY <1>1 DEF LoginHeartbeat, Typed
  <1> HIDE DEF doc
  <1> QED BY <1>2, <1>3, <1>4, <1>5, <1>6, <1>7, QuietStep

LEMMA LoginFailsStep ==
  ASSUME PresenceInv, NEW a \in Agents, LoginFails(a)
  PROVE  PresenceInv'
  <1>1. Typed
    BY TypeOKIs DEF PresenceInv
  <1>2. agent[a] \in AgentDoc /\ agent' = [agent EXCEPT ![a] = agent[a]]
    BY <1>1 DEF LoginFails, Typed
  <1>3. SeenNarrows(a) /\ \A r \in Readers : seen[r][a] # NULL => seen'[r][a] # NULL
    BY <1>1, SeenStays DEF LoginFails
  <1>4. \A b \in Agents : "request" \in upToDate[b] => request'[b] = request[b]
    BY <1>1 DEF LoginFails, Typed, PresenceInv, RequestsKnow
  <1>5. /\ request' \in [Agents -> Handled \cup {NULL}]
        /\ session' \in [Agents -> {"none", "starting", "on_time"}]
        /\ \A b \in Agents : b # a => session'[b] = session[b]
        /\ session'[a] = "none"
    BY <1>1 DEF LoginFails, Typed
  <1> QED BY <1>1, <1>2, <1>3, <1>4, <1>5, QuietStep DEF LoginFails, Typed

\* What a request knows of its own agent is all that Request and Refuse change.
LEMMA RequestStep ==
  ASSUME PresenceInv, NEW a \in Agents,
         \/ \E action \in DOMAIN Actions : Request(a, action)
         \/ Refuse(a)
  PROVE  PresenceInv'
  <1>1. Typed
    BY TypeOKIs DEF PresenceInv
  <1>2. /\ UNCHANGED <<agent, reader, seen, here, session>>
        /\ \A b \in Agents : upToDate'[b] \cap Readers = upToDate[b] \cap Readers
        /\ upToDate' \in [Agents -> SUBSET (Readers \cup {"request"})]
    <2>1. ASSUME Refuse(a)
          PROVE  \A b \in Agents :
                   upToDate'[b] = IF b = a THEN upToDate[b] \ {"request"} ELSE upToDate[b]
      BY <1>1, <2>1 DEF Refuse, Typed
    <2>2. ASSUME NEW action \in DOMAIN Actions, Request(a, action)
          PROVE  \A b \in Agents :
                   upToDate'[b] = IF b = a THEN upToDate[b] \cup {"request"} ELSE upToDate[b]
      BY <1>1, <2>2 DEF Request, Typed
    <2>3. upToDate' = [b \in Agents |-> upToDate'[b]]
      BY <1>1 DEF Request, Refuse, Typed
    <2>4. \A b \in Agents : upToDate[b] \subseteq Readers \cup {"request"}
      BY <1>1 DEF Typed
    <2>5. \A b \in Agents : /\ upToDate'[b] \cap Readers = upToDate[b] \cap Readers
                            /\ upToDate'[b] \in SUBSET (Readers \cup {"request"})
      BY <2>1, <2>2, <2>4, Values
    <2> QED BY <2>3, <2>5 DEF Request, Refuse
  <1>3. request' \in [Agents -> Handled \cup {NULL}]
    BY <1>1 DEF Request, Refuse, Typed, Handled, AgentDoc
  <1>4. RequestsKnow'
    <2>1. \A b \in Agents : b # a => request'[b] = request[b] /\ upToDate'[b] = upToDate[b]
      BY <1>1 DEF Request, Refuse, Typed
    <2>2. "request" \in upToDate'[a] =>
            request'[a] # NULL /\ request'[a].at = "read" /\ request'[a].state = agent[a].state
      <3>1. ASSUME NEW action \in DOMAIN Actions, Request(a, action)
            PROVE  request'[a] # NULL /\ request'[a].at = "read"
                   /\ request'[a].state = agent[a].state
        <4>1. request'[a] = [action |-> action, state |-> agent[a].state, at |-> "read"]
          BY <1>1, <3>1 DEF Request, Typed
        <4>2. request'[a] \in Handled
          BY <4>1, <1>1 DEF Handled, Typed, AgentDoc
        <4> QED BY <4>1, <4>2, Values
      <3>2. ASSUME Refuse(a) PROVE "request" \notin upToDate'[a]
        BY <1>1, <3>2 DEF Refuse, Typed
      <3> QED BY <3>1, <3>2
    <2> QED BY <1>2, <2>1, <2>2 DEF PresenceInv, RequestsKnow
  <1>5. TypeOK'
    BY <1>1, <1>2, <1>3 DEF TypeOK, Typed, PresenceInv
  <1>6. ReadersKnow' /\ AgentsInOrder' /\ SweepsInOrder' /\ CallsSeenAreOver'
    BY <1>2 DEF PresenceInv, ReadersKnow, AgentsInOrder, SweepsInOrder, CallsSeenAreOver
  <1> QED BY <1>4, <1>5, <1>6 DEF PresenceInv

\* A transition that an agent makes starts from the state of the document.
LEMMA ApplyMoves ==
  ASSUME PresenceInv, NEW a \in Agents, request[a] # NULL, RequestMatches(a)
  PROVE  LET target == Actions[request[a].action] IN
         /\ target \in AgentState \ {"DIALING", "CONNECTED"}
         /\ target = "AVAILABLE" => agent[a].state \in {"OFFLINE", "PAUSED"}
         /\ target # "OFFLINE" => agent[a].call # "open"
         /\ request[a].action = "login" => target = "AVAILABLE"
  <1>1. Typed
    BY TypeOKIs DEF PresenceInv
  <1>2. request[a] \in Handled /\ request[a].state = agent[a].state
    BY <1>1 DEF Typed, RequestMatches, PresenceInv, RequestsKnow
  <1>3. agent[a].state \in AgentState /\ request[a].action \in DOMAIN Actions
    BY <1>1, <1>2 DEF Typed, AgentDoc, Handled
  <1>4. agent[a].call = "open" => agent[a].state \in {"DIALING", "CONNECTED"}
    BY DEF PresenceInv, AgentsInOrder
  <1> QED BY <1>2, <1>3, <1>4, AgentMoves DEF RequestMatches, Actions

LEMMA ApplyStep ==
  ASSUME PresenceInv, NEW a \in Agents, Apply(a)
  PROVE  PresenceInv'
  <1> DEFINE target == Actions[request[a].action]
             moved  == InState(a, target)
             doc    == [moved EXCEPT !.call = IF target = "OFFLINE" /\ @ = "open"
                                                THEN "earlier" ELSE @]
  <1>1. Typed
    BY TypeOKIs DEF PresenceInv
  <1>2. /\ target \in AgentState
        /\ target # "OFFLINE" => agent[a].call # "open"
        /\ request[a].action = "login" => target = "AVAILABLE"
    BY ApplyMoves DEF Apply
  <1>3. /\ moved \in AgentDoc /\ moved.call = agent[a].call
        /\ moved.beat = agent[a].beat
    BY <1>1, <1>2, DocsAre DEF InState, Typed, AgentDoc
  <1>4. doc \in AgentDoc /\ doc.beat = agent[a].beat /\ doc.call # "open"
    BY <1>2, <1>3 DEF AgentDoc, CallOf
  <1>5. Becomes(a, doc)
    BY DEF Apply
  <1>6. SeenNarrows(a)
    BY <1>1, SeenStays DEF Apply
  <1>7. /\ request' \in [Agents -> Handled \cup {NULL}]
        /\ \A b \in Agents : b # a => request'[b] = request[b]
    BY <1>1 DEF Apply, Typed, Handled
  <1>8. /\ session' \in [Agents -> {"none", "starting", "on_time"}]
        /\ \A b \in Agents : b # a => session'[b] = session[b]
        /\ session'[a] = "on_time" => session[a] = "on_time"
    BY <1>1 DEF Apply, Typed
  <1> HIDE DEF doc
  <1> QED BY <1>4, <1>5, <1>6, <1>7, <1>8, WriteStep DEF Apply
--------------------------------------------------------------------------------------
(* The dialer.                                                                            *)

LEMMA InStateIs ==
  ASSUME Typed, NEW a \in Agents, NEW s \in AgentState
  PROVE  /\ InState(a, s) \in AgentDoc
         /\ InState(a, s).state = s /\ InState(a, s).call = agent[a].call
         /\ InState(a, s).beat = agent[a].beat
  <1>1. InState(a, s) \in AgentDoc
    BY DocsAre DEF InState, Typed
  <1>2. agent[a] \in AgentDoc
    BY DEF Typed
  <1>3. /\ InState(a, s).state = s /\ InState(a, s).call = agent[a].call
        /\ InState(a, s).beat = agent[a].beat
    BY <1>2 DEF InState, AgentDoc
  <1> QED BY <1>1, <1>3

LEMMA InStateWithCall ==
  ASSUME Typed, NEW a \in Agents, NEW s \in AgentState, NEW c \in CallOf
  PROVE  LET doc == [InState(a, s) EXCEPT !.call = c] IN
         doc \in AgentDoc /\ doc.state = s /\ doc.call = c /\ doc.beat = agent[a].beat
  BY InStateIs DEF AgentDoc

LEMMA Names ==
  /\ {"OFFLINE", "AVAILABLE", "WRAP_UP", "DIALING"} \subseteq AgentState
  /\ {"none", "open", "earlier", "cut"} = CallOf
  BY DEF AgentState, CallOf

\* What WriteStep asks of a step that changes nothing else.
LEMMA OthersStay ==
  ASSUME Typed, UNCHANGED <<request, reader, here, session>>
  PROVE  /\ reader' = reader /\ here' = here
         /\ request' \in [Agents -> Handled \cup {NULL}] /\ request' = request
         /\ session' \in [Agents -> {"none", "starting", "on_time"}] /\ session' = session
  BY DEF Typed

\* RESERVED, or CONNECTED: the agent keeps its call.
LEMMA ReserveConnectStep ==
  ASSUME PresenceInv, NEW a \in Agents, Reserve(a) \/ Connect(a)
  PROVE  PresenceInv'
  <1>1. Typed
    BY TypeOKIs DEF PresenceInv
  <1>2. agent[a].call = "open" => agent[a].state \in {"DIALING", "CONNECTED"}
    BY DEF PresenceInv, AgentsInOrder
  <1>3. SeenNarrows(a)
    BY <1>1, SeenStays DEF Reserve, Connect
  <1>4. UNCHANGED <<request, reader, here, session>>
    BY DEF Reserve, Connect
  <1>5. CASE Reserve(a)
    <2>1. /\ Becomes(a, InState(a, "RESERVED")) /\ InState(a, "RESERVED") \in AgentDoc
          /\ InState(a, "RESERVED").call = agent[a].call
          /\ InState(a, "RESERVED").beat = agent[a].beat
          /\ agent[a].call # "open"
      BY <1>1, <1>2, <1>5, InStateIs DEF Reserve, AgentState
    <2> QED BY <1>1, <1>3, <1>4, <2>1, OthersStay, WriteStep
  <1>6. CASE Connect(a)
    <2>1. /\ Becomes(a, InState(a, "CONNECTED")) /\ InState(a, "CONNECTED") \in AgentDoc
          /\ InState(a, "CONNECTED").call = agent[a].call
          /\ InState(a, "CONNECTED").beat = agent[a].beat
          /\ InState(a, "CONNECTED").state = "CONNECTED"
      BY <1>1, <1>6, InStateIs DEF Connect, AgentState
    <2> QED BY <1>1, <1>3, <1>4, <2>1, OthersStay, WriteStep
  <1> QED BY <1>5, <1>6

LEMMA DialStep ==
  ASSUME PresenceInv, NEW a \in Agents, Dial(a)
  PROVE  PresenceInv'
  <1> DEFINE doc == [InState(a, "DIALING") EXCEPT !.call = "open"]
  <1>1. Typed
    BY TypeOKIs DEF PresenceInv
  <1>2. /\ SeenNarrows(a)
        /\ \A r \in Readers : seen'[r][a] # NULL => seen'[r][a].call # "open"
    BY <1>1, SeenCalls DEF Dial
  <1>3. doc \in AgentDoc /\ doc.state = "DIALING" /\ doc.beat = agent[a].beat
    BY <1>1, Names, InStateWithCall
  <1>4. Becomes(a, doc) /\ UNCHANGED <<request, reader, here, session>>
    BY DEF Dial
  <1> HIDE DEF doc
  <1> QED BY <1>1, <1>2, <1>3, <1>4, OthersStay, WriteStep

\* The call is over, by an event or by a release.
LEMMA CallEndsStep ==
  ASSUME PresenceInv, NEW a \in Agents, NEW target \in {"AVAILABLE", "WRAP_UP"},
         CallEnds(a, target) \/ (target = "AVAILABLE" /\ Released(a))
  PROVE  PresenceInv'
  <1> DEFINE doc == [InState(a, target) EXCEPT !.call = "none"]
  <1>1. Typed
    BY TypeOKIs DEF PresenceInv
  <1>2. SeenNarrows(a)
    BY <1>1, SeenCalls DEF CallEnds, Released, CallOver
  <1>3. doc \in AgentDoc /\ doc.call = "none" /\ doc.beat = agent[a].beat
    BY <1>1, Names, InStateWithCall
  <1>4. Becomes(a, doc) /\ UNCHANGED <<request, reader, here, session>>
    BY DEF CallEnds, Released
  <1> HIDE DEF doc
  <1> QED BY <1>1, <1>2, <1>3, <1>4, OthersStay, WriteStep

LEMMA CallsOfDocs ==
  ASSUME NEW doc \in AgentDoc, NEW c \in CallOf
  PROVE  LET with == [doc EXCEPT !.call = c] IN
         /\ with \in AgentDoc /\ with.state = doc.state /\ with.since = doc.since
         /\ with.beat = doc.beat /\ with.call = c
  BY DEF AgentDoc

LEMMA EarlierCallEndsStep ==
  ASSUME PresenceInv, NEW a \in Agents, EarlierCallEnds(a)
  PROVE  PresenceInv'
  <1> DEFINE doc == [agent[a] EXCEPT !.call = "none"]
  <1>1. Typed
    BY TypeOKIs DEF PresenceInv
  <1>2. SeenNarrows(a) /\ \A r \in Readers : seen[r][a] # NULL => seen'[r][a] # NULL
    BY <1>1, SeenCalls DEF EarlierCallEnds, CallOver
  <1>3. /\ doc \in AgentDoc /\ doc.call = "none" /\ doc.beat = agent[a].beat
        /\ doc.state = agent[a].state /\ doc.since = agent[a].since
    <2>1. agent[a] \in AgentDoc
      BY <1>1 DEF Typed
    <2> QED BY <2>1, Names, CallsOfDocs
  <1>4. /\ agent' = [agent EXCEPT ![a] = doc] /\ upToDate' = upToDate /\ here' \subseteq Agents
        /\ UNCHANGED <<request, reader, here, session>>
    BY <1>1 DEF EarlierCallEnds, Typed
  <1>5. session[a] = "on_time" => ~Late(doc.beat)
    BY <1>3 DEF PresenceInv, AgentsInOrder
  <1> HIDE DEF doc
  <1> QED BY <1>1, <1>2, <1>3, <1>4, <1>5, OthersStay, QuietStep

--------------------------------------------------------------------------------------
(* The sweeps.                                                                            *)

LEMMA CutCallStep ==
  ASSUME PresenceInv, NEW r \in Readers, NEW a \in Agents, CutCall(r, a)
  PROVE  PresenceInv'
  <1>1. Typed
    BY TypeOKIs DEF PresenceInv
  <1>2. /\ upToDate' = upToDate /\ UNCHANGED <<request, reader, here, session>>
        /\ here' \subseteq Agents /\ seen[r][a] # NULL
    BY <1>1 DEF CutCall, Typed
  <1>3. CASE seen[r][a].call = "open" /\ CallOver(a)
             /\ agent' = [agent EXCEPT ![a].call = IF @ = "open" THEN "cut" ELSE "none"]
    <2> DEFINE c   == IF agent[a].call = "open" THEN "cut" ELSE "none"
               doc == [agent[a] EXCEPT !.call = c]
    <2>1. SeenNarrows(a) /\ \A q \in Readers : seen[q][a] # NULL => seen'[q][a] # NULL
      BY <1>1, <1>3, SeenCalls DEF CallOver
    <2>2. /\ doc \in AgentDoc /\ doc.call # "open" /\ doc.beat = agent[a].beat
          /\ doc.state = agent[a].state /\ doc.since = agent[a].since
      <3>1. agent[a] \in AgentDoc /\ c \in CallOf /\ c # "open"
        BY <1>1, Names DEF Typed
      <3> HIDE DEF c
      <3> QED BY <3>1, CallsOfDocs
    <2>3. agent' = [agent EXCEPT ![a] = doc]
      BY <1>1, <1>3 DEF Typed
    <2>4. session[a] = "on_time" => ~Late(doc.beat)
      BY <2>2 DEF PresenceInv, AgentsInOrder
    <2> HIDE DEF doc
    <2> QED BY <1>1, <1>2, <2>1, <2>2, <2>3, <2>4, OthersStay, QuietStep
  <1>4. CASE seen' = [seen EXCEPT ![r][a].call = "none"] /\ agent' = agent
    <2> DEFINE c == [seen[r][a] EXCEPT !.call = "none"]
    <2>1. c \in Candidate /\ c.state = seen[r][a].state /\ c.call = "none"
      BY <1>1, <1>2 DEF Candidate, Typed
    <2>2. seen' = [seen EXCEPT ![r] = [seen[r] EXCEPT ![a] = c]]
      BY <1>4
    <2>3. \A q \in Readers, b \in Agents :
            seen'[q][b] = IF q = r /\ b = a THEN c ELSE seen[q][b]
      BY <1>1, <2>2 DEF Typed
    <2>4. seen' \in [Readers -> [Agents -> Candidate \cup {NULL}]]
      BY <1>1, <2>1, <2>2 DEF Typed
    <2>5. SeenNarrows(a) /\ \A q \in Readers : seen[q][a] # NULL => seen'[q][a] # NULL
      <3> HIDE DEF c
      <3> QED BY <1>2, <2>1, <2>3, <2>4, Values DEF SeenNarrows
    <2>6. agent[a] \in AgentDoc /\ agent' = [agent EXCEPT ![a] = agent[a]]
      BY <1>1, <1>4 DEF Typed
    <2>7. session[a] = "on_time" => ~Late(agent[a].beat)
      BY DEF PresenceInv, AgentsInOrder
    <2> HIDE DEF c
    <2> QED BY <1>1, <1>2, <2>5, <2>6, <2>7, OthersStay, QuietStep
  <1> QED BY <1>3, <1>4 DEF CutCall

LEMMA TakeOfflineStep ==
  ASSUME PresenceInv, NEW r \in Readers, NEW a \in Agents, TakeOffline(r, a)
  PROVE  PresenceInv'
  <1> DEFINE c   == IF agent[a].call = "open" THEN "earlier" ELSE agent[a].call
             doc == [InState(a, "OFFLINE") EXCEPT !.call = c]
  <1>1. Typed
    BY TypeOKIs DEF PresenceInv
  <1>2. c \in CallOf /\ c # "open" /\ InState(a, "OFFLINE").call = agent[a].call
    <2>1. agent[a].call \in CallOf
      BY <1>1 DEF Typed, AgentDoc
    <2> QED BY <1>1, <2>1, Names, InStateIs
  <1>3. doc \in AgentDoc /\ doc.call # "open" /\ doc.beat = agent[a].beat
    <2> HIDE DEF c
    <2> QED BY <1>1, <1>2, Names, InStateWithCall
  <1>4. Becomes(a, doc)
    BY <1>2 DEF TakeOffline
  <1>5. SeenNarrows(a)
    BY <1>1, SeenNext DEF TakeOffline
  <1>6. /\ session' \in [Agents -> {"none", "starting", "on_time"}]
        /\ \A b \in Agents : b # a => session'[b] = session[b]
        /\ session'[a] = "none"
        /\ request' = request /\ request' \in [Agents -> Handled \cup {NULL}]
        /\ reader' = reader /\ here' = here
    BY <1>1 DEF TakeOffline, Typed
  <1> HIDE DEF doc
  <1> QED BY <1>3, <1>4, <1>5, <1>6, WriteStep

LEMMA EndWrapUpStep ==
  ASSUME PresenceInv, NEW r \in Readers, NEW a \in Agents, EndWrapUp(r, a)
  PROVE  PresenceInv'
  <1>1. Typed
    BY TypeOKIs DEF PresenceInv
  <1>2. agent[a].state = "WRAP_UP"
    BY <1>1, TypeOKIs DEF EndWrapUp, CandidateMatches, StatesKnown, PresenceInv, SweepsInOrder
  <1>3. agent[a].call # "open"
    BY <1>2 DEF PresenceInv, AgentsInOrder
  <1>4. /\ InState(a, "AVAILABLE") \in AgentDoc
        /\ InState(a, "AVAILABLE").call = agent[a].call
        /\ InState(a, "AVAILABLE").beat = agent[a].beat
    BY <1>1, InStateIs DEF AgentState
  <1>5. SeenNarrows(a)
    BY <1>1, SeenNext DEF EndWrapUp
  <1>6. Becomes(a, InState(a, "AVAILABLE")) /\ UNCHANGED <<request, reader, here, session>>
    BY DEF EndWrapUp
  <1> QED BY <1>1, <1>3, <1>4, <1>5, <1>6, OthersStay, WriteStep

\* A candidate that is passed over was not known: what is known can be carried out.
LEMMA SkipStep ==
  ASSUME PresenceInv, NEW r \in Readers, NEW a \in Agents, Skip(r, a)
  PROVE  PresenceInv'
  <1>1. Typed
    BY TypeOKIs DEF PresenceInv
  <1>2. r \notin upToDate[a]
    <2>1. seen[r][a] # NULL /\ seen[r][a] \in Candidate /\ seen[r][a].state \in AgentState
      BY <1>1 DEF Skip, Typed, Candidate
    <2>2. CASE reader[r].at = "silent" /\ ~CandidateMatches(r, a, "OFFLINE")
      <3>1. ActorOf(r) = "RECOVERY" /\ seen[r][a].state # "OFFLINE"
        BY <2>1, <2>2 DEF PresenceInv, SweepsInOrder, ActorOf
      <3> QED BY <2>1, <2>2, <3>1, SweepMoves DEF CandidateMatches
    <2>3. CASE reader[r].at = "wrap_ups" /\ ~CandidateMatches(r, a, "AVAILABLE")
      <3>1. seen[r][a].state = "WRAP_UP" /\ ActorOf(r) \in {"RECOVERY", "WORKER_TIMER"}
        BY <2>1, <2>3 DEF PresenceInv, SweepsInOrder, ActorOf
      <3> QED BY <2>3, <3>1, SweepMoves DEF CandidateMatches
    <2> QED BY <2>2, <2>3 DEF Skip
  <1>3. UNCHANGED <<agent, request, reader, upToDate, here, session>>
    BY DEF Skip
  <1>4. \A q \in Readers, b \in Agents :
          seen'[q][b] = IF q = r /\ b = a THEN NULL ELSE seen[q][b]
    BY <1>1 DEF Typed, Skip, NextCandidate
  <1>5. TypeOK'
    <2>1. seen' \in [Readers -> [Agents -> Candidate \cup {NULL}]]
      BY <1>1 DEF Typed, Skip, NextCandidate
    <2>2. \A b \in Agents : \A q \in upToDate[b] \cap Readers :
            seen'[q][b] # NULL /\ seen'[q][b].state = agent[b].state
      BY <1>2, <1>4, TypeOKIs DEF PresenceInv, StatesKnown
    <2> QED BY <1>1, <1>3, <2>1, <2>2 DEF Typed, TypeOK
  <1>6. SweepsInOrder' /\ CallsSeenAreOver'
    BY <1>3, <1>4 DEF PresenceInv, SweepsInOrder, CallsSeenAreOver
  <1>7. AgentsInOrder' /\ RequestsKnow' /\ ReadersKnow'
    BY <1>3 DEF PresenceInv, AgentsInOrder, RequestsKnow, ReadersKnow
  <1> QED BY <1>5, <1>6, <1>7 DEF PresenceInv

LEMMA QueryMeans ==
  ASSUME Typed, NEW r \in Readers, NEW matching, Query(r, matching)
  PROVE  /\ seen' \in [Readers -> [Agents -> Candidate \cup {NULL}]]
         /\ upToDate' \in [Agents -> SUBSET (Readers \cup {"request"})]
         /\ \A q \in Readers, b \in Agents : q # r =>
              seen'[q][b] = seen[q][b] /\ (q \in upToDate'[b] <=> q \in upToDate[b])
         /\ \A b \in Agents : "request" \in upToDate'[b] <=> "request" \in upToDate[b]
         /\ \A b \in Agents : /\ r \in upToDate'[b] <=> b \in matching
                              /\ seen'[r][b] # NULL <=> b \in matching
                              /\ b \in matching => seen'[r][b].state = agent[b].state
  <1> DEFINE new(b) == [state |-> agent[b].state,
                        call |-> IF agent[b].call \in {"open", "earlier"} THEN "open" ELSE "none"]
             got    == [b \in Agents |-> IF b \notin matching THEN NULL ELSE new(b)]
  <1>1. \A b \in Agents : new(b) \in Candidate /\ new(b).state = agent[b].state
    BY DEF Typed, AgentDoc, Candidate
  <1>2. seen' = [seen EXCEPT ![r] = got]
    BY DEF Query
  <1> HIDE DEF new
  <1>3. got \in [Agents -> Candidate \cup {NULL}]
    BY <1>1
  <1>4. \A b \in Agents : /\ got[b] # NULL <=> b \in matching
                          /\ b \in matching => got[b].state = agent[b].state
    BY <1>1, Values
  <1> HIDE DEF got
  <1>5. /\ seen' \in [Readers -> [Agents -> Candidate \cup {NULL}]]
        /\ seen'[r] = got /\ \A q \in Readers : q # r => seen'[q] = seen[q]
    BY <1>2, <1>3 DEF Typed
  <1>6. \A b \in Agents : upToDate'[b] = IF b \in matching THEN upToDate[b] \cup {r}
                                                          ELSE upToDate[b] \ {r}
    BY DEF Query
  <1>7. upToDate' \in [Agents -> SUBSET (Readers \cup {"request"})]
    BY DEF Query, Typed
  <1>8. \A q \in Readers, b \in Agents : q # r =>
          seen'[q][b] = seen[q][b] /\ (q \in upToDate'[b] <=> q \in upToDate[b])
    BY <1>5, <1>6
  <1>9. \A b \in Agents : "request" \in upToDate'[b] <=> "request" \in upToDate[b]
    BY <1>6, Values
  <1>10. \A b \in Agents : /\ r \in upToDate'[b] <=> b \in matching
                           /\ seen'[r][b] # NULL <=> b \in matching
                           /\ b \in matching => seen'[r][b].state = agent[b].state
    BY <1>4, <1>5, <1>6
  <1> QED BY <1>5, <1>7, <1>8, <1>9, <1>10

\* A sweep's query: the candidates are as they are found, and known.
LEMMA QueryStep ==
  ASSUME PresenceInv, NEW r \in Readers, NEW matching, Query(r, matching),
         NEW at \in {"silent", "wrap_ups"}, reader' = [reader EXCEPT ![r].at = at],
         at = "silent" => r \in RecoveryWorkers,
         UNCHANGED <<agent, request, here>>,
         session' \in [Agents -> {"none", "starting", "on_time"}],
         \A a \in Agents : session'[a] \in {session[a], "none"},
         \A a \in Agents : a \in matching =>
           /\ at = "silent" => agent[a].state # "OFFLINE" /\ session'[a] = "none"
           /\ at = "wrap_ups" => agent[a].state = "WRAP_UP" /\ agent[a].since >= WRAP_UP_SECONDS
  PROVE  PresenceInv'
  <1>1. Typed
    BY TypeOKIs DEF PresenceInv
  <1>2. /\ reader' \in [Readers -> ReaderState]
        /\ \A q \in Readers : reader'[q].at = IF q = r THEN at ELSE reader[q].at
    <2>1. reader[r] \in ReaderState
      BY <1>1 DEF Typed
    <2>2. [reader[r] EXCEPT !.at = at] \in ReaderState /\ [reader[r] EXCEPT !.at = at].at = at
      BY <2>1 DEF ReaderState
    <2> QED BY <1>1, <2>2 DEF Typed
  <1>3. /\ seen' \in [Readers -> [Agents -> Candidate \cup {NULL}]]
        /\ upToDate' \in [Agents -> SUBSET (Readers \cup {"request"})]
        /\ \A q \in Readers, b \in Agents : q # r =>
             seen'[q][b] = seen[q][b] /\ (q \in upToDate'[b] <=> q \in upToDate[b])
        /\ \A b \in Agents : "request" \in upToDate'[b] <=> "request" \in upToDate[b]
        /\ \A b \in Agents : /\ r \in upToDate'[b] <=> b \in matching
                             /\ seen'[r][b] # NULL <=> b \in matching
                             /\ b \in matching => seen'[r][b].state = agent[b].state
    BY <1>1, QueryMeans
  <1>4. Typed'
    BY <1>1, <1>2, <1>3 DEF Typed
  <1>5. agent' = agent /\ request' = request
    OBVIOUS
  <1>6. StatesKnown'
    <2>1. ASSUME NEW a \in Agents, NEW q \in Readers, q \in upToDate'[a]
          PROVE  seen'[q][a] # NULL /\ seen'[q][a].state = agent[a].state
      <3>1. CASE q = r
        BY <1>3, <2>1, <3>1
      <3>2. CASE q # r
        BY <1>3, <2>1, <3>2, TypeOKIs DEF PresenceInv, StatesKnown
      <3> QED BY <3>1, <3>2
    <2> QED BY <1>5, <2>1 DEF StatesKnown
  <1>7. TypeOK'
    BY <1>4, <1>6 DEF TypeOK, Typed, StatesKnown
  <1>8. AgentsInOrder'
    BY DEF PresenceInv, AgentsInOrder
  <1>9. RequestsKnow'
    BY <1>3 DEF PresenceInv, RequestsKnow
  <1>10. SweepsInOrder'
    <2>1. ASSUME NEW q \in Readers
          PROVE  reader'[q].at \in {"started", "silent"} => q \in RecoveryWorkers
      BY <1>2 DEF PresenceInv, SweepsInOrder
    <2>2. ASSUME NEW q \in Readers, NEW a \in Agents, seen'[q][a] # NULL
          PROVE  \/ reader'[q].at = "silent" /\ seen'[q][a].state # "OFFLINE"
                 \/ reader'[q].at = "wrap_ups" /\ seen'[q][a].state = "WRAP_UP"
      <3>1. CASE q = r
        <4>1. a \in matching /\ seen'[q][a].state = agent[a].state /\ reader'[q].at = at
          BY <1>2, <1>3, <2>2, <3>1
        <4> QED BY <4>1
      <3>2. CASE q # r
        BY <1>2, <1>3, <2>2, <3>2 DEF PresenceInv, SweepsInOrder
      <3> QED BY <3>1, <3>2
    <2> QED BY <2>1, <2>2 DEF SweepsInOrder
  <1>11. ReadersKnow'
    <2>1. ASSUME NEW q \in Readers, NEW a \in Agents, q \in upToDate'[a]
          PROVE  /\ reader'[q].at = "silent" => session'[a] = "none"
                 /\ reader'[q].at = "wrap_ups" => agent'[a].since >= WRAP_UP_SECONDS
      <3>1. CASE q = r
        <4>1. a \in matching /\ reader'[q].at = at
          BY <1>2, <1>3, <2>1, <3>1
        <4> QED BY <1>5, <4>1
      <3>2. CASE q # r
        BY <1>2, <1>3, <1>5, <2>1, <3>2 DEF PresenceInv, ReadersKnow
      <3> QED BY <3>1, <3>2
    <2> QED BY <2>1 DEF ReadersKnow
  <1>12. CallsSeenAreOver'
    <2>1. ASSUME NEW q \in Readers, NEW a \in Agents,
                 reader'[q].at = "silent", seen'[q][a] # NULL, session'[a] # "none"
          PROVE  seen'[q][a].call # "open" \/ agent'[a].call # "open"
      <3>1. CASE q = r
        <4>1. a \in matching /\ at = "silent"
          BY <1>2, <1>3, <2>1, <3>1
        <4> QED BY <2>1, <4>1
      <3>2. CASE q # r
        <4>1. /\ reader[q].at = "silent" /\ seen'[q][a] = seen[q][a] /\ session[a] # "none"
          BY <1>2, <1>3, <2>1, <3>2
        <4> QED BY <1>5, <2>1, <4>1 DEF PresenceInv, CallsSeenAreOver
      <3> QED BY <3>1, <3>2
    <2> QED BY <2>1 DEF CallsSeenAreOver
  <1> QED BY <1>7, <1>8, <1>9, <1>10, <1>11, <1>12 DEF PresenceInv

LEMMA FindSilentStep ==
  ASSUME PresenceInv, NEW r \in Readers, FindSilent(r)
  PROVE  PresenceInv'
  <1> DEFINE matching == { a \in Agents : HeartbeatExpired(agent[a], reader[r].delay) }
  <1>1. Typed
    BY TypeOKIs DEF PresenceInv
  <1>2. Query(r, matching) /\ UNCHANGED <<agent, request, here>>
        /\ reader' = [reader EXCEPT ![r].at = "silent"] /\ r \in RecoveryWorkers
    BY DEF FindSilent, PresenceInv, SweepsInOrder
  <1>3. reader[r].delay \in Nat
    BY <1>1, Ages DEF Typed, ReaderState
  <1>4. ASSUME NEW a \in matching
        PROVE  agent[a].state # "OFFLINE" /\ session[a] # "on_time"
    <2>1. a \in Agents /\ HeartbeatExpired(agent[a], reader[r].delay)
      OBVIOUS
    <2>2. agent[a].beat \in Nat
      BY <1>1, <2>1, Ages DEF HeartbeatExpired, Typed, AgentDoc
    <2>3. agent[a].beat > AGENT_HEARTBEAT_TIMEOUT_SECONDS
      BY <1>3, <2>1, <2>2, Ages DEF HeartbeatExpired
    <2> QED BY <2>1, <2>3 DEF HeartbeatExpired, PresenceInv, AgentsInOrder, Late
  <1>5. \A a \in Agents : session[a] \in {"none", "starting", "on_time"}
    BY <1>1 DEF Typed
  <1>6. \A a \in Agents : seen'[r][a] # NULL <=> a \in matching
    <2>1. Query(r, matching)
      BY <1>2
    <2> HIDE DEF matching
    <2> QED BY <1>1, <2>1, QueryMeans
  <1>7. /\ session' \in [Agents -> {"none", "starting", "on_time"}]
        /\ \A a \in Agents : session'[a] = IF session[a] = "starting" /\ seen'[r][a] # NULL
                                           THEN "none" ELSE session[a]
    BY <1>5 DEF FindSilent
  <1>8. \A a \in Agents : a \in matching => agent[a].state # "OFFLINE" /\ session'[a] = "none"
    BY <1>4, <1>5, <1>6, <1>7
  <1> HIDE DEF matching
  <1> QED BY <1>2, <1>7, <1>8, QueryStep

LEMMA FindWrapUpsStep ==
  ASSUME PresenceInv, NEW r \in Readers, FindStuckWrapUps(r) \/ FindFinishedWrapUps(r)
  PROVE  PresenceInv'
  <1>1. Typed
    BY TypeOKIs DEF PresenceInv
  <1>2. reader[r].delay \in Nat
    BY <1>1, Ages DEF Typed, ReaderState
  <1>3. \A a \in Agents : agent[a].since \in Nat
    BY <1>1, Ages DEF Typed, AgentDoc
  <1>4. /\ UNCHANGED <<agent, request, here, session>>
        /\ reader' = [reader EXCEPT ![r].at = "wrap_ups"]
        /\ session' \in [Agents -> {"none", "starting", "on_time"}]
    BY <1>1 DEF FindStuckWrapUps, FindFinishedWrapUps, Typed
  <1>5. ASSUME NEW age \in Nat, age >= WRAP_UP_SECONDS,
               Query(r, { a \in Agents : WrapUpExpired(agent[a], age) })
        PROVE  PresenceInv'
    <2> DEFINE matching == { a \in Agents : WrapUpExpired(agent[a], age) }
    <2>1. \A a \in Agents : a \in matching =>
            agent[a].state = "WRAP_UP" /\ agent[a].since >= WRAP_UP_SECONDS
      BY <1>3, <1>5, Ages DEF WrapUpExpired
    <2> HIDE DEF matching
    <2>2. Query(r, matching)
      BY <1>5 DEF matching
    <2> QED BY <1>4, <2>1, <2>2, QueryStep
  <1>6. CASE FindStuckWrapUps(r)
    <2> DEFINE age == 3 * WRAP_UP_SECONDS + reader[r].delay
    <2>1. age \in Nat /\ age >= WRAP_UP_SECONDS
      BY <1>2, Ages
    <2>2. Query(r, { a \in Agents : WrapUpExpired(agent[a], age) })
      BY <1>6 DEF FindStuckWrapUps
    <2> HIDE DEF age
    <2> QED BY <1>5, <2>1, <2>2
  <1>7. CASE FindFinishedWrapUps(r)
    BY <1>5, <1>7, Ages DEF FindFinishedWrapUps
  <1> QED BY <1>6, <1>7

\* A round begins or ends: nobody is a candidate of it.
LEMMA RoundStep ==
  ASSUME PresenceInv, NEW r \in Readers, StartSweeps(r) \/ FinishSweeps(r)
  PROVE  PresenceInv'
  <1>1. Typed
    BY TypeOKIs DEF PresenceInv
  <1>2. UNCHANGED <<agent, request, seen, upToDate, here, session>>
    BY DEF StartSweeps, FinishSweeps
  <1>3. \A a \in Agents : seen[r][a] = NULL
    <2>1. CASE StartSweeps(r)
      BY <2>1 DEF StartSweeps, PresenceInv, SweepsInOrder
    <2>2. CASE FinishSweeps(r)
      BY <2>2 DEF FinishSweeps, Nobody
    <2> QED BY <2>1, <2>2
  <1>4. /\ reader' \in [Readers -> ReaderState]
        /\ reader'[r].at \in {"started", "idle"}
        /\ reader'[r].at = "started" => r \in RecoveryWorkers
        /\ \A q \in Readers : q # r => reader'[q] = reader[q]
    BY <1>1, Ages DEF StartSweeps, FinishSweeps, Typed, ReaderState
  <1>5. TypeOK'
    BY <1>2, <1>4 DEF TypeOK, PresenceInv
  <1>6. AgentsInOrder' /\ RequestsKnow'
    BY <1>2 DEF PresenceInv, AgentsInOrder, RequestsKnow
  <1>7. SweepsInOrder'
    BY <1>2, <1>3, <1>4 DEF PresenceInv, SweepsInOrder
  <1>8. ReadersKnow'
    BY <1>2, <1>4 DEF PresenceInv, ReadersKnow
  <1>9. CallsSeenAreOver'
    BY <1>2, <1>3, <1>4 DEF PresenceInv, CallsSeenAreOver
  <1> QED BY <1>5, <1>6, <1>7, <1>8, <1>9 DEF PresenceInv

LEMMA SweepFailsStep ==
  ASSUME PresenceInv, NEW r \in Readers, SweepFails(r)
  PROVE  PresenceInv'
  <1>1. Typed
    BY TypeOKIs DEF PresenceInv
  <1>2. UNCHANGED <<agent, request, reader, here, session>>
    BY DEF SweepFails
  <1>3. /\ seen' \in [Readers -> [Agents -> Candidate \cup {NULL}]]
        /\ \A a \in Agents : seen'[r][a] = NULL
        /\ \A q \in Readers : q # r => seen'[q] = seen[q]
    BY <1>1 DEF SweepFails, Typed, Nobody
  <1>4. /\ upToDate' \in [Agents -> SUBSET (Readers \cup {"request"})]
        /\ \A a \in Agents : upToDate'[a] = upToDate[a] \ {r}
    BY <1>1 DEF SweepFails, Typed
  <1>5. TypeOK'
    BY <1>1, <1>2, <1>3, <1>4 DEF TypeOK, Typed, PresenceInv
  <1>6. AgentsInOrder' /\ RequestsKnow'
    BY <1>2, <1>4 DEF PresenceInv, AgentsInOrder, RequestsKnow
  <1>7. SweepsInOrder'
    BY <1>2, <1>3 DEF PresenceInv, SweepsInOrder
  <1>8. ReadersKnow'
    BY <1>2, <1>4 DEF PresenceInv, ReadersKnow
  <1>9. CallsSeenAreOver'
    BY <1>2, <1>3 DEF PresenceInv, CallsSeenAreOver
  <1> QED BY <1>5, <1>6, <1>7, <1>8, <1>9 DEF PresenceInv

--------------------------------------------------------------------------------------
(* The clock.                                                                             *)

LEMMA AgesGrow ==
  /\ \A b \in Beats : b # NULL =>
       (IF b < OldestBeat THEN b + 1 ELSE b) \in Beats \ {NULL}
  /\ \A n \in Spans : /\ (IF n < OldestWrapUp THEN n + 1 ELSE n) \in Spans
                      /\ (IF n < OldestWrapUp THEN n + 1 ELSE n) >= n
  /\ \A n \in Delays : (IF n < MaxSweepDelay THEN n + 1 ELSE n) \in Delays
  BY PresenceAssumption DEF Beats, Spans, Delays, OldestBeat, OldestWrapUp

\* An agent grows older and is otherwise as it was.
LEMMA AgentsGrowOlder ==
  ASSUME Typed, Tick, NEW a \in Agents
  PROVE  /\ agent'[a] \in AgentDoc
         /\ agent'[a].state = agent[a].state /\ agent'[a].call = agent[a].call
         /\ agent[a].state = "WRAP_UP" => agent'[a].since >= agent[a].since
         /\ agent[a].beat # NULL => agent'[a].beat # NULL
         /\ session'[a] = "on_time" =>
              session[a] = "on_time" /\ ~(agent'[a].beat > AGENT_HEARTBEAT_TIMEOUT_SECONDS)
         /\ session'[a] \in {session[a], "none"}
  <1> DEFINE b == IF agent[a].beat = NULL THEN NULL
                  ELSE IF agent[a].beat < OldestBeat THEN agent[a].beat + 1 ELSE agent[a].beat
             n == IF agent[a].state = "WRAP_UP"
                  THEN IF agent[a].since < OldestWrapUp THEN agent[a].since + 1 ELSE agent[a].since
                  ELSE 0
  <1>1. agent[a] \in AgentDoc /\ agent[a].beat \in Beats /\ agent[a].since \in Spans
    BY DEF Typed, AgentDoc
  <1>2. /\ b \in Beats /\ n \in Spans
        /\ agent[a].beat # NULL => b # NULL
        /\ agent[a].state = "WRAP_UP" => n >= agent[a].since
    BY <1>1, Ages, AgesGrow
  <1>3. agent'[a] = [agent[a] EXCEPT !.beat = b, !.since = n]
    BY DEF Tick
  <1>4. /\ agent'[a] \in AgentDoc /\ agent'[a].beat = b /\ agent'[a].since = n
        /\ agent'[a].state = agent[a].state /\ agent'[a].call = agent[a].call
    <2> DEFINE older == [agent[a] EXCEPT !.beat = b, !.since = n]
    <2>1. b \in Beats /\ n \in Spans
      BY <1>2
    <2> HIDE DEF b, n
    <2>2. /\ older \in AgentDoc /\ older.beat = b /\ older.since = n
          /\ older.state = agent[a].state /\ older.call = agent[a].call
      BY <1>1, <2>1 DEF AgentDoc
    <2>3. agent'[a] = older
      BY <1>3
    <2> HIDE DEF older
    <2> QED BY <2>2, <2>3
  <1>5. session'[a] = IF session[a] = "on_time" /\ agent'[a].beat > AGENT_HEARTBEAT_TIMEOUT_SECONDS
                      THEN "none" ELSE session[a]
    BY DEF Tick
  <1> HIDE DEF b, n
  <1> QED BY <1>2, <1>4, <1>5

LEMMA TickStep ==
  ASSUME PresenceInv, Tick
  PROVE  PresenceInv'
  <1>1. Typed
    BY TypeOKIs DEF PresenceInv
  <1>2. UNCHANGED <<request, seen, upToDate, here>>
    BY DEF Tick
  <1>3. \A a \in Agents :
          /\ agent'[a] \in AgentDoc
          /\ agent'[a].state = agent[a].state /\ agent'[a].call = agent[a].call
          /\ agent[a].state = "WRAP_UP" => agent'[a].since >= agent[a].since
          /\ agent[a].beat # NULL => agent'[a].beat # NULL
          /\ session'[a] = "on_time" =>
               session[a] = "on_time" /\ ~(agent'[a].beat > AGENT_HEARTBEAT_TIMEOUT_SECONDS)
          /\ session'[a] \in {session[a], "none"}
    BY <1>1, AgentsGrowOlder
  <1>4. \A r \in Readers : reader'[r] \in ReaderState /\ reader'[r].at = reader[r].at
    <2>1. ASSUME NEW r \in Readers
          PROVE  reader'[r] \in ReaderState /\ reader'[r].at = reader[r].at
      <3> DEFINE d == IF reader[r].delay < MaxSweepDelay THEN reader[r].delay + 1
                      ELSE reader[r].delay
      <3>1. reader[r] \in ReaderState /\ d \in Delays
        BY <1>1, AgesGrow DEF Typed, ReaderState
      <3>2. reader'[r] = reader[r] \/ reader'[r] = [reader[r] EXCEPT !.delay = d]
        BY DEF Tick
      <3> HIDE DEF d
      <3> QED BY <3>1, <3>2 DEF ReaderState
    <2> QED BY <2>1
  <1>5. Typed'
    <2>1. agent' \in [Agents -> AgentDoc]
      BY <1>3 DEF Tick
    <2>2. reader' \in [Readers -> ReaderState]
      BY <1>4 DEF Tick
    <2>3. session' \in [Agents -> {"none", "starting", "on_time"}]
      BY <1>1, <1>3 DEF Tick, Typed
    <2> QED BY <1>1, <1>2, <2>1, <2>2, <2>3 DEF Typed
  <1>6. TypeOK'
    <2>1. StatesKnown
      BY TypeOKIs DEF PresenceInv
    <2>2. StatesKnown'
      BY <1>2, <1>3, <2>1 DEF StatesKnown
    <2> QED BY <1>5, <2>2 DEF TypeOK, Typed, StatesKnown
  <1>7. AgentsInOrder'
    BY <1>3 DEF PresenceInv, AgentsInOrder, Late
  <1>8. RequestsKnow'
    BY <1>2, <1>3 DEF PresenceInv, RequestsKnow
  <1>9. SweepsInOrder'
    BY <1>2, <1>4 DEF PresenceInv, SweepsInOrder
  <1>10. ReadersKnow'
    <2>1. ASSUME NEW a \in Agents, NEW r \in Readers, r \in upToDate[a],
                 reader[r].at = "wrap_ups"
          PROVE  agent'[a].since >= WRAP_UP_SECONDS
      <3>1. agent[a].state = "WRAP_UP" /\ agent[a].since >= WRAP_UP_SECONDS
        BY <1>1, <2>1, TypeOKIs DEF PresenceInv, ReadersKnow, SweepsInOrder, StatesKnown
      <3>2. agent[a].since \in Nat /\ agent'[a].since \in Nat /\ WRAP_UP_SECONDS \in Nat
        BY <1>1, <1>3, Ages DEF Typed, AgentDoc
      <3> QED BY <1>3, <3>1, <3>2
    <2>2. ASSUME NEW a \in Agents, NEW r \in Readers, r \in upToDate[a],
                 reader[r].at = "silent"
          PROVE  session'[a] = "none"
      BY <1>3, <2>2 DEF PresenceInv, ReadersKnow
    <2> QED BY <1>2, <1>4, <2>1, <2>2 DEF ReadersKnow
  <1>11. CallsSeenAreOver'
    BY <1>2, <1>3, <1>4 DEF PresenceInv, CallsSeenAreOver
  <1> QED BY <1>6, <1>7, <1>8, <1>9, <1>10, <1>11 DEF PresenceInv

--------------------------------------------------------------------------------------
(* The invariant and the theorems.                                                        *)

LEMMA PresenceInit == Init => PresenceInv
  <1> SUFFICES ASSUME Init PROVE PresenceInv
    OBVIOUS
  <1>1. [state |-> "OFFLINE", beat |-> NULL, since |-> 0, call |-> "none"] \in AgentDoc
    BY Ages, Names DEF AgentDoc
  <1>2. [at |-> "idle", delay |-> 0] \in ReaderState
    BY Ages DEF ReaderState
  <1>3. TypeOK
    BY <1>1, <1>2 DEF Init, TypeOK, Nobody
  <1>4. AgentsInOrder /\ RequestsKnow /\ SweepsInOrder /\ ReadersKnow /\ CallsSeenAreOver
    BY DEF Init, Nobody, AgentsInOrder, RequestsKnow, SweepsInOrder, ReadersKnow, CallsSeenAreOver
  <1> QED BY <1>3, <1>4 DEF PresenceInv

LEMMA PresenceNext == PresenceInv /\ [Next]_vars => PresenceInv'
  <1> SUFFICES ASSUME PresenceInv, [Next]_vars PROVE PresenceInv'
    OBVIOUS
  <1>1. ASSUME NEW a \in Agents,
               Arrive(a) \/ Vanish(a) \/ Heartbeat(a) \/ Handle(a) \/ LoginFails(a)
        PROVE  PresenceInv'
    BY <1>1, ArriveVanishStep, HeartbeatStep, ApplyStep, RequestStep, LoginHeartbeatStep,
       LoginFailsStep DEF Handle
  <1>2. ASSUME NEW a \in Agents, Work(a)
        PROVE  PresenceInv'
    <2>1. ASSUME NEW target \in {"AVAILABLE", "WRAP_UP"}, CallEnds(a, target)
          PROVE  PresenceInv'
      BY <2>1, CallEndsStep
    <2>2. CASE Released(a)
      <3>1. "AVAILABLE" \in {"AVAILABLE", "WRAP_UP"}
        OBVIOUS
      <3> QED BY <2>2, <3>1, CallEndsStep
    <2>3. CASE Reserve(a) \/ Connect(a)
      BY <2>3, ReserveConnectStep
    <2>4. CASE Dial(a) \/ EarlierCallEnds(a)
      BY <2>4, DialStep, EarlierCallEndsStep
    <2> QED BY <1>2, <2>1, <2>2, <2>3, <2>4 DEF Work
  <1>3. ASSUME NEW a \in Agents, NEW action \in DOMAIN Actions, Request(a, action)
        PROVE  PresenceInv'
    BY <1>3, RequestStep
  <1>4. ASSUME NEW r \in Readers, Sweep(r) \/ SweepFails(r)
        PROVE  PresenceInv'
    BY <1>4, RoundStep, FindSilentStep, FindWrapUpsStep, CutCallStep, TakeOfflineStep,
       EndWrapUpStep, SkipStep, SweepFailsStep DEF Sweep
  <1>5. CASE UNCHANGED vars
    BY <1>5 DEF vars, PresenceInv, TypeOK, AgentsInOrder, RequestsKnow, SweepsInOrder,
                ReadersKnow, CallsSeenAreOver
  <1> QED BY <1>1, <1>2, <1>3, <1>4, <1>5, TickStep DEF Next

\* The state of agents, requests and sweeps has its type, and a sweep that knows an agent's
\* version knows its state, however long ago it read the document.
THEOREM PresenceTypes == Spec => []TypeOK
  <1>1. PresenceInv => TypeOK
    BY DEF PresenceInv
  <1> QED BY <1>1, PresenceInit, PresenceNext, PTL DEF Spec

--------------------------------------------------------------------------------------
(* What a step may do to one agent.                                                       *)

\* The two action properties, for an agent.
Respects(a) ==
  /\ session[a] = "on_time" /\ request'[a] = request[a] =>
       /\ agent[a].state # "OFFLINE" => agent'[a].state # "OFFLINE"
       /\ agent[a].call = "open" => agent'[a].call # "cut"
  /\ agent[a].state = "WRAP_UP" /\ agent'[a].state = "AVAILABLE" =>
       agent[a].since >= WRAP_UP_SECONDS

LEMMA SameRespects ==
  ASSUME NEW a \in Agents, agent'[a].state = agent[a].state, agent'[a].call = agent[a].call
  PROVE  Respects(a)
  BY DEF Respects

LEMMA OneDocument ==
  ASSUME Typed, NEW a \in Agents, NEW b \in Agents, NEW doc, agent' = [agent EXCEPT ![b] = doc]
  PROVE  agent'[a] = IF a = b THEN doc ELSE agent[a]
  BY DEF Typed

LEMMA AgentRespects ==
  ASSUME PresenceInv, NEW a \in Agents, NEW b \in Agents,
         Arrive(b) \/ Vanish(b) \/ Heartbeat(b) \/ Handle(b) \/ LoginFails(b)
           \/ \E action \in DOMAIN Actions : Request(b, action)
  PROVE  Respects(a)
  <1>1. Typed
    BY TypeOKIs DEF PresenceInv
  <1>2. CASE agent' = agent
    BY <1>2, SameRespects
  <1>3. CASE Heartbeat(b) \/ LoginHeartbeat(b)
    <2> DEFINE doc == [agent[b] EXCEPT !.beat = 0]
    <2>1. doc.state = agent[b].state /\ doc.call = agent[b].call
      BY <1>1 DEF Typed, AgentDoc
    <2>2. agent' = [agent EXCEPT ![b] = doc]
      BY <1>1, <1>3 DEF Heartbeat, LoginHeartbeat, Typed
    <2> HIDE DEF doc
    <2> QED BY <1>1, <2>1, <2>2, OneDocument, SameRespects
  <1>4. CASE Apply(b)
    <2> DEFINE target == Actions[request[b].action]
               moved  == InState(b, target)
               doc    == [moved EXCEPT !.call = IF target = "OFFLINE" /\ @ = "open"
                                                  THEN "earlier" ELSE @]
    <2>1. agent' = [agent EXCEPT ![b] = doc]
      BY <1>4 DEF Apply, Becomes
    <2>2. /\ target \in AgentState
          /\ target = "AVAILABLE" => agent[b].state \in {"OFFLINE", "PAUSED"}
      BY <1>4, ApplyMoves DEF Apply
    <2>3. moved \in AgentDoc /\ moved.state = target
      BY <1>1, <2>2, InStateIs
    <2>4. doc.state = target
      BY <2>3 DEF AgentDoc
    <2>5. request'[b] # request[b]
      <3>1. request[b] # NULL /\ request[b] \in Handled /\ request[b].at = "read"
        BY <1>1, <1>4 DEF Apply, Typed
      <3>2. request'[b] = IF request[b].action = "login" THEN [request[b] EXCEPT !.at = "written"]
                          ELSE NULL
        BY <1>1, <1>4 DEF Apply, Typed
      <3>3. [request[b] EXCEPT !.at = "written"].at = "written"
        BY <3>1 DEF Handled
      <3> QED BY <3>1, <3>2, <3>3
    <2> HIDE DEF doc, target
    <2>6. CASE a = b
      <3>1. agent'[a] = doc
        BY <1>1, <2>1, <2>6, OneDocument
      <3> QED BY <2>2, <2>4, <2>5, <2>6, <3>1 DEF Respects
    <2>7. CASE a # b
      BY <1>1, <2>1, <2>7, OneDocument, SameRespects
    <2> QED BY <2>6, <2>7
  <1> QED BY <1>2, <1>3, <1>4
       DEF Arrive, Vanish, LoginFails, Handle, Refuse, Request

\* A step that leaves the agent in another state than OFFLINE and AVAILABLE, or ends its call.
LEMMA DocRespects ==
  ASSUME Typed, NEW a \in Agents, NEW b \in Agents, NEW doc, agent' = [agent EXCEPT ![b] = doc],
         doc.state # "OFFLINE" \/ agent[b].state = "OFFLINE", doc.call # "cut" \/ agent[b].call # "open",
         agent[b].state # "WRAP_UP" \/ doc.state # "AVAILABLE" \/ agent[b].since >= WRAP_UP_SECONDS
  PROVE  Respects(a)
  <1>1. CASE a = b
    BY <1>1, OneDocument DEF Respects
  <1>2. CASE a # b
    BY <1>2, OneDocument, SameRespects
  <1> QED BY <1>1, <1>2

LEMMA WorkRespects ==
  ASSUME PresenceInv, NEW a \in Agents, NEW b \in Agents, Work(b)
  PROVE  Respects(a)
  <1>1. Typed
    BY TypeOKIs DEF PresenceInv
  <1>2. {"RESERVED", "DIALING", "CONNECTED", "AVAILABLE", "WRAP_UP"} \subseteq AgentState
    BY DEF AgentState
  <1>3. CASE Reserve(b)
    <2>1. /\ agent' = [agent EXCEPT ![b] = InState(b, "RESERVED")]
          /\ InState(b, "RESERVED").state = "RESERVED"
          /\ InState(b, "RESERVED").call = agent[b].call
      BY <1>1, <1>2, <1>3, InStateIs DEF Reserve, Becomes
    <2> QED BY <1>1, <2>1, DocRespects
  <1>4. CASE Connect(b)
    <2>1. /\ agent' = [agent EXCEPT ![b] = InState(b, "CONNECTED")]
          /\ InState(b, "CONNECTED").state = "CONNECTED"
          /\ InState(b, "CONNECTED").call = agent[b].call
      BY <1>1, <1>2, <1>4, InStateIs DEF Connect, Becomes
    <2> QED BY <1>1, <2>1, DocRespects
  <1>5. CASE Dial(b)
    <2> DEFINE doc == [InState(b, "DIALING") EXCEPT !.call = "open"]
    <2>1. doc \in AgentDoc /\ doc.state = "DIALING" /\ doc.call = "open"
      <3>1. "DIALING" \in AgentState /\ "open" \in CallOf
        BY Names
      <3> QED BY <1>1, <3>1, InStateWithCall
    <2>2. agent' = [agent EXCEPT ![b] = doc]
      BY <1>5 DEF Dial, Becomes
    <2> HIDE DEF doc
    <2> QED BY <1>1, <2>1, <2>2, DocRespects
  <1>6. CASE EarlierCallEnds(b)
    <2> DEFINE doc == [agent[b] EXCEPT !.call = "none"]
    <2>1. agent[b] \in AgentDoc
      BY <1>1 DEF Typed
    <2>2. doc.state = agent[b].state /\ doc.call = "none"
      BY <2>1, Names, CallsOfDocs
    <2>3. agent' = [agent EXCEPT ![b] = doc]
      BY <1>1, <1>6 DEF EarlierCallEnds, Typed
    <2> HIDE DEF doc
    <2> QED BY <1>1, <2>2, <2>3, DocRespects
  <1>7. ASSUME NEW target \in {"AVAILABLE", "WRAP_UP"},
               agent' = [agent EXCEPT ![b] = [InState(b, target) EXCEPT !.call = "none"]],
               target = "AVAILABLE" => agent[b].state # "WRAP_UP"
        PROVE  Respects(a)
    <2> DEFINE doc == [InState(b, target) EXCEPT !.call = "none"]
    <2>1. doc \in AgentDoc /\ doc.state = target /\ doc.call = "none"
      <3>1. target \in AgentState /\ "none" \in CallOf
        BY Names
      <3> QED BY <1>1, <3>1, InStateWithCall
    <2>2. agent' = [agent EXCEPT ![b] = doc]
      BY <1>7
    <2> HIDE DEF doc
    <2> QED BY <1>1, <1>7, <2>1, <2>2, DocRespects
  <1>8. CASE Released(b)
    <2>1. /\ agent' = [agent EXCEPT ![b] = [InState(b, "AVAILABLE") EXCEPT !.call = "none"]]
          /\ agent[b].state # "WRAP_UP"
      BY <1>8 DEF Released, Becomes
    <2> QED BY <1>7, <2>1
  <1>9. ASSUME NEW target \in {"AVAILABLE", "WRAP_UP"}, CallEnds(b, target)
        PROVE  Respects(a)
    <2>1. /\ agent' = [agent EXCEPT ![b] = [InState(b, target) EXCEPT !.call = "none"]]
          /\ agent[b].state \in allowed_sources(target, "EVENT_PROCESSOR")
      BY <1>9 DEF CallEnds, Becomes
    <2>2. target = "AVAILABLE" => agent[b].state # "WRAP_UP"
      BY <2>1, SweepMoves DEF AgentState
    <2> QED BY <1>7, <2>1, <2>2
  <1> QED BY <1>3, <1>4, <1>5, <1>6, <1>8, <1>9 DEF Work

LEMMA SweepRespects ==
  ASSUME PresenceInv, NEW a \in Agents, NEW r \in Readers, Sweep(r) \/ SweepFails(r)
  PROVE  Respects(a)
  <1>1. Typed
    BY TypeOKIs DEF PresenceInv
  <1>2. CASE agent' = agent
    BY <1>2, SameRespects
  <1>3. ASSUME NEW b \in Agents, CutCall(r, b), agent' # agent
        PROVE  Respects(a)
    <2> DEFINE c   == IF agent[b].call = "open" THEN "cut" ELSE "none"
               doc == [agent[b] EXCEPT !.call = c]
    <2>1. agent[b] \in AgentDoc /\ c \in CallOf
      BY <1>1, Names DEF Typed
    <2>2. doc.state = agent[b].state
      <3> HIDE DEF c
      <3> QED BY <2>1, CallsOfDocs
    <2>3. agent' = [agent EXCEPT ![b] = doc]
      BY <1>1, <1>3 DEF CutCall, Typed
    <2>4. agent[b].call = "open" => session[b] = "none"
      BY <1>3 DEF CutCall, PresenceInv, CallsSeenAreOver
    <2> HIDE DEF doc
    <2>5. CASE a = b
      <3>1. agent'[a] = doc
        BY <1>1, <2>3, <2>5, OneDocument
      <3> QED BY <2>2, <2>4, <2>5, <3>1 DEF Respects
    <2>6. CASE a # b
      BY <1>1, <2>3, <2>6, OneDocument, SameRespects
    <2> QED BY <2>5, <2>6
  <1>4. ASSUME NEW b \in Agents, TakeOffline(r, b)
        PROVE  Respects(a)
    <2> DEFINE c   == IF agent[b].call = "open" THEN "earlier" ELSE agent[b].call
               doc == [InState(b, "OFFLINE") EXCEPT !.call = c]
    <2>1. c \in CallOf /\ InState(b, "OFFLINE").call = agent[b].call
      <3>1. agent[b].call \in CallOf
        BY <1>1 DEF Typed, AgentDoc
      <3> QED BY <1>1, <3>1, Names, InStateIs
    <2>2. doc \in AgentDoc /\ doc.state = "OFFLINE" /\ doc.call = c
      <3>1. "OFFLINE" \in AgentState
        BY Names
      <3> HIDE DEF c
      <3> QED BY <1>1, <2>1, <3>1, InStateWithCall
    <2>3. agent' = [agent EXCEPT ![b] = doc]
      BY <1>4, <2>1 DEF TakeOffline, Becomes
    <2>4. session[b] = "none"
      BY <1>4 DEF TakeOffline, CandidateMatches, PresenceInv, ReadersKnow
    <2> HIDE DEF doc
    <2>5. CASE a = b
      <3>1. agent'[a] = doc
        BY <1>1, <2>3, <2>5, OneDocument
      <3> QED BY <2>2, <2>4, <2>5, <3>1 DEF Respects
    <2>6. CASE a # b
      BY <1>1, <2>3, <2>6, OneDocument, SameRespects
    <2> QED BY <2>5, <2>6
  <1>5. ASSUME NEW b \in Agents, EndWrapUp(r, b)
        PROVE  Respects(a)
    <2>1. /\ agent' = [agent EXCEPT ![b] = InState(b, "AVAILABLE")]
          /\ InState(b, "AVAILABLE").state = "AVAILABLE"
          /\ InState(b, "AVAILABLE").call = agent[b].call
      BY <1>1, <1>5, Names, InStateIs DEF EndWrapUp, Becomes
    <2>2. agent[b].since >= WRAP_UP_SECONDS
      BY <1>5 DEF EndWrapUp, CandidateMatches, PresenceInv, ReadersKnow
    <2> QED BY <1>1, <2>1, <2>2, DocRespects
  <1> QED BY <1>2, <1>3, <1>4, <1>5
       DEF Sweep, SweepFails, StartSweeps, FindSilent, FindStuckWrapUps, FindFinishedWrapUps,
           FinishSweeps, Skip

LEMMA StepsRespect ==
  ASSUME PresenceInv, [Next]_vars, NEW a \in Agents
  PROVE  Respects(a)
  <1>1. CASE UNCHANGED vars
    BY <1>1, SameRespects DEF vars
  <1>2. CASE Tick
    <2>1. agent'[a].state = agent[a].state /\ agent'[a].call = agent[a].call
      BY <1>2, TypeOKIs, AgentsGrowOlder DEF PresenceInv
    <2> QED BY <2>1, SameRespects
  <1> QED BY <1>1, <1>2, AgentRespects, WorkRespects, SweepRespects DEF Next

\* For any number of agents, recovery workers and timers, any timeout and any delay of a
\* sweep: recovery neither takes off nor cuts the call of an agent in good standing.
THEOREM PresentAgentsAreKept == Spec => PresentAgentsStay
  <1>1. PresenceInv /\ [Next]_vars =>
          [\A a \in Agents :
             session[a] = "on_time" /\ request'[a] = request[a] =>
               /\ agent[a].state # "OFFLINE" => agent'[a].state # "OFFLINE"
               /\ agent[a].call = "open" => agent'[a].call # "cut"]_vars
    BY StepsRespect DEF Respects
  <1> QED BY <1>1, PresenceInit, PresenceNext, PTL DEF Spec, PresentAgentsStay

\* For the same instances: no timer and no sweep ends a wrap-up before its time.
THEOREM WrapUpsAreWhole == Spec => WrapUpIsWhole
  <1>1. PresenceInv /\ [Next]_vars =>
          [\A a \in Agents :
             agent[a].state = "WRAP_UP" /\ agent'[a].state = "AVAILABLE" =>
               agent[a].since >= WRAP_UP_SECONDS]_vars
    BY StepsRespect DEF Respects
  <1> QED BY <1>1, PresenceInit, PresenceNext, PTL DEF Spec, WrapUpIsWhole
==========================================================================================
