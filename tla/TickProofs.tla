----------------------------------- MODULE TickProofs -----------------------------------
(* Proofs about DialerTick: types, the hands a dialling worker holds, and the limit that a  *)
(* single loop keeps.                                                                      *)
EXTENDS DialerTick, SafetyProofs, FiniteSetTheorems

\* The three parts of TypeOK.
AgentsOK ==
  /\ agents \in [Agents -> AgentState]
  /\ idle \in Seq(Agents)
  /\ holder \in [Agents -> Processes \cup {NULL, GONE}]
  /\ boundTo \in [Agents -> Calls \cup {NULL}]
  /\ expired \subseteq { a \in Agents : holder[a] # NULL }

RestOK ==
  /\ calls \in [Calls -> OpenCall \cup {NULL}]
  /\ campaign \in [status : CampaignStatus, mode : DialingMode]
  /\ health \in [Processes -> ProviderHealthStatus]
  /\ tracker \in [Processes -> Headcounts]
  /\ faults \in 0 .. MaxFaults

WorkersOK == worker \in [Processes -> WorkerState]

--------------------------------------------------------------------------------------
(* Constants and tables.                                                                *)

LEMMA Values ==
  /\ NULL \notin Agents /\ NULL \notin Calls /\ NULL \notin Processes /\ NULL # GONE
  /\ IsFiniteSet(Agents) /\ IsFiniteSet(Calls)
  /\ MaxConcurrentCalls \in Nat /\ MaxFaults \in Nat /\ MaxOutcomes \in Nat
  /\ MAX_CONSECUTIVE_CONTENTIONS \in Nat \ {0}
  /\ Modes \subseteq DialingMode
  BY TickAssumption

LEMMA AgentsAreCounted == Cardinality(Agents) \in Nat
  BY Values, FS_CardinalityType

LEMMA CountsAreBounded ==
  ASSUME NEW state
  PROVE  AgentsIn(state) \in Headcounts /\ AgentsIn(state) \in Nat
  <1> DEFINE S == { a \in Agents : agents[a] = state }
  <1>1. IsFiniteSet(S) /\ Cardinality(S) <= Cardinality(Agents)
    BY Values, FS_Subset
  <1>2. Cardinality(S) \in Nat
    BY <1>1, FS_CardinalityType
  <1> QED BY <1>1, <1>2, AgentsAreCounted DEF AgentsIn, Headcounts

LEMMA Numbers ==
  /\ Headcounts \subseteq Nat /\ 0 \in Headcounts
  /\ Requests \subseteq Nat /\ 0 \in Requests
  /\ \A n \in Requests : n > 0 => n - 1 \in Requests
  /\ Contentions \subseteq Nat /\ 0 \in Contentions
  /\ \A n \in Contentions : n + 1 # MAX_CONSECUTIVE_CONTENTIONS => n + 1 \in Contentions
  BY AgentsAreCounted, Values, PacingAssumption DEF Headcounts, Requests, Contentions

LEMMA CallsAreCounted ==
  ASSUME NEW states
  PROVE  CallsIn(states) \in Nat
  <1> DEFINE S == { c \in Calls : calls[c] # NULL /\ calls[c].state \in states }
  <1>1. IsFiniteSet(S)
    BY Values, FS_Subset
  <1> QED BY <1>1, FS_CardinalityType DEF CallsIn

LEMMA TheCallStates ==
  /\ CallState = { "QUEUED", "RESERVED", "INITIATED", "RINGING", "ANSWERED", "CONNECTED",
                   "COMPLETED", "FAILED", "CANCELLED" }
  /\ OpenCallStates = {"QUEUED", "RESERVED", "INITIATED", "RINGING", "ANSWERED", "CONNECTED"}
  BY DEF OpenCallStates, CallState, CALL_STATE_RANK, TERMINAL_CALL_STATES

\* An event that is applied moves the call up in rank.
LEMMA AppliedRises ==
  ASSUME NEW current \in OpenCallStates, NEW target \in CallState,
         should_apply_event(current, target) = "APPLY"
  PROVE  target # "QUEUED"
  <1>1. ~is_terminal(current)
    BY DEF OpenCallStates, is_terminal
  <1>2. rank("QUEUED") = 0 /\ rank(current) \in Nat
    BY TheCallStates DEF rank, CALL_STATE_RANK
  <1>3. ASSUME target = "QUEUED" PROVE FALSE
    <2>1. rank(target) <= rank(current)
      BY <1>2, <1>3
    <2>2. should_apply_event(current, target) = "IGNORE_STALE"
      BY <1>1, <1>2, <2>1 DEF should_apply_event
    <2> QED BY <2>2
  <1> QED BY <1>3

LEMMA RemoveFirstType ==
  ASSUME NEW S, NEW s \in Seq(S), NEW e
  PROVE  RemoveFirst(s, e) \in Seq(S)
  <1>1. CASE ~\E i \in 1 .. Len(s) : s[i] = e
    BY <1>1 DEF RemoveFirst
  <1>2. CASE \E i \in 1 .. Len(s) : s[i] = e
    <2> DEFINE I == { i \in 1 .. Len(s) : s[i] = e }
               m == Min(I)
    <2>1. I # {} /\ I \subseteq Nat
      BY <1>2
    <2>2. m \in I
      BY <2>1, MinOfNumbers
    <2>3. RemoveFirst(s, e) = SubSeq(s, 1, m - 1) \o SubSeq(s, m + 1, Len(s))
      BY <1>2, <2>1 DEF RemoveFirst, RemoveAt, SelectInSeq
    <2>4. SubSeq(s, 1, m - 1) \in Seq(S) /\ SubSeq(s, m + 1, Len(s)) \in Seq(S)
      <3>1. m \in 1 .. Len(s)
        BY <2>2
      <3> HIDE DEF m
      <3> QED BY <3>1
    <2> QED BY <2>3, <2>4
  <1> QED BY <1>1, <1>2

--------------------------------------------------------------------------------------
(* Types of the agents.                                                                 *)

LEMMA AvailableType ==
  ASSUME AgentsOK, NEW a \in Agents, BecomesAvailable(a)
  PROVE  AgentsOK'
  BY DEF AgentsOK, BecomesAvailable, AgentState

LEMMA BecomesType ==
  ASSUME AgentsOK, NEW a \in Agents, NEW state \in AgentState, Becomes(a, state)
  PROVE  agents' \in [Agents -> AgentState] /\ idle' \in Seq(Agents)
  BY RemoveFirstType DEF AgentsOK, Becomes

LEMMA ReleaseType ==
  ASSUME AgentsOK, NEW a \in Agents, NEW owner, NEW target \in AgentState, NEW actor,
         Release(a, owner, target, actor)
  PROVE  AgentsOK'
  <1>1. CASE UNCHANGED agentVars
    BY <1>1 DEF AgentsOK, agentVars
  <1>2. CASE BecomesAvailable(a)
    BY <1>2, AvailableType
  <1>3. CASE /\ Becomes(a, target)
             /\ holder' = [holder EXCEPT ![a] = NULL]
             /\ boundTo' = [boundTo EXCEPT ![a] = NULL]
             /\ expired' = expired \ {a}
    BY <1>3, BecomesType DEF AgentsOK
  <1> QED BY <1>1, <1>2, <1>3 DEF Release

LEMMA CallOverType ==
  ASSUME AgentsOK, RestOK, NEW c, NEW a \in Agents, NEW owner,
         NEW target \in AgentState, NEW actor, CallOver(c, a, owner, target, actor)
  PROVE  AgentsOK' /\ calls' \in [Calls -> OpenCall \cup {NULL}]
  <1>1. calls' \in [Calls -> OpenCall \cup {NULL}]
    BY DEF CallOver, RestOK
  <1>2. CASE Release(a, owner, target, actor)
    BY <1>1, <1>2, ReleaseType
  <1>3. CASE /\ boundTo' = [x \in Agents |-> IF boundTo[x] = c THEN NULL ELSE boundTo[x]]
             /\ UNCHANGED <<agents, idle, holder, expired>>
    BY <1>1, <1>3 DEF AgentsOK
  <1> QED BY <1>2, <1>3 DEF CallOver

LEMMA MayBecome ==
  {"AVAILABLE", "OFFLINE", "RESERVED", "DIALING", "CONNECTED", "WRAP_UP"} \subseteq AgentState
  BY DEF AgentState

\* A busy worker has its agent, and its call where it has one; the call is what the worker
\* last wrote until it is handed to the provider, and no agent points at it before
\* MarkDialing has bound it.
CallStateAt == [queued |-> "QUEUED", reserved |-> "RESERVED", initiated |-> "INITIATED",
                dialing |-> "INITIATED"]

HandsOK(me) ==
  /\ me.pc \in Dialling \cup {"claimed"} => me.agent \in Agents
  /\ me.pc \in Dialling => me.call \in Calls
  /\ me.pc \notin Dialling => me.call = NULL
  /\ me.pc \in {"queued", "reserved", "initiated"} =>
       calls[me.call] # NULL /\ \A a \in Agents : boundTo[a] # me.call
  /\ me.pc \in Dialling /\ calls[me.call] # NULL =>
       /\ calls[me.call].state = CallStateAt[me.pc]
       /\ calls[me.call].agent = me.agent /\ ~calls[me.call].accepted

Hands ==
  /\ \A w \in Processes : HandsOK(worker[w])
  /\ \A v, w \in Processes : v # w => worker[v].call # worker[w].call \/ worker[v].call = NULL

\* A binding names an open call of its agent.
Bindings == \A a \in Agents : boundTo[a] # NULL =>
              calls[boundTo[a]] # NULL /\ calls[boundTo[a]].agent = a

\* Only a call that occupies the provider can have been accepted by it.
AcceptedIsActive == \A c \in Calls : calls[c] # NULL /\ calls[c].accepted =>
                      calls[c].state \in ACTIVE_CALL_STATES

TickInv == TypeOK /\ Hands /\ Bindings /\ AcceptedIsActive

LEMMA IdleType == Idle \in WorkerState /\ Idle.pc = "idle" /\ Idle.call = NULL
  <1>1. <<>> \in Seq(Agents)
    OBVIOUS
  <1> QED BY <1>1, Numbers DEF Idle, WorkerState, DialingMode

LEMMA FaultType ==
  ASSUME faults \in 0 .. MaxFaults, Fault
  PROVE  faults' \in 0 .. MaxFaults
  BY Values DEF Fault

LEMMA WindowType ==
  ASSUME AgentsOK
  PROVE  SubSeq(idle, 1, IF Len(idle) < 3 THEN Len(idle) ELSE 3) \in Seq(Agents)
  BY DEF AgentsOK

LEMMA ContendedType ==
  ASSUME NEW w \in Processes, worker[w] \in WorkerState
  PROVE  Contended(w) \in WorkerState
  <1>1. ASSUME NEW me \in WorkerState, NEW n \in Contentions
        PROVE  [me EXCEPT !.pc = "allocating", !.contended = n, !.agent = NULL] \in WorkerState
    BY DEF WorkerState
  <1>2. worker[w].contended \in Contentions
    BY DEF WorkerState
  <1>3. CASE worker[w].contended + 1 = MAX_CONSECUTIVE_CONTENTIONS
    BY <1>3, IdleType DEF Contended
  <1>4. CASE worker[w].contended + 1 # MAX_CONSECUTIVE_CONTENTIONS
    BY <1>1, <1>2, <1>4, Numbers DEF Contended
  <1> QED BY <1>3, <1>4

LEMMA CandidateType ==
  ASSUME NEW me \in WorkerState, me.cand # <<>>
  PROVE  Head(me.cand) \in Agents /\ Tail(me.cand) \in Seq(Agents)
  BY DEF WorkerState

LEMMA ClaimedType ==
  ASSUME NEW me \in WorkerState, NEW a \in Agents
  PROVE  [me EXCEPT !.pc = "claimed", !.agent = a, !.cand = <<>>] \in WorkerState
  <1>1. <<>> \in Seq(Agents)
    OBVIOUS
  <1> QED BY <1>1 DEF WorkerState

LEMMA OneLess ==
  ASSUME NEW me \in WorkerState, me.left > 0, NEW cand \in Seq(Agents)
  PROVE  [me EXCEPT !.pc = "trying", !.left = @ - 1, !.cand = cand] \in WorkerState
  BY Numbers DEF WorkerState

LEMMA AllottedType ==
  ASSUME NEW n \in Requests
  PROVE  [Idle EXCEPT !.pc = "allocating", !.left = n] \in WorkerState
  BY IdleType DEF WorkerState

LEMMA ReadingType ==
  ASSUME TypeOK, NEW w \in Processes, NEW late \in BOOLEAN, NEW failing \in BOOLEAN
  PROVE  ReadingOf(w, late, failing) \in Readings /\ worker[w].requested \in Requests
  <1>1. /\ worker[w].available \in Nat /\ worker[w].reserved \in Nat /\ worker[w].active \in Nat
        /\ worker[w].ringing \in Nat /\ worker[w].requested \in Requests
    BY Numbers DEF TypeOK, WorkerState
  <1>2. health[w] \in ProviderHealthStatus
    BY DEF TypeOK
  <1> QED BY <1>1, <1>2, Values DEF ReadingOf, Readings

LEMMA AllocateType ==
  ASSUME TypeOK, NEW w \in Processes, NEW late \in BOOLEAN, NEW failing \in BOOLEAN,
         Allocate(w, Approved(worker[w].requested, worker[w].mode, ReadingOf(w, late, failing)))
  PROVE  \E me \in WorkerState : worker' = [worker EXCEPT ![w] = me]
  <1> DEFINE approved == Approved(worker[w].requested, worker[w].mode, ReadingOf(w, late, failing))
  <1>1. approved \in 0 .. worker[w].requested
    BY ReadingType, Numbers, ApprovalIsBounded
  <1> HIDE DEF approved
  <1>2. approved \in Requests
    BY <1>1, ReadingType, PacingAssumption DEF Requests
  <1> QED BY <1>2, AllottedType DEF Allocate, approved

LEMMA RequestType ==
  ASSUME TypeOK, NEW w \in Processes, NEW recent \in Outcomes, NEW previous \in Outcomes,
         ComputeRequest(w, recent, previous)
  PROVE  \E me \in WorkerState : worker' = [worker EXCEPT ![w] = me]
  <1> DEFINE me == worker[w]
             Snapshot(long) ==
               [ available |-> me.available, soonFree |-> me.soonFree + long,
                 inFlight |-> CallsIn({"RINGING", "INITIATED"}) + me.reserved,
                 health |-> health[w], recent |-> recent, previous |-> previous ]
             Next_(long) == [Idle EXCEPT !.pc = "requested", !.mode = me.mode,
                                         !.requested = compute_request(Snapshot(long), me.mode)]
  <1>1. PICK long \in 0 .. AgentsIn("CONNECTED") : worker' = [worker EXCEPT ![w] = Next_(long)]
    BY DEF ComputeRequest
  <1>2. /\ me.available \in Nat /\ me.reserved \in Nat /\ me.soonFree \in Nat
        /\ me.mode \in DialingMode
    BY Numbers DEF TypeOK, WorkerState
  <1>3. CallsIn({"RINGING", "INITIATED"}) \in Nat /\ long \in Nat
    BY CallsAreCounted, CountsAreBounded
  <1>4. health[w] \in ProviderHealthStatus /\ recent \in Windows /\ previous \in Windows
    BY DEF TypeOK, Outcomes, Windows
  <1>5. Snapshot(long) \in Snapshots
    BY <1>2, <1>3, <1>4 DEF Snapshots
  <1>6. compute_request(Snapshot(long), me.mode) \in Requests
    BY <1>5, RequestIsBounded DEF Requests
  <1>7. Next_(long) \in WorkerState
    BY <1>2, <1>6, IdleType DEF WorkerState
  <1> QED BY <1>1, <1>7

LEMMA ClaimType ==
  ASSUME AgentsOK, WorkersOK, NEW w \in Processes, ClaimAgent(w)
  PROVE  AgentsOK'
  <1> DEFINE a == Head(worker[w].cand)
  <1>1. a \in Agents
    BY DEF ClaimAgent, WorkersOK, WorkerState
  <1>2. agents' \in [Agents -> AgentState] /\ idle' \in Seq(Agents)
    BY <1>1, MayBecome, BecomesType DEF ClaimAgent
  <1>3. /\ holder' \in [Agents -> Processes \cup {NULL, GONE}]
        /\ boundTo' \in [Agents -> Calls \cup {NULL}]
        /\ expired' \subseteq { x \in Agents : holder'[x] # NULL }
    BY <1>1, Values DEF ClaimAgent, AgentsOK
  <1> QED BY <1>2, <1>3 DEF AgentsOK

LEMMA TargetType ==
  ASSUME NEW target \in CallState, is_terminal(target)
  PROVE  AGENT_STATE_FOR_CALL_STATE[target] \in AgentState
  BY MayBecome DEF is_terminal, TERMINAL_CALL_STATES, AGENT_STATE_FOR_CALL_STATE

--------------------------------------------------------------------------------------
(* Types: one step per action.                                                          *)

LEMMA TypeStep ==
  ASSUME TypeOK, Hands, Next
  PROVE  TypeOK'
<1>1. AgentsOK /\ RestOK /\ WorkersOK
  BY DEF TypeOK, AgentsOK, RestOK, WorkersOK
<1>2. SUFFICES AgentsOK' /\ RestOK' /\ WorkersOK'
  BY DEF TypeOK, AgentsOK, RestOK, WorkersOK
<1>3. UNCHANGED agentVars => AgentsOK'
  BY <1>1 DEF AgentsOK, agentVars
<1>4. UNCHANGED <<calls, campaign, health, tracker>> /\ (faults' = faults \/ Fault) => RestOK'
  BY <1>1, FaultType DEF RestOK
<1>5. ASSUME NEW w \in Processes, NEW me \in WorkerState, worker' = [worker EXCEPT ![w] = me]
      PROVE  WorkersOK'
  BY <1>1, <1>5 DEF WorkersOK
<1>6. UNCHANGED worker => WorkersOK'
  BY <1>1 DEF WorkersOK
<1>7. ASSUME NEW a \in Agents, Login(a) PROVE AgentsOK' /\ RestOK' /\ WorkersOK'
  <2>1. RestOK' /\ WorkersOK'
    BY <1>7, <1>4, <1>6 DEF Login
  <2>2. AgentsOK'
    BY <1>1, <1>7, AvailableType DEF Login
  <2> QED BY <2>1, <2>2
<1>8. ASSUME NEW a \in Agents, Leave(a) PROVE AgentsOK' /\ RestOK' /\ WorkersOK'
  <2>1. RestOK' /\ WorkersOK'
    BY <1>8, <1>4, <1>6 DEF Leave
  <2>2. AgentsOK'
    BY <1>1, <1>8, MayBecome, BecomesType DEF Leave, AgentsOK
  <2> QED BY <2>1, <2>2
<1>9. ASSUME NEW a \in Agents, WrapUpEnds(a) PROVE AgentsOK' /\ RestOK' /\ WorkersOK'
  <2>1. RestOK' /\ WorkersOK'
    BY <1>9, <1>4, <1>6 DEF WrapUpEnds
  <2>2. AgentsOK'
    BY <1>1, <1>9, AvailableType DEF WrapUpEnds
  <2> QED BY <2>1, <2>2
<1>10. ASSUME NEW a \in Agents, LeaseLapses(a) PROVE AgentsOK' /\ RestOK' /\ WorkersOK'
  <2>1. RestOK' /\ WorkersOK'
    BY <1>10, <1>4, <1>6 DEF LeaseLapses
  <2>2. AgentsOK'
    BY <1>1, <1>10 DEF LeaseLapses, AgentsOK
  <2> QED BY <2>1, <2>2
<1>11. ASSUME NEW a \in Agents, SweepLease(a) PROVE AgentsOK' /\ RestOK' /\ WorkersOK'
  <2>1. WorkersOK'
    BY <1>11, <1>6 DEF SweepLease
  <2>2. AgentsOK'
    BY <1>1, <1>11, AvailableType DEF SweepLease
  <2>3. RestOK'
    BY <1>1, <1>11 DEF SweepLease, RestOK, AgentsOK
  <2> QED BY <2>1, <2>2, <2>3
<1>12. ASSUME NEW w \in Processes, StartTick(w) PROVE AgentsOK' /\ RestOK' /\ WorkersOK'
  <2>1. AgentsOK' /\ RestOK'
    BY <1>12, <1>3, <1>4 DEF StartTick
  <2>2. WorkersOK'
    BY <1>1, <1>12, IdleType DEF StartTick, WorkersOK, WorkerState, RestOK
  <2> QED BY <2>1, <2>2
<1>13. ASSUME NEW w \in Processes, SnapshotAgents(w) PROVE AgentsOK' /\ RestOK' /\ WorkersOK'
  <2>1. AgentsOK' /\ RestOK'
    BY <1>13, <1>3, <1>4 DEF SnapshotAgents
  <2>2. WorkersOK'
    <3> DEFINE me == worker[w]
           next == [me EXCEPT !.pc = "counted", !.available = AgentsIn("AVAILABLE"),
                               !.reserved = AgentsIn("RESERVED"), !.soonFree = AgentsIn("WRAP_UP")]
    <3>1. me \in WorkerState
      BY <1>1 DEF WorkersOK
    <3>2. next \in WorkerState
      BY <3>1, CountsAreBounded DEF WorkerState, Dialling
    <3>3. worker' = [worker EXCEPT ![w] = next]
      BY <1>1, <1>13 DEF WorkersOK, SnapshotAgents
    <3> QED BY <3>2, <3>3, <1>5
  <2> QED BY <2>1, <2>2
<1>14. ASSUME NEW w \in Processes, NEW recent \in Outcomes, NEW previous \in Outcomes,
     ComputeRequest(w, recent, previous)
      PROVE  AgentsOK' /\ RestOK' /\ WorkersOK'
  <2>1. AgentsOK' /\ RestOK'
    BY <1>14, <1>3, <1>4 DEF ComputeRequest
  <2>2. WorkersOK'
    BY <1>14, <1>5, RequestType DEF ComputeRequest, TypeOK
  <2> QED BY <2>1, <2>2
<1>15. ASSUME NEW w \in Processes, ReadAgents(w) PROVE AgentsOK' /\ RestOK' /\ WorkersOK'
  <2>1. AgentsOK' /\ RestOK'
    BY <1>15, <1>3, <1>4 DEF ReadAgents
  <2>2. WorkersOK'
    <3> DEFINE me == worker[w]
           next == [me EXCEPT !.pc = "agents_read", !.available = AgentsIn("AVAILABLE"),
                               !.reserved = AgentsIn("RESERVED")]
    <3>1. me \in WorkerState
      BY <1>1 DEF WorkersOK
    <3>2. next \in WorkerState
      BY <3>1, CountsAreBounded DEF WorkerState, Dialling
    <3>3. worker' = [worker EXCEPT ![w] = next]
      BY <1>1, <1>15 DEF WorkersOK, ReadAgents
    <3> QED BY <3>2, <3>3, <1>5
  <2> QED BY <2>1, <2>2
<1>16. ASSUME NEW w \in Processes, ReadCalls(w) PROVE AgentsOK' /\ RestOK' /\ WorkersOK'
  <2>1. AgentsOK' /\ RestOK'
    BY <1>16, <1>3, <1>4 DEF ReadCalls
  <2>2. WorkersOK'
    <3> DEFINE me == worker[w]
           next == [me EXCEPT !.pc = "calls_read", !.active = CallsIn(ACTIVE_CALL_STATES),
                               !.ringing = CallsIn({"RINGING"})]
    <3>1. me \in WorkerState
      BY <1>1 DEF WorkersOK
    <3>2. next \in WorkerState
      BY <3>1, CallsAreCounted DEF WorkerState, Dialling
    <3>3. worker' = [worker EXCEPT ![w] = next]
      BY <1>1, <1>16 DEF WorkersOK, ReadCalls
    <3> QED BY <3>2, <3>3, <1>5
  <2> QED BY <2>1, <2>2
<1>17. ASSUME NEW w \in Processes, Evaluate(w) PROVE AgentsOK' /\ RestOK' /\ WorkersOK'
  <2>1. AgentsOK'
    BY <1>17, <1>3 DEF Evaluate
  <2>2. RestOK'
    BY <1>1, <1>17 DEF Evaluate, RestOK, WorkersOK, WorkerState
  <2>3. WorkersOK'
    BY <1>1, <1>17, <1>5, AllocateType DEF Evaluate, WorkersOK
  <2> QED BY <2>1, <2>2, <2>3
<1>18. ASSUME NEW w \in Processes, EvaluateLate(w) PROVE AgentsOK' /\ RestOK' /\ WorkersOK'
  <2>1. AgentsOK'
    BY <1>18, <1>3 DEF EvaluateLate
  <2>2. RestOK'
    BY <1>1, <1>18, FaultType DEF EvaluateLate, RestOK, WorkersOK, WorkerState
  <2>3. WorkersOK'
    BY <1>1, <1>18, <1>5, AllocateType DEF EvaluateLate, WorkersOK
  <2> QED BY <2>1, <2>2, <2>3
<1>19. ASSUME NEW w \in Processes, EvaluationFails(w) PROVE AgentsOK' /\ RestOK' /\ WorkersOK'
  <2>1. AgentsOK' /\ RestOK'
    BY <1>19, <1>3, <1>4 DEF EvaluationFails
  <2>2. WorkersOK'
    BY <1>19, <1>5, Numbers, AllottedType DEF EvaluationFails, Allocate, RejectedByError
  <2> QED BY <2>1, <2>2
<1>20. ASSUME NEW w \in Processes, EndTick(w) PROVE AgentsOK' /\ RestOK' /\ WorkersOK'
  <2>1. AgentsOK' /\ RestOK'
    BY <1>20, <1>3, <1>4 DEF EndTick
  <2>2. WorkersOK'
    BY <1>20, <1>5, IdleType DEF EndTick
  <2> QED BY <2>1, <2>2
<1>21. ASSUME NEW w \in Processes, FindAgents(w) PROVE AgentsOK' /\ RestOK' /\ WorkersOK'
  <2>1. AgentsOK' /\ RestOK'
    BY <1>21, <1>3, <1>4 DEF FindAgents
  <2>2. WorkersOK'
    <3> DEFINE me == worker[w]
           next == [me EXCEPT !.pc = "trying", !.left = @ - 1,
                               !.cand = SubSeq(idle, 1, IF Len(idle) < 3 THEN Len(idle) ELSE 3)]
    <3>1. me \in WorkerState
      BY <1>1 DEF WorkersOK
    <3>2. next \in WorkerState
      BY <3>1, <1>1, <1>21, WindowType, OneLess DEF FindAgents
    <3>3. worker' = [worker EXCEPT ![w] = next]
      BY <1>1, <1>21 DEF WorkersOK, FindAgents
    <3> QED BY <3>2, <3>3, <1>5
  <2> QED BY <2>1, <2>2
<1>22. ASSUME NEW w \in Processes, ClaimAgent(w) PROVE AgentsOK' /\ RestOK' /\ WorkersOK'
  <2>1. RestOK'
    BY <1>22, <1>4 DEF ClaimAgent
  <2>2. AgentsOK'
    BY <1>1, <1>22, ClaimType DEF ClaimAgent, WorkersOK, WorkerState
  <2>3. WorkersOK'
    <3> DEFINE me == worker[w]
           next == [me EXCEPT !.pc = "claimed", !.agent = Head(me.cand), !.cand = <<>>]
    <3>1. me \in WorkerState
      BY <1>1 DEF WorkersOK
    <3>2. next \in WorkerState
      BY <3>1, <1>22, CandidateType, ClaimedType DEF ClaimAgent
    <3>3. worker' = [worker EXCEPT ![w] = next]
      BY <1>1, <1>22 DEF WorkersOK, ClaimAgent
    <3> QED BY <3>2, <3>3, <1>5
  <2> QED BY <2>1, <2>2, <2>3
<1>23. ASSUME NEW w \in Processes, AgentContended(w) PROVE AgentsOK' /\ RestOK' /\ WorkersOK'
  <2>1. AgentsOK' /\ RestOK'
    BY <1>23, <1>3, <1>4 DEF AgentContended
  <2>2. WorkersOK'
    <3> DEFINE me == worker[w]
           next == [me EXCEPT !.cand = Tail(@)]
    <3>1. me \in WorkerState
      BY <1>1 DEF WorkersOK
    <3>2. next \in WorkerState
      BY <3>1, <1>23, CandidateType DEF WorkerState, Dialling, AgentContended
    <3>3. worker' = [worker EXCEPT ![w] = next]
      BY <1>1, <1>23 DEF WorkersOK, AgentContended
    <3> QED BY <3>2, <3>3, <1>5
  <2> QED BY <2>1, <2>2
<1>24. ASSUME NEW w \in Processes, NoAgent(w) PROVE AgentsOK' /\ RestOK' /\ WorkersOK'
  <2>1. AgentsOK' /\ RestOK'
    BY <1>24, <1>3, <1>4 DEF NoAgent
  <2>2. WorkersOK'
    <3> DEFINE me == worker[w]
           next == Contended(w)
    <3>1. me \in WorkerState
      BY <1>1 DEF WorkersOK
    <3>2. next \in WorkerState
      BY <3>1, <1>24, ContendedType DEF WorkerState, Dialling, NoAgent
    <3>3. worker' = [worker EXCEPT ![w] = next]
      BY <1>1, <1>24 DEF WorkersOK, NoAgent
    <3> QED BY <3>2, <3>3, <1>5
  <2> QED BY <2>1, <2>2
<1>25. ASSUME NEW w \in Processes, NoBorrower(w) PROVE AgentsOK' /\ RestOK' /\ WorkersOK'
  <2>1. RestOK'
    BY <1>25, <1>4 DEF NoBorrower
  <2>2. AgentsOK'
    BY <1>1, <1>25, MayBecome, ReleaseType DEF NoBorrower, ReleaseOwn, Hands, HandsOK
  <2>3. WorkersOK'
    <3> DEFINE me == worker[w]
           next == Contended(w)
    <3>1. me \in WorkerState
      BY <1>1 DEF WorkersOK
    <3>2. next \in WorkerState
      BY <3>1, ContendedType DEF WorkerState, Dialling
    <3>3. worker' = [worker EXCEPT ![w] = next]
      BY <1>1, <1>25 DEF WorkersOK, NoBorrower
    <3> QED BY <3>2, <3>3, <1>5
  <2> QED BY <2>1, <2>2, <2>3
<1>26. ASSUME NEW w \in Processes, NEW c \in Calls, CreateCall(w, c)
      PROVE  AgentsOK' /\ RestOK' /\ WorkersOK'
  <2>1. AgentsOK'
    BY <1>26, <1>3 DEF CreateCall
  <2>2. RestOK'
    BY <1>1, <1>26, TheCallStates DEF CreateCall, RestOK, OpenCall, Hands, HandsOK
  <2>3. WorkersOK'
    <3> DEFINE me == worker[w]
           next == [me EXCEPT !.pc = "queued", !.call = c, !.contended = 0]
    <3>1. me \in WorkerState
      BY <1>1 DEF WorkersOK
    <3>2. next \in WorkerState
      BY <3>1, Numbers DEF WorkerState, Dialling
    <3>3. worker' = [worker EXCEPT ![w] = next]
      BY <1>1, <1>26 DEF WorkersOK, CreateCall
    <3> QED BY <3>2, <3>3, <1>5
  <2> QED BY <2>1, <2>2, <2>3
<1>27. ASSUME NEW w \in Processes, MarkReserved(w) PROVE AgentsOK' /\ RestOK' /\ WorkersOK'
  <2>1. AgentsOK'
    BY <1>27, <1>3 DEF MarkReserved
  <2>2. RestOK'
    BY <1>1, <1>27, TheCallStates DEF MarkReserved, RestOK, OpenCall, Hands, HandsOK, Dialling
  <2>3. WorkersOK'
    <3> DEFINE me == worker[w]
           next == [me EXCEPT !.pc = "reserved"]
    <3>1. me \in WorkerState
      BY <1>1 DEF WorkersOK
    <3>2. next \in WorkerState
      BY <3>1 DEF WorkerState, Dialling
    <3>3. worker' = [worker EXCEPT ![w] = next]
      BY <1>1, <1>27 DEF WorkersOK, MarkReserved
    <3> QED BY <3>2, <3>3, <1>5
  <2> QED BY <2>1, <2>2, <2>3
<1>28. ASSUME NEW w \in Processes, MarkInitiated(w) PROVE AgentsOK' /\ RestOK' /\ WorkersOK'
  <2>1. AgentsOK'
    BY <1>28, <1>3 DEF MarkInitiated
  <2>2. RestOK'
    BY <1>1, <1>28, TheCallStates DEF MarkInitiated, RestOK, OpenCall, Hands, HandsOK, Dialling
  <2>3. WorkersOK'
    <3> DEFINE me == worker[w]
           next == [me EXCEPT !.pc = "initiated"]
    <3>1. me \in WorkerState
      BY <1>1 DEF WorkersOK
    <3>2. next \in WorkerState
      BY <3>1 DEF WorkerState, Dialling
    <3>3. worker' = [worker EXCEPT ![w] = next]
      BY <1>1, <1>28 DEF WorkersOK, MarkInitiated
    <3> QED BY <3>2, <3>3, <1>5
  <2> QED BY <2>1, <2>2, <2>3
<1>29. ASSUME NEW w \in Processes, MarkDialing(w) PROVE AgentsOK' /\ RestOK' /\ WorkersOK'
  <2>1. RestOK'
    BY <1>29, <1>4 DEF MarkDialing
  <2>2. AgentsOK'
    BY <1>1, <1>29, MayBecome, BecomesType DEF MarkDialing, AgentsOK, Hands, HandsOK, Dialling,
       WorkersOK
  <2>3. WorkersOK'
    <3> DEFINE me == worker[w]
           next == [me EXCEPT !.pc = "dialing"]
    <3>1. me \in WorkerState
      BY <1>1 DEF WorkersOK
    <3>2. next \in WorkerState
      BY <3>1 DEF WorkerState, Dialling
    <3>3. worker' = [worker EXCEPT ![w] = next]
      BY <1>1, <1>29 DEF WorkersOK, MarkDialing
    <3> QED BY <3>2, <3>3, <1>5
  <2> QED BY <2>1, <2>2, <2>3
<1>30. ASSUME NEW w \in Processes, Originate(w) PROVE AgentsOK' /\ RestOK' /\ WorkersOK'
  <2>1. AgentsOK'
    BY <1>30, <1>3 DEF Originate
  <2>2. RestOK'
    BY <1>1, <1>30 DEF Originate, RestOK, OpenCall
  <2>3. WorkersOK'
    <3> DEFINE me == worker[w]
           next == [me EXCEPT !.pc = "allocating", !.agent = NULL, !.call = NULL]
    <3>1. me \in WorkerState
      BY <1>1 DEF WorkersOK
    <3>2. next \in WorkerState
      BY <3>1 DEF WorkerState, Dialling
    <3>3. worker' = [worker EXCEPT ![w] = next]
      BY <1>1, <1>30 DEF WorkersOK, Originate, NextDial
    <3> QED BY <3>2, <3>3, <1>5
  <2> QED BY <2>1, <2>2, <2>3
<1>31. ASSUME NEW w \in Processes, OriginateFails(w) PROVE AgentsOK' /\ RestOK' /\ WorkersOK'
  <2>1. AgentsOK'
    BY <1>1, <1>31, MayBecome, CallOverType DEF OriginateFails, Hands, HandsOK, Dialling
  <2>2. RestOK'
    BY <1>1, <1>31, MayBecome, CallOverType DEF OriginateFails, Hands, HandsOK, Dialling, RestOK
  <2>3. WorkersOK'
    <3> DEFINE me == worker[w]
           next == [me EXCEPT !.pc = "allocating", !.agent = NULL, !.call = NULL]
    <3>1. me \in WorkerState
      BY <1>1 DEF WorkersOK
    <3>2. next \in WorkerState
      BY <3>1 DEF WorkerState, Dialling
    <3>3. worker' = [worker EXCEPT ![w] = next]
      BY <1>1, <1>31 DEF WorkersOK, OriginateFails, NextDial
    <3> QED BY <3>2, <3>3, <1>5
  <2> QED BY <2>1, <2>2, <2>3
<1>32. ASSUME NEW w \in Processes, TickFails(w) PROVE AgentsOK' /\ RestOK' /\ WorkersOK'
  <2>1. AgentsOK' /\ RestOK'
    BY <1>32, <1>3, <1>4 DEF TickFails
  <2>2. WorkersOK'
    BY <1>32, <1>5, IdleType DEF TickFails
  <2> QED BY <2>1, <2>2
<1>33. ASSUME NEW w \in Processes, Crash(w) PROVE AgentsOK' /\ RestOK' /\ WorkersOK'
  <2>1. AgentsOK'
    BY <1>1, <1>33, Values DEF Crash, AgentsOK
  <2>2. RestOK'
    BY <1>1, <1>33, Numbers, FaultType DEF Crash, RestOK, OpenCall, ProviderHealthStatus
  <2>3. WorkersOK'
    BY <1>33, <1>5, IdleType DEF Crash
  <2> QED BY <2>1, <2>2, <2>3
<1>34. ASSUME NEW c \in Calls, NEW target \in CallState, Progress(c, target)
      PROVE  AgentsOK' /\ RestOK' /\ WorkersOK'
  <2>1. WorkersOK'
    BY <1>34, <1>6 DEF Progress
  <2>2. AgentsOK'
    BY <1>1, <1>34, MayBecome, BecomesType DEF Progress, AgentsOK, RestOK, OpenCall, agentVars
  <2>3. RestOK'
    BY <1>1, <1>34 DEF Progress, RestOK, OpenCall, OpenCallStates, is_terminal
  <2> QED BY <2>1, <2>2, <2>3
<1>35. ASSUME NEW c \in Calls, NEW target \in CallState, End(c, target)
      PROVE  AgentsOK' /\ RestOK' /\ WorkersOK'
  <2>1. WorkersOK'
    BY <1>35, <1>6 DEF End
  <2>2. AgentsOK'
    BY <1>1, <1>35, TargetType, CallOverType DEF End, RestOK, OpenCall
  <2>3. RestOK'
    BY <1>1, <1>35, TargetType, CallOverType DEF End, RestOK, OpenCall
  <2> QED BY <2>1, <2>2, <2>3
<1>36. ASSUME NEW c \in Calls, SweepOrphan(c) PROVE AgentsOK' /\ RestOK' /\ WorkersOK'
  <2>1. WorkersOK'
    BY <1>36, <1>6 DEF SweepOrphan
  <2>2. AgentsOK'
    BY <1>1, <1>36, MayBecome, CallOverType DEF SweepOrphan, RestOK, OpenCall
  <2>3. RestOK'
    BY <1>1, <1>36, MayBecome, CallOverType DEF SweepOrphan, RestOK, OpenCall
  <2> QED BY <2>1, <2>2, <2>3
<1>37. ASSUME NEW status \in CampaignStatus, ChangeStatus(status)
      PROVE  AgentsOK' /\ RestOK' /\ WorkersOK'
  <2>1. AgentsOK' /\ WorkersOK'
    BY <1>37, <1>3, <1>6 DEF ChangeStatus
  <2>2. RestOK'
    BY <1>1, <1>37, FaultType DEF ChangeStatus, RestOK
  <2> QED BY <2>1, <2>2
<1>38. ASSUME NEW mode \in DialingMode, SetMode(mode) PROVE AgentsOK' /\ RestOK' /\ WorkersOK'
  <2>1. AgentsOK' /\ WorkersOK'
    BY <1>38, <1>3, <1>6 DEF SetMode
  <2>2. RestOK'
    BY <1>1, <1>38, FaultType DEF SetMode, RestOK
  <2> QED BY <2>1, <2>2
<1>39. ASSUME NEW w \in Processes, NEW status \in ProviderHealthStatus, HealthWorsens(w, status)
      PROVE  AgentsOK' /\ RestOK' /\ WorkersOK'
  <2>1. AgentsOK' /\ WorkersOK'
    BY <1>39, <1>3, <1>6 DEF HealthWorsens
  <2>2. RestOK'
    BY <1>1, <1>39, FaultType DEF HealthWorsens, RestOK
  <2> QED BY <2>1, <2>2
<1>40. ASSUME NEW w \in Processes, HealthRecovers(w) PROVE AgentsOK' /\ RestOK' /\ WorkersOK'
  <2>1. AgentsOK' /\ WorkersOK'
    BY <1>40, <1>3, <1>6 DEF HealthRecovers
  <2>2. RestOK'
    BY <1>1, <1>40 DEF HealthRecovers, RestOK, ProviderHealthStatus
  <2> QED BY <2>1, <2>2
<1> QED
  BY <1>7, <1>8, <1>9, <1>10, <1>11, <1>12, <1>13, <1>14, <1>15, <1>16, <1>17, <1>18, <1>19,
     <1>20, <1>21, <1>22, <1>23, <1>24, <1>25, <1>26, <1>27, <1>28, <1>29, <1>30, <1>31, <1>32,
     <1>33, <1>34, <1>35, <1>36, <1>37, <1>38, <1>39, <1>40 DEF Next, Tick, Dial, Misfortune
--------------------------------------------------------------------------------------
(* Hands and bindings.                                                                  *)

\* Nothing a worker relies on changes about its call, but that a sweep may end it while the
\* provider is being asked.
CallKept(me) ==
  LET c == me.call IN me.pc \in Dialling =>
    /\ \/ calls'[c] = calls[c]
       \/ calls'[c] = NULL /\ me.pc = "dialing"
       \/ /\ calls[c] # NULL /\ calls'[c] # NULL
          /\ calls'[c].state = calls[c].state /\ calls'[c].agent = calls[c].agent
          /\ calls'[c].accepted = calls[c].accepted
    /\ \A a \in Agents : boundTo'[a] = c => boundTo[a] = c

LEMMA HandKept ==
  ASSUME NEW me, HandsOK(me), CallKept(me)
  PROVE  HandsOK(me)'
  <1> DEFINE c == me.call
  <1>1. ASSUME me.pc \in {"queued", "reserved", "initiated"}
        PROVE  calls'[c] # NULL /\ \A a \in Agents : boundTo'[a] # c
    <2>1. me.pc \in Dialling /\ me.pc # "dialing"
      BY <1>1 DEF Dialling
    <2>2. calls[c] # NULL /\ \A a \in Agents : boundTo[a] # c
      BY <1>1 DEF HandsOK
    <2> QED BY <2>1, <2>2 DEF CallKept
  <1>2. ASSUME me.pc \in Dialling, calls'[c] # NULL
        PROVE  /\ calls'[c].state = CallStateAt[me.pc]
               /\ calls'[c].agent = me.agent /\ ~calls'[c].accepted
    <2>1. /\ calls[c] # NULL
          /\ calls'[c].state = calls[c].state /\ calls'[c].agent = calls[c].agent
          /\ calls'[c].accepted = calls[c].accepted
      BY <1>2 DEF CallKept
    <2> QED BY <1>2, <2>1 DEF HandsOK
  <1> QED BY <1>1, <1>2 DEF HandsOK

LEMMA HandsKept ==
  ASSUME Hands, UNCHANGED worker, \A w \in Processes : CallKept(worker[w])
  PROVE  Hands'
  <1>1. ASSUME NEW w \in Processes PROVE HandsOK(worker[w])'
    <2>1. \A me : HandsOK(me) /\ CallKept(me) => HandsOK(me)'
      BY HandKept
    <2> QED BY <2>1 DEF Hands, HandsOK
  <1> QED BY <1>1 DEF Hands

LEMMA HandsMoved ==
  ASSUME Hands, NEW w \in Processes, \A v \in Processes \ {w} : worker'[v] = worker[v],
         HandsOK(worker[w])', \A v \in Processes \ {w} : CallKept(worker[v]),
         \/ worker'[w].call = NULL
         \/ \A v \in Processes \ {w} : worker[v].call # worker'[w].call
  PROVE  Hands'
  <1>1. ASSUME NEW v \in Processes \ {w} PROVE HandsOK(worker[v])'
    <2>1. \A me : HandsOK(me) /\ CallKept(me) => HandsOK(me)'
      BY HandKept
    <2> QED BY <2>1 DEF Hands, HandsOK
  <1>2. \A u, v \in Processes : u # v => worker'[u].call # worker'[v].call \/ worker'[v].call = NULL
    <2> TAKE u, v \in Processes
    <2>1. CASE u = w /\ v # w
      <3>1. worker'[v] = worker[v]
        BY <2>1
      <3>2. CASE worker'[w].call = NULL
        BY <2>1, <3>2
      <3>3. CASE \A x \in Processes \ {w} : worker[x].call # worker'[w].call
        BY <2>1, <3>1, <3>3
      <3> QED BY <3>2, <3>3
    <2>2. CASE v = w /\ u # w
      BY <2>2
    <2>3. CASE u # w /\ v # w
      BY <2>3 DEF Hands
    <2> QED BY <2>1, <2>2, <2>3
  <1> QED BY <1>1, <1>2 DEF Hands

\* A worker without a call asks nothing of the calls.
LEMMA HandsFree ==
  ASSUME Hands, NEW w \in Processes, \A v \in Processes \ {w} : worker'[v] = worker[v],
         worker'[w].pc \notin Dialling, worker'[w].call = NULL,
         worker'[w].pc = "claimed" => worker'[w].agent \in Agents,
         \A v \in Processes \ {w} : CallKept(worker[v])
  PROVE  Hands'
  <1>1. HandsOK(worker[w])'
    BY DEF HandsOK, Dialling
  <1> QED BY <1>1, HandsMoved

\* Agents are only unbound.
Unbinds == \A a \in Agents : boundTo'[a] = boundTo[a] \/ boundTo'[a] = NULL

LEMMA Undisturbed ==
  ASSUME Hands, Unbinds, UNCHANGED calls
  PROVE  \A v \in Processes : CallKept(worker[v])
  <1> TAKE v \in Processes
  <1>1. worker[v].pc \in Dialling => worker[v].call \in Calls
    BY DEF Hands, HandsOK
  <1> QED BY <1>1, Values DEF CallKept, Unbinds

LEMMA AvailableUnbinds ==
  ASSUME TypeOK, NEW a \in Agents, BecomesAvailable(a)
  PROVE  Unbinds /\ boundTo'[a] = NULL
  BY DEF BecomesAvailable, TypeOK, Unbinds

LEMMA ReleaseUnbinds ==
  ASSUME TypeOK, NEW a \in Agents, NEW owner, NEW target, NEW actor,
         Release(a, owner, target, actor)
  PROVE  /\ Unbinds
         /\ holder[a] = owner /\ agents[a] \in allowed_sources(target, actor) => boundTo'[a] = NULL
  BY AvailableUnbinds DEF Release, Becomes, agentVars, TypeOK, Unbinds

\* A call that is over is nobody's call.
LEMMA CallOverEffect ==
  ASSUME TypeOK, Bindings, NEW c \in Calls, NEW a \in Agents, NEW owner, NEW target, NEW actor,
         calls[c] # NULL => calls[c].agent = a, CallOver(c, a, owner, target, actor)
  PROVE  /\ calls' = [calls EXCEPT ![c] = NULL]
         /\ Unbinds /\ \A x \in Agents : boundTo'[x] # c
  <1>1. calls' = [calls EXCEPT ![c] = NULL] /\ c # NULL
    BY Values DEF CallOver
  <1>2. CASE holder[a] = owner /\ agents[a] \in allowed_sources(target, actor)
    <2>1. Unbinds /\ boundTo'[a] = NULL
      BY <1>2, ReleaseUnbinds DEF CallOver
    <2>2. \A x \in Agents : boundTo[x] = c => x = a
      BY <1>1 DEF Bindings
    <2> QED BY <1>1, <2>1, <2>2 DEF Unbinds
  <1>3. CASE ~(holder[a] = owner /\ agents[a] \in allowed_sources(target, actor))
    BY <1>1, <1>3 DEF CallOver, Unbinds
  <1> QED BY <1>2, <1>3

LEMMA OverKept ==
  ASSUME TypeOK, Hands, NEW c \in Calls, calls' = [calls EXCEPT ![c] = NULL], Unbinds,
         NEW v \in Processes, worker[v].call # c \/ worker[v].pc = "dialing"
  PROVE  CallKept(worker[v])
  <1>1. worker[v].pc \in Dialling => worker[v].call \in Calls
    BY DEF Hands, HandsOK
  <1> QED BY <1>1, Values DEF CallKept, Unbinds, TypeOK

LEMMA OpenCallMoves ==
  ASSUME NEW call \in OpenCall, NEW state \in OpenCallStates
  PROVE  LET moved == [call EXCEPT !.state = state]
         IN /\ call # NULL /\ moved \in OpenCall /\ moved # NULL /\ moved.state = state
            /\ moved.agent = call.agent /\ moved.accepted = call.accepted
  BY CallAssumption DEF OpenCall

LEMMA OpenCallDisowned ==
  ASSUME NEW call \in OpenCall
  PROVE  LET disowned == [call EXCEPT !.worker = GONE]
         IN /\ call # NULL /\ disowned \in OpenCall /\ disowned # NULL
            /\ disowned.state = call.state /\ disowned.agent = call.agent
            /\ disowned.accepted = call.accepted
  BY CallAssumption DEF OpenCall

LEMMA OpenCallAccepted ==
  ASSUME NEW call \in OpenCall
  PROVE  LET accepted == [call EXCEPT !.accepted = TRUE]
         IN /\ call # NULL /\ accepted \in OpenCall /\ accepted # NULL
            /\ accepted.state = call.state /\ accepted.agent = call.agent /\ accepted.accepted
  BY CallAssumption DEF OpenCall

LEMMA OpenCallCreated ==
  ASSUME NEW a \in Agents, NEW w \in Processes
  PROVE  [state |-> "QUEUED", agent |-> a, worker |-> w, accepted |-> FALSE] \in OpenCall
  BY TheCallStates DEF OpenCall

--------------------------------------------------------------------------------------
(* One step per action again, for what the types do not say.                            *)

LEMMA HandsStep ==
  ASSUME TypeOK, Hands, Bindings, Next
  PROVE  Hands'
<1>1. UNCHANGED <<boundTo, calls>> => \A v \in Processes : CallKept(worker[v])
  BY Undisturbed DEF Unbinds
<1>2. \A w \in Processes : worker[w].pc \notin Dialling => worker[w].call = NULL
  BY DEF Hands, HandsOK
<1>3. ASSUME NEW w \in Processes, StartTick(w) PROVE Hands'
  <2>1. \A v \in Processes \ {w} : worker'[v] = worker[v]
    BY <1>3 DEF StartTick, Idle, TypeOK
  <2>2. /\ worker'[w].pc \notin Dialling /\ worker'[w].call = NULL
        /\ worker'[w].pc = "claimed" => worker'[w].agent \in Agents
    BY <1>2, <1>3, IdleType DEF StartTick, Idle, TypeOK, WorkerState, Dialling
  <2> QED BY <1>1, <1>3, <2>1, <2>2, HandsFree DEF StartTick, agentVars
<1>4. ASSUME NEW w \in Processes, SnapshotAgents(w) PROVE Hands'
  <2>1. \A v \in Processes \ {w} : worker'[v] = worker[v]
    BY <1>4 DEF SnapshotAgents, TypeOK
  <2>2. /\ worker'[w].pc \notin Dialling /\ worker'[w].call = NULL
        /\ worker'[w].pc = "claimed" => worker'[w].agent \in Agents
    BY <1>2, <1>4, IdleType DEF SnapshotAgents, TypeOK, WorkerState, Dialling
  <2> QED BY <1>1, <1>4, <2>1, <2>2, HandsFree DEF SnapshotAgents, agentVars
<1>5. ASSUME NEW w \in Processes, NEW recent \in Outcomes, NEW previous \in Outcomes,
     ComputeRequest(w, recent, previous)
      PROVE  Hands'
  <2>1. \A v \in Processes \ {w} : worker'[v] = worker[v]
    BY <1>5 DEF ComputeRequest, Idle, TypeOK
  <2>2. /\ worker'[w].pc \notin Dialling /\ worker'[w].call = NULL
        /\ worker'[w].pc = "claimed" => worker'[w].agent \in Agents
    BY <1>2, <1>5, IdleType DEF ComputeRequest, Idle, TypeOK, WorkerState, Dialling
  <2> QED BY <1>1, <1>5, <2>1, <2>2, HandsFree DEF ComputeRequest, agentVars
<1>6. ASSUME NEW w \in Processes, ReadAgents(w) PROVE Hands'
  <2>1. \A v \in Processes \ {w} : worker'[v] = worker[v]
    BY <1>6 DEF ReadAgents, TypeOK
  <2>2. /\ worker'[w].pc \notin Dialling /\ worker'[w].call = NULL
        /\ worker'[w].pc = "claimed" => worker'[w].agent \in Agents
    BY <1>2, <1>6, IdleType DEF ReadAgents, TypeOK, WorkerState, Dialling
  <2> QED BY <1>1, <1>6, <2>1, <2>2, HandsFree DEF ReadAgents, agentVars
<1>7. ASSUME NEW w \in Processes, ReadCalls(w) PROVE Hands'
  <2>1. \A v \in Processes \ {w} : worker'[v] = worker[v]
    BY <1>7 DEF ReadCalls, TypeOK
  <2>2. /\ worker'[w].pc \notin Dialling /\ worker'[w].call = NULL
        /\ worker'[w].pc = "claimed" => worker'[w].agent \in Agents
    BY <1>2, <1>7, IdleType DEF ReadCalls, TypeOK, WorkerState, Dialling
  <2> QED BY <1>1, <1>7, <2>1, <2>2, HandsFree DEF ReadCalls, agentVars
<1>8. ASSUME NEW w \in Processes, Evaluate(w) PROVE Hands'
  <2>1. \A v \in Processes \ {w} : worker'[v] = worker[v]
    BY <1>8 DEF Evaluate, Allocate, Idle, TypeOK
  <2>2. /\ worker'[w].pc \notin Dialling /\ worker'[w].call = NULL
        /\ worker'[w].pc = "claimed" => worker'[w].agent \in Agents
    BY <1>2, <1>8, IdleType DEF Evaluate, Allocate, Idle, TypeOK, WorkerState, Dialling
  <2> QED BY <1>1, <1>8, <2>1, <2>2, HandsFree DEF Evaluate, agentVars
<1>9. ASSUME NEW w \in Processes, EvaluateLate(w) PROVE Hands'
  <2>1. \A v \in Processes \ {w} : worker'[v] = worker[v]
    BY <1>9 DEF EvaluateLate, Allocate, Idle, TypeOK
  <2>2. /\ worker'[w].pc \notin Dialling /\ worker'[w].call = NULL
        /\ worker'[w].pc = "claimed" => worker'[w].agent \in Agents
    BY <1>2, <1>9, IdleType DEF EvaluateLate, Allocate, Idle, TypeOK, WorkerState, Dialling
  <2> QED BY <1>1, <1>9, <2>1, <2>2, HandsFree DEF EvaluateLate, agentVars
<1>10. ASSUME NEW w \in Processes, EvaluationFails(w) PROVE Hands'
  <2>1. \A v \in Processes \ {w} : worker'[v] = worker[v]
    BY <1>10 DEF EvaluationFails, Allocate, Idle, TypeOK
  <2>2. /\ worker'[w].pc \notin Dialling /\ worker'[w].call = NULL
        /\ worker'[w].pc = "claimed" => worker'[w].agent \in Agents
    BY <1>2, <1>10, IdleType DEF EvaluationFails, Allocate, Idle, TypeOK, WorkerState, Dialling
  <2> QED BY <1>1, <1>10, <2>1, <2>2, HandsFree DEF EvaluationFails, agentVars
<1>11. ASSUME NEW w \in Processes, EndTick(w) PROVE Hands'
  <2>1. \A v \in Processes \ {w} : worker'[v] = worker[v]
    BY <1>11 DEF EndTick, TypeOK
  <2>2. /\ worker'[w].pc \notin Dialling /\ worker'[w].call = NULL
        /\ worker'[w].pc = "claimed" => worker'[w].agent \in Agents
    BY <1>2, <1>11, IdleType DEF EndTick, TypeOK, WorkerState, Dialling
  <2> QED BY <1>1, <1>11, <2>1, <2>2, HandsFree DEF EndTick, agentVars
<1>12. ASSUME NEW w \in Processes, FindAgents(w) PROVE Hands'
  <2>1. \A v \in Processes \ {w} : worker'[v] = worker[v]
    BY <1>12 DEF FindAgents, TypeOK
  <2>2. /\ worker'[w].pc \notin Dialling /\ worker'[w].call = NULL
        /\ worker'[w].pc = "claimed" => worker'[w].agent \in Agents
    BY <1>2, <1>12, IdleType DEF FindAgents, TypeOK, WorkerState, Dialling
  <2> QED BY <1>1, <1>12, <2>1, <2>2, HandsFree DEF FindAgents, agentVars
<1>13. ASSUME NEW w \in Processes, ClaimAgent(w) PROVE Hands'
  <2>1. \A v \in Processes \ {w} : worker'[v] = worker[v]
    BY <1>13 DEF ClaimAgent, TypeOK
  <2>2. /\ worker'[w].pc \notin Dialling /\ worker'[w].call = NULL
        /\ worker'[w].pc = "claimed" => worker'[w].agent \in Agents
    BY <1>2, <1>13, IdleType, CandidateType DEF ClaimAgent, TypeOK, WorkerState, Dialling
  <2> QED BY <1>1, <1>13, <2>1, <2>2, HandsFree DEF ClaimAgent, agentVars
<1>14. ASSUME NEW w \in Processes, AgentContended(w) PROVE Hands'
  <2>1. \A v \in Processes \ {w} : worker'[v] = worker[v]
    BY <1>14 DEF AgentContended, TypeOK
  <2>2. /\ worker'[w].pc \notin Dialling /\ worker'[w].call = NULL
        /\ worker'[w].pc = "claimed" => worker'[w].agent \in Agents
    BY <1>2, <1>14, IdleType DEF AgentContended, TypeOK, WorkerState, Dialling
  <2> QED BY <1>1, <1>14, <2>1, <2>2, HandsFree DEF AgentContended, agentVars
<1>15. ASSUME NEW w \in Processes, NoAgent(w) PROVE Hands'
  <2>1. \A v \in Processes \ {w} : worker'[v] = worker[v]
    BY <1>15 DEF NoAgent, Contended, TypeOK
  <2>2. /\ worker'[w].pc \notin Dialling /\ worker'[w].call = NULL
        /\ worker'[w].pc = "claimed" => worker'[w].agent \in Agents
    BY <1>2, <1>15, IdleType DEF NoAgent, Contended, TypeOK, WorkerState, Dialling
  <2> QED BY <1>1, <1>15, <2>1, <2>2, HandsFree DEF NoAgent, agentVars
<1>16. ASSUME NEW w \in Processes, TickFails(w) PROVE Hands'
  <2>1. \A v \in Processes \ {w} : worker'[v] = worker[v]
    BY <1>16 DEF TickFails, TypeOK
  <2>2. /\ worker'[w].pc \notin Dialling /\ worker'[w].call = NULL
        /\ worker'[w].pc = "claimed" => worker'[w].agent \in Agents
    BY <1>2, <1>16, IdleType DEF TickFails, TypeOK, WorkerState, Dialling
  <2> QED BY <1>1, <1>16, <2>1, <2>2, HandsFree DEF TickFails, agentVars
<1>17. ASSUME NEW a \in Agents, Login(a) PROVE Hands'
  BY <1>17, AvailableUnbinds, Undisturbed, HandsKept DEF Login
<1>18. ASSUME NEW a \in Agents, WrapUpEnds(a) PROVE Hands'
  BY <1>18, AvailableUnbinds, Undisturbed, HandsKept DEF WrapUpEnds
<1>19. ASSUME NEW a \in Agents, Leave(a) PROVE Hands'
  BY <1>1, <1>19, HandsKept DEF Leave, agentVars
<1>20. ASSUME NEW a \in Agents, LeaseLapses(a) PROVE Hands'
  BY <1>1, <1>20, HandsKept DEF LeaseLapses, agentVars
<1>21. ASSUME NEW status \in CampaignStatus, ChangeStatus(status) PROVE Hands'
  BY <1>1, <1>21, HandsKept DEF ChangeStatus, agentVars
<1>22. ASSUME NEW mode \in DialingMode, SetMode(mode) PROVE Hands'
  BY <1>1, <1>22, HandsKept DEF SetMode, agentVars
<1>23. ASSUME NEW w \in Processes, NEW status \in ProviderHealthStatus, HealthWorsens(w, status)
      PROVE  Hands'
  BY <1>1, <1>23, HandsKept DEF HealthWorsens, agentVars
<1>24. ASSUME NEW w \in Processes, HealthRecovers(w) PROVE Hands'
  BY <1>1, <1>24, HandsKept DEF HealthRecovers, agentVars
<1>25. ASSUME NEW a \in Agents, SweepLease(a) PROVE Hands'
  <2>1. Unbinds
    BY <1>25, AvailableUnbinds DEF SweepLease
  <2>2. CASE boundTo[a] = NULL
    BY <1>25, <2>1, <2>2, Undisturbed, HandsKept DEF SweepLease
  <2>3. CASE boundTo[a] # NULL
    <3>1. boundTo[a] \in Calls
      BY <2>3 DEF TypeOK
    <3>2. \A v \in Processes : worker[v].call # boundTo[a] \/ worker[v].pc = "dialing"
      BY <3>1, <1>2, Values DEF Hands, HandsOK, Dialling
    <3>3. calls' = [calls EXCEPT ![boundTo[a]] = NULL]
      BY <1>25, <2>3 DEF SweepLease
    <3> QED BY <1>25, <2>1, <3>1, <3>2, <3>3, OverKept, HandsKept DEF SweepLease
  <2> QED BY <2>2, <2>3
<1>26. ASSUME NEW w \in Processes, NoBorrower(w) PROVE Hands'
  <2>1. worker[w].agent \in Agents
    BY <1>26 DEF NoBorrower, Hands, HandsOK
  <2>2. Unbinds
    BY <1>26, <2>1, ReleaseUnbinds DEF NoBorrower, ReleaseOwn
  <2>3. \A v \in Processes \ {w} : worker'[v] = worker[v]
    BY <1>26 DEF NoBorrower, TypeOK
  <2>4. /\ worker'[w].pc \notin Dialling /\ worker'[w].call = NULL
        /\ worker'[w].pc = "claimed" => worker'[w].agent \in Agents
    BY <1>2, <1>26, IdleType DEF NoBorrower, Contended, TypeOK, WorkerState, Dialling
  <2> QED BY <1>26, <2>2, <2>3, <2>4, Undisturbed, HandsFree DEF NoBorrower
<1>27. ASSUME NEW w \in Processes, NEW c \in Calls, CreateCall(w, c) PROVE Hands'
  <2>1. \A v \in Processes \ {w} : worker'[v] = worker[v]
    BY <1>27 DEF CreateCall, TypeOK
  <2>2. /\ worker'[w].pc = "queued" /\ worker'[w].call = c /\ worker'[w].agent = worker[w].agent
        /\ worker[w].agent \in Agents
    BY <1>27 DEF CreateCall, TypeOK, WorkerState, Hands, HandsOK
  <2>3. /\ calls'[c] # NULL /\ calls'[c].state = "QUEUED" /\ ~calls'[c].accepted
        /\ calls'[c].agent = worker[w].agent
    BY <1>27, <2>2, OpenCallCreated, CallAssumption DEF CreateCall, TypeOK
  <2>4. \A a \in Agents : boundTo'[a] # c
    BY <1>27, Values DEF CreateCall, Bindings, agentVars
  <2>5. HandsOK(worker[w])'
    BY <2>2, <2>3, <2>4 DEF HandsOK, CallStateAt, Dialling
  <2>6. \A v \in Processes \ {w} : CallKept(worker[v])
    <3> TAKE v \in Processes \ {w}
    <3>1. worker[v].pc \in Dialling => worker[v].call \in Calls
      BY DEF Hands, HandsOK
    <3>2. worker[v].call # c /\ boundTo' = boundTo
      BY <1>27 DEF CreateCall, agentVars
    <3>3. \A x \in Calls \ {c} : calls'[x] = calls[x]
      BY <1>27 DEF CreateCall, TypeOK
    <3> QED BY <3>1, <3>2, <3>3 DEF CallKept
  <2>7. \A v \in Processes \ {w} : worker[v].call # worker'[w].call
    BY <1>27, <2>2 DEF CreateCall
  <2> QED BY <2>1, <2>5, <2>6, <2>7, HandsMoved
<1>28. ASSUME NEW w \in Processes, MarkReserved(w) PROVE Hands'
  <2> DEFINE c == worker[w].call
  <2>1. \A v \in Processes \ {w} : worker'[v] = worker[v]
    BY <1>28 DEF MarkReserved, TypeOK
  <2>2. /\ worker'[w].pc = "reserved" /\ worker'[w].call = c /\ worker'[w].agent = worker[w].agent
        /\ worker[w].pc = "queued"
    BY <1>28 DEF MarkReserved, TypeOK, WorkerState
  <2>3. /\ c \in Calls /\ calls[c] # NULL /\ calls[c].agent = worker[w].agent
        /\ ~calls[c].accepted /\ worker[w].agent \in Agents
        /\ \A a \in Agents : boundTo[a] # c
    BY <2>2 DEF Hands, HandsOK, Dialling
  <2>4. calls[c] \in OpenCall
    BY <2>3 DEF TypeOK
  <2>5. calls' = [calls EXCEPT ![c] = [calls[c] EXCEPT !.state = "RESERVED"]] /\ boundTo' = boundTo
    BY <1>28 DEF MarkReserved, TypeOK, agentVars
  <2>6. /\ calls'[c] # NULL /\ calls'[c].state = "RESERVED" /\ ~calls'[c].accepted
        /\ calls'[c].agent = worker[w].agent
    <3> DEFINE call == [calls[c] EXCEPT !.state = "RESERVED"]
    <3>1. calls'[c] = call
      BY <2>3, <2>5 DEF TypeOK
    <3>2. /\ call # NULL /\ call.state = "RESERVED"
          /\ call.agent = calls[c].agent /\ call.accepted = calls[c].accepted
      BY <2>4, OpenCallMoves, TheCallStates
    <3> HIDE DEF call
    <3> QED BY <2>3, <3>1, <3>2
  <2>7. HandsOK(worker[w])'
    BY <2>2, <2>3, <2>5, <2>6 DEF HandsOK, CallStateAt, Dialling
  <2>8. \A v \in Processes \ {w} : worker[v].call # c
    BY <2>3, Values DEF Hands
  <2>9. \A v \in Processes \ {w} : CallKept(worker[v])
    BY <2>5, <2>8 DEF CallKept, TypeOK
  <2> QED BY <2>1, <2>2, <2>7, <2>8, <2>9, HandsMoved
<1>29. ASSUME NEW w \in Processes, MarkInitiated(w) PROVE Hands'
  <2> DEFINE c == worker[w].call
  <2>1. \A v \in Processes \ {w} : worker'[v] = worker[v]
    BY <1>29 DEF MarkInitiated, TypeOK
  <2>2. /\ worker'[w].pc = "initiated" /\ worker'[w].call = c /\ worker'[w].agent = worker[w].agent
        /\ worker[w].pc = "reserved"
    BY <1>29 DEF MarkInitiated, TypeOK, WorkerState
  <2>3. /\ c \in Calls /\ calls[c] # NULL /\ calls[c].agent = worker[w].agent
        /\ ~calls[c].accepted /\ worker[w].agent \in Agents
        /\ \A a \in Agents : boundTo[a] # c
    BY <2>2 DEF Hands, HandsOK, Dialling
  <2>4. calls[c] \in OpenCall
    BY <2>3 DEF TypeOK
  <2>5. calls' = [calls EXCEPT ![c] = [calls[c] EXCEPT !.state = "INITIATED"]] /\ boundTo' = boundTo
    BY <1>29 DEF MarkInitiated, TypeOK, agentVars
  <2>6. /\ calls'[c] # NULL /\ calls'[c].state = "INITIATED" /\ ~calls'[c].accepted
        /\ calls'[c].agent = worker[w].agent
    <3> DEFINE call == [calls[c] EXCEPT !.state = "INITIATED"]
    <3>1. calls'[c] = call
      BY <2>3, <2>5 DEF TypeOK
    <3>2. /\ call # NULL /\ call.state = "INITIATED"
          /\ call.agent = calls[c].agent /\ call.accepted = calls[c].accepted
      BY <2>4, OpenCallMoves, TheCallStates
    <3> HIDE DEF call
    <3> QED BY <2>3, <3>1, <3>2
  <2>7. HandsOK(worker[w])'
    BY <2>2, <2>3, <2>5, <2>6 DEF HandsOK, CallStateAt, Dialling
  <2>8. \A v \in Processes \ {w} : worker[v].call # c
    BY <2>3, Values DEF Hands
  <2>9. \A v \in Processes \ {w} : CallKept(worker[v])
    BY <2>5, <2>8 DEF CallKept, TypeOK
  <2> QED BY <2>1, <2>2, <2>7, <2>8, <2>9, HandsMoved
<1>30. ASSUME NEW w \in Processes, MarkDialing(w) PROVE Hands'
  <2> DEFINE c == worker[w].call
  <2>1. \A v \in Processes \ {w} : worker'[v] = worker[v]
    BY <1>30 DEF MarkDialing, TypeOK
  <2>2. /\ worker'[w].pc = "dialing" /\ worker'[w].call = c /\ worker'[w].agent = worker[w].agent
        /\ worker[w].pc = "initiated"
    BY <1>30 DEF MarkDialing, TypeOK, WorkerState
  <2>3. /\ c \in Calls /\ calls[c] # NULL /\ calls[c].agent = worker[w].agent
        /\ ~calls[c].accepted /\ worker[w].agent \in Agents /\ calls[c].state = "INITIATED"
    BY <2>2 DEF Hands, HandsOK, Dialling, CallStateAt
  <2>4. HandsOK(worker[w])'
    BY <1>30, <2>2, <2>3 DEF MarkDialing, HandsOK, CallStateAt, Dialling
  <2>5. \A v \in Processes \ {w} : worker[v].call # c
    BY <2>3, Values DEF Hands
  <2>6. \A v \in Processes \ {w} : CallKept(worker[v])
    BY <1>30, <2>5 DEF MarkDialing, CallKept, TypeOK
  <2> QED BY <2>1, <2>2, <2>4, <2>5, <2>6, HandsMoved
<1>31. ASSUME NEW w \in Processes, Originate(w) PROVE Hands'
  <2> DEFINE c == worker[w].call
  <2>1. \A v \in Processes \ {w} : worker'[v] = worker[v]
    BY <1>31 DEF Originate, NextDial, TypeOK
  <2>2. worker'[w].pc = "allocating" /\ worker'[w].call = NULL
    BY <1>31 DEF Originate, NextDial, TypeOK, WorkerState
  <2>3. c \in Calls
    BY <1>31 DEF Originate, Hands, HandsOK, Dialling
  <2>4. \A v \in Processes \ {w} : worker[v].call # c
    BY <2>3, Values DEF Hands
  <2>5. \A v \in Processes \ {w} : CallKept(worker[v])
    <3> TAKE v \in Processes \ {w}
    <3>1. worker[v].pc \in Dialling => worker[v].call \in Calls
      BY DEF Hands, HandsOK
    <3>2. worker[v].call # c /\ boundTo' = boundTo
      BY <1>31, <2>4 DEF Originate, agentVars
    <3>3. \A x \in Calls \ {c} : calls'[x] = calls[x]
      BY <1>31 DEF Originate, TypeOK
    <3> QED BY <3>1, <3>2, <3>3 DEF CallKept
  <2> QED BY <2>1, <2>2, <2>5, HandsFree DEF Dialling
<1>32. ASSUME NEW w \in Processes, OriginateFails(w) PROVE Hands'
  <2> DEFINE c == worker[w].call
  <2>1. \A v \in Processes \ {w} : worker'[v] = worker[v]
    BY <1>32 DEF OriginateFails, NextDial, TypeOK
  <2>2. worker'[w].pc = "allocating" /\ worker'[w].call = NULL
    BY <1>32 DEF OriginateFails, NextDial, TypeOK, WorkerState
  <2>3. /\ c \in Calls /\ worker[w].agent \in Agents
        /\ calls[c] # NULL => calls[c].agent = worker[w].agent
    BY <1>32 DEF OriginateFails, Hands, HandsOK, Dialling
  <2>4. calls' = [calls EXCEPT ![c] = NULL] /\ Unbinds
    BY <1>32, <2>3, CallOverEffect DEF OriginateFails
  <2>5. \A v \in Processes \ {w} : worker[v].call # c
    BY <2>3, Values DEF Hands
  <2>6. \A v \in Processes \ {w} : CallKept(worker[v])
    BY <2>3, <2>4, <2>5, OverKept
  <2> QED BY <2>1, <2>2, <2>6, HandsFree DEF Dialling
<1>33. ASSUME NEW w \in Processes, Crash(w) PROVE Hands'
  <2>1. \A v \in Processes \ {w} : worker'[v] = worker[v]
    BY <1>33 DEF Crash, TypeOK
  <2>2. worker'[w] = Idle
    BY <1>33 DEF Crash, TypeOK
  <2>3. \A c \in Calls :
           \/ calls'[c] = calls[c]
           \/ calls[c] \in OpenCall /\ calls'[c] = [calls[c] EXCEPT !.worker = GONE]
    <3> TAKE c \in Calls
    <3>1. calls[c] # NULL => calls[c] \in OpenCall
      BY DEF TypeOK
    <3>2. calls' = [x \in Calls |-> IF calls[x] # NULL /\ calls[x].worker = w
                                    THEN [calls[x] EXCEPT !.worker = GONE] ELSE calls[x]]
      BY <1>33 DEF Crash
    <3>3. CASE calls[c] # NULL /\ calls[c].worker = w
      BY <3>1, <3>2, <3>3
    <3>4. CASE calls[c] = NULL \/ calls[c].worker # w
      <4>1. calls'[c] = calls[c]
        BY <3>2, <3>4
      <4> QED BY <4>1
    <3> QED BY <3>3, <3>4
  <2>4. \A v \in Processes : CallKept(worker[v])
    <3> TAKE v \in Processes
    <3>1. worker[v].pc \in Dialling => worker[v].call \in Calls
      BY DEF Hands, HandsOK
    <3> QED BY <1>33, <2>3, <3>1, OpenCallDisowned DEF Crash, CallKept
  <2> QED BY <2>1, <2>2, <2>4, IdleType, HandsFree DEF Dialling
<1>34. ASSUME NEW c \in Calls, NEW target \in CallState, Progress(c, target) PROVE Hands'
  <2>1. c \in Calls /\ calls[c] # NULL /\ calls[c].accepted /\ boundTo' = boundTo
        /\ worker' = worker /\ calls' = [calls EXCEPT ![c] = [calls[c] EXCEPT !.state = target]]
    BY <1>34 DEF Progress, TypeOK
  <2>2. \A v \in Processes : worker[v].pc \in Dialling => worker[v].call # c
    BY <2>1 DEF Hands, HandsOK
  <2>3. \A v \in Processes : CallKept(worker[v])
    BY <2>1, <2>2 DEF CallKept, TypeOK
  <2> QED BY <2>1, <2>3, HandsKept
<1>35. ASSUME NEW c \in Calls, NEW target \in CallState, End(c, target) PROVE Hands'
  <2>1. calls[c] # NULL /\ calls[c].accepted /\ calls[c].agent \in Agents /\ worker' = worker
    BY <1>35 DEF End, TypeOK, OpenCall
  <2>2. calls' = [calls EXCEPT ![c] = NULL] /\ Unbinds
    BY <1>35, <2>1, CallOverEffect DEF End
  <2>3. \A v \in Processes : worker[v].call # c
    BY <2>1, Values DEF Hands, HandsOK
  <2>4. \A v \in Processes : CallKept(worker[v])
    BY <2>2, <2>3, OverKept
  <2> QED BY <2>1, <2>4, HandsKept
<1>36. ASSUME NEW c \in Calls, SweepOrphan(c) PROVE Hands'
  <2>1. calls[c] # NULL /\ calls[c].agent \in Agents /\ worker' = worker
        /\ \A v \in Processes : worker[v].call # c
    BY <1>36 DEF SweepOrphan, TypeOK, OpenCall
  <2>2. calls' = [calls EXCEPT ![c] = NULL] /\ Unbinds
    BY <1>36, <2>1, CallOverEffect DEF SweepOrphan
  <2>3. \A v \in Processes : CallKept(worker[v])
    BY <2>1, <2>2, OverKept
  <2> QED BY <2>1, <2>3, HandsKept
<1> QED
  BY <1>3, <1>4, <1>5, <1>6, <1>7, <1>8, <1>9, <1>10, <1>11, <1>12, <1>13, <1>14, <1>15, <1>16,
     <1>17, <1>18, <1>19, <1>20, <1>21, <1>22, <1>23, <1>24, <1>25, <1>26, <1>27, <1>28, <1>29,
     <1>30, <1>31, <1>32, <1>33, <1>34, <1>35, <1>36
  DEF Next, Tick, Dial, Misfortune

LEMMA BindingsKept ==
  ASSUME Bindings, \A a \in Agents : boundTo'[a] # NULL =>
           /\ boundTo[a] = boundTo'[a]
           /\ calls'[boundTo[a]] # NULL /\ calls'[boundTo[a]].agent = calls[boundTo[a]].agent
  PROVE  Bindings'
  BY DEF Bindings

LEMMA BindingsOver ==
  ASSUME TypeOK, Bindings, NEW c \in Calls, calls' = [calls EXCEPT ![c] = NULL], Unbinds,
         \A a \in Agents : boundTo'[a] # c
  PROVE  Bindings'
  <1>1. ASSUME NEW a \in Agents, boundTo'[a] # NULL
        PROVE  /\ boundTo[a] = boundTo'[a]
               /\ calls'[boundTo[a]] # NULL /\ calls'[boundTo[a]].agent = calls[boundTo[a]].agent
    <2>1. boundTo[a] = boundTo'[a] /\ boundTo[a] # c /\ boundTo[a] \in Calls
      BY <1>1 DEF Unbinds, TypeOK
    <2>2. calls'[boundTo[a]] = calls[boundTo[a]]
      BY <2>1 DEF TypeOK
    <2> QED BY <1>1, <2>1, <2>2 DEF Bindings
  <1> QED BY <1>1, BindingsKept

\* The call in c changes, but not its agent.
LEMMA BindingsChanged ==
  ASSUME TypeOK, Bindings, Unbinds, NEW c \in Calls, NEW call, call # NULL,
         calls[c] # NULL => call.agent = calls[c].agent, calls' = [calls EXCEPT ![c] = call]
  PROVE  Bindings'
  <1>1. ASSUME NEW a \in Agents, boundTo'[a] # NULL
        PROVE  /\ boundTo[a] = boundTo'[a]
               /\ calls'[boundTo[a]] # NULL /\ calls'[boundTo[a]].agent = calls[boundTo[a]].agent
    <2>1. boundTo[a] = boundTo'[a] /\ boundTo[a] \in Calls /\ calls[boundTo[a]] # NULL
      BY <1>1 DEF Unbinds, TypeOK, Bindings
    <2>2. calls'[boundTo[a]] = IF boundTo[a] = c THEN call ELSE calls[boundTo[a]]
      BY <2>1 DEF TypeOK
    <2> QED BY <2>1, <2>2
  <1> QED BY <1>1, BindingsKept

LEMMA BindingsStep ==
  ASSUME TypeOK, Hands, Bindings, Next
  PROVE  Bindings'
<1>1. Unbinds /\ UNCHANGED calls => Bindings'
  BY BindingsKept DEF Bindings, Unbinds
<1>2. UNCHANGED <<boundTo, calls>> => Bindings'
  BY DEF Bindings
<1>3. ASSUME NEW w \in Processes, StartTick(w) PROVE Bindings'
  BY <1>2, <1>3 DEF StartTick, agentVars
<1>4. ASSUME NEW w \in Processes, SnapshotAgents(w) PROVE Bindings'
  BY <1>2, <1>4 DEF SnapshotAgents, agentVars
<1>5. ASSUME NEW w \in Processes, ReadAgents(w) PROVE Bindings'
  BY <1>2, <1>5 DEF ReadAgents, agentVars
<1>6. ASSUME NEW w \in Processes, ReadCalls(w) PROVE Bindings'
  BY <1>2, <1>6 DEF ReadCalls, agentVars
<1>7. ASSUME NEW w \in Processes, Evaluate(w) PROVE Bindings'
  BY <1>2, <1>7 DEF Evaluate, agentVars
<1>8. ASSUME NEW w \in Processes, EvaluateLate(w) PROVE Bindings'
  BY <1>2, <1>8 DEF EvaluateLate, agentVars
<1>9. ASSUME NEW w \in Processes, EvaluationFails(w) PROVE Bindings'
  BY <1>2, <1>9 DEF EvaluationFails, agentVars
<1>10. ASSUME NEW w \in Processes, EndTick(w) PROVE Bindings'
  BY <1>2, <1>10 DEF EndTick, agentVars
<1>11. ASSUME NEW w \in Processes, FindAgents(w) PROVE Bindings'
  BY <1>2, <1>11 DEF FindAgents, agentVars
<1>12. ASSUME NEW w \in Processes, ClaimAgent(w) PROVE Bindings'
  BY <1>2, <1>12 DEF ClaimAgent, agentVars
<1>13. ASSUME NEW w \in Processes, AgentContended(w) PROVE Bindings'
  BY <1>2, <1>13 DEF AgentContended, agentVars
<1>14. ASSUME NEW w \in Processes, NoAgent(w) PROVE Bindings'
  BY <1>2, <1>14 DEF NoAgent, agentVars
<1>15. ASSUME NEW w \in Processes, TickFails(w) PROVE Bindings'
  BY <1>2, <1>15 DEF TickFails, agentVars
<1>16. ASSUME NEW w \in Processes, HealthRecovers(w) PROVE Bindings'
  BY <1>2, <1>16 DEF HealthRecovers, agentVars
<1>17. ASSUME NEW w \in Processes, NEW recent \in Outcomes, NEW previous \in Outcomes,
     ComputeRequest(w, recent, previous)
      PROVE  Bindings'
  BY <1>2, <1>17 DEF ComputeRequest, agentVars
<1>18. ASSUME NEW a \in Agents, Leave(a) PROVE Bindings'
  BY <1>2, <1>18 DEF Leave, agentVars
<1>19. ASSUME NEW a \in Agents, LeaseLapses(a) PROVE Bindings'
  BY <1>2, <1>19 DEF LeaseLapses, agentVars
<1>20. ASSUME NEW status \in CampaignStatus, ChangeStatus(status) PROVE Bindings'
  BY <1>2, <1>20 DEF ChangeStatus, agentVars
<1>21. ASSUME NEW mode \in DialingMode, SetMode(mode) PROVE Bindings'
  BY <1>2, <1>21 DEF SetMode, agentVars
<1>22. ASSUME NEW w \in Processes, NEW status \in ProviderHealthStatus, HealthWorsens(w, status)
      PROVE  Bindings'
  BY <1>2, <1>22 DEF HealthWorsens, agentVars
<1>23. ASSUME NEW a \in Agents, Login(a) PROVE Bindings'
  BY <1>1, <1>23, AvailableUnbinds DEF Login
<1>24. ASSUME NEW a \in Agents, WrapUpEnds(a) PROVE Bindings'
  BY <1>1, <1>24, AvailableUnbinds DEF WrapUpEnds
<1>25. ASSUME NEW a \in Agents, SweepLease(a) PROVE Bindings'
  <2>1. Unbinds /\ boundTo'[a] = NULL
    BY <1>25, AvailableUnbinds DEF SweepLease
  <2>2. CASE boundTo[a] = NULL
    BY <1>1, <1>25, <2>1, <2>2 DEF SweepLease
  <2>3. CASE boundTo[a] # NULL
    <3>1. boundTo[a] \in Calls /\ calls' = [calls EXCEPT ![boundTo[a]] = NULL]
      BY <1>25, <2>3 DEF SweepLease, TypeOK
    <3>2. \A x \in Agents : boundTo'[x] # boundTo[a]
      BY <2>1, <2>3 DEF Unbinds, Bindings
    <3> QED BY <2>1, <3>1, <3>2, BindingsOver
  <2> QED BY <2>2, <2>3
<1>26. ASSUME NEW w \in Processes, NoBorrower(w) PROVE Bindings'
  <2>1. worker[w].agent \in Agents
    BY <1>26 DEF NoBorrower, Hands, HandsOK
  <2> QED BY <1>1, <1>26, <2>1, ReleaseUnbinds DEF NoBorrower, ReleaseOwn
<1>27. ASSUME NEW w \in Processes, NEW c \in Calls, CreateCall(w, c) PROVE Bindings'
  <2> DEFINE call == [ state |-> "QUEUED", agent |-> worker[w].agent,
                       worker |-> w, accepted |-> FALSE ]
  <2>1. worker[w].agent \in Agents /\ calls[c] = NULL /\ calls' = [calls EXCEPT ![c] = call]
    BY <1>27 DEF CreateCall, Hands, HandsOK
  <2>2. call # NULL
    BY <2>1, OpenCallCreated, CallAssumption
  <2>3. Unbinds
    BY <1>27 DEF CreateCall, agentVars, Unbinds
  <2> HIDE DEF call
  <2> QED BY <2>1, <2>2, <2>3, BindingsChanged
<1>28. ASSUME NEW w \in Processes, MarkReserved(w) PROVE Bindings'
  <2> DEFINE c == worker[w].call
             call == [calls[c] EXCEPT !.state = "RESERVED"]
  <2>1. c \in Calls /\ calls[c] # NULL /\ calls[c] \in OpenCall
    BY <1>28 DEF MarkReserved, Hands, HandsOK, Dialling, TypeOK
  <2>2. call # NULL /\ call.agent = calls[c].agent
    BY <2>1, OpenCallMoves, TheCallStates
  <2>3. calls' = [calls EXCEPT ![c] = call] /\ Unbinds
    BY <1>28 DEF MarkReserved, TypeOK, agentVars, Unbinds
  <2> HIDE DEF call, c
  <2> QED BY <2>1, <2>2, <2>3, BindingsChanged
<1>29. ASSUME NEW w \in Processes, MarkInitiated(w) PROVE Bindings'
  <2> DEFINE c == worker[w].call
             call == [calls[c] EXCEPT !.state = "INITIATED"]
  <2>1. c \in Calls /\ calls[c] # NULL /\ calls[c] \in OpenCall
    BY <1>29 DEF MarkInitiated, Hands, HandsOK, Dialling, TypeOK
  <2>2. call # NULL /\ call.agent = calls[c].agent
    BY <2>1, OpenCallMoves, TheCallStates
  <2>3. calls' = [calls EXCEPT ![c] = call] /\ Unbinds
    BY <1>29 DEF MarkInitiated, TypeOK, agentVars, Unbinds
  <2> HIDE DEF call, c
  <2> QED BY <2>1, <2>2, <2>3, BindingsChanged
<1>30. ASSUME NEW w \in Processes, MarkDialing(w) PROVE Bindings'
  <2> DEFINE c == worker[w].call
  <2>1. c \in Calls /\ calls[c] # NULL /\ calls[c].agent = worker[w].agent
        /\ worker[w].agent \in Agents
    BY <1>30 DEF MarkDialing, Hands, HandsOK, Dialling
  <2>2. boundTo' = [boundTo EXCEPT ![worker[w].agent] = c] \/ boundTo' = boundTo
    BY <1>30 DEF MarkDialing
  <2>3. calls' = calls
    BY <1>30 DEF MarkDialing
  <2> QED BY <2>1, <2>2, <2>3 DEF Bindings, TypeOK
<1>31. ASSUME NEW w \in Processes, Originate(w) PROVE Bindings'
  <2> DEFINE c == worker[w].call
             call == [calls[c] EXCEPT !.accepted = TRUE]
  <2>1. c \in Calls /\ Unbinds
    BY <1>31 DEF Originate, Hands, HandsOK, Dialling, agentVars, Unbinds
  <2>2. CASE calls[c] = NULL
    BY <1>1, <1>31, <2>1, <2>2 DEF Originate
  <2>3. CASE calls[c] # NULL
    <3>1. calls[c] \in OpenCall
      BY <2>1, <2>3 DEF TypeOK
    <3>2. call # NULL /\ call.agent = calls[c].agent
      BY <3>1, OpenCallAccepted
    <3>3. calls' = [calls EXCEPT ![c] = call]
      BY <1>31, <2>3 DEF Originate, TypeOK
    <3> HIDE DEF call, c
    <3> QED BY <2>1, <3>2, <3>3, BindingsChanged
  <2> QED BY <2>2, <2>3
<1>32. ASSUME NEW w \in Processes, OriginateFails(w) PROVE Bindings'
  <2> DEFINE c == worker[w].call
  <2>1. /\ c \in Calls /\ worker[w].agent \in Agents
        /\ calls[c] # NULL => calls[c].agent = worker[w].agent
    BY <1>32 DEF OriginateFails, Hands, HandsOK, Dialling
  <2>2. calls' = [calls EXCEPT ![c] = NULL] /\ Unbinds /\ \A x \in Agents : boundTo'[x] # c
    BY <1>32, <2>1, CallOverEffect DEF OriginateFails
  <2> HIDE DEF c
  <2> QED BY <2>1, <2>2, BindingsOver
<1>33. ASSUME NEW w \in Processes, Crash(w) PROVE Bindings'
  <2>1. ASSUME NEW a \in Agents, boundTo'[a] # NULL
        PROVE  /\ boundTo[a] = boundTo'[a]
               /\ calls'[boundTo[a]] # NULL /\ calls'[boundTo[a]].agent = calls[boundTo[a]].agent
    <3> DEFINE c == boundTo[a]
    <3>1. boundTo[a] = boundTo'[a] /\ c \in Calls /\ calls[c] # NULL /\ calls[c] \in OpenCall
      BY <1>33, <2>1 DEF Crash, TypeOK, Bindings
    <3>2. calls'[c] = calls[c] \/ calls'[c] = [calls[c] EXCEPT !.worker = GONE]
      BY <1>33, <3>1 DEF Crash
    <3> QED BY <3>1, <3>2, OpenCallDisowned
  <2> QED BY <2>1, BindingsKept
<1>34. ASSUME NEW c \in Calls, NEW target \in CallState, Progress(c, target) PROVE Bindings'
  <2> DEFINE call == [calls[c] EXCEPT !.state = target]
  <2>1. calls[c] # NULL /\ calls[c] \in OpenCall /\ target \in OpenCallStates
    BY <1>34 DEF Progress, TypeOK, OpenCallStates, is_terminal
  <2>2. calls' = [calls EXCEPT ![c] = call] /\ Unbinds
    BY <1>34 DEF Progress, TypeOK, Unbinds
  <2>3. call # NULL /\ call.agent = calls[c].agent
    BY <2>1, OpenCallMoves
  <2> HIDE DEF call
  <2> QED BY <2>2, <2>3, BindingsChanged
<1>35. ASSUME NEW c \in Calls, NEW target \in CallState, End(c, target) PROVE Bindings'
  <2>1. calls[c] # NULL /\ calls[c].agent \in Agents
    BY <1>35 DEF End, TypeOK, OpenCall
  <2>2. calls' = [calls EXCEPT ![c] = NULL] /\ Unbinds /\ \A x \in Agents : boundTo'[x] # c
    BY <1>35, <2>1, CallOverEffect DEF End
  <2> QED BY <2>2, BindingsOver
<1>36. ASSUME NEW c \in Calls, SweepOrphan(c) PROVE Bindings'
  <2>1. calls[c] # NULL /\ calls[c].agent \in Agents
    BY <1>36 DEF SweepOrphan, TypeOK, OpenCall
  <2>2. calls' = [calls EXCEPT ![c] = NULL] /\ Unbinds /\ \A x \in Agents : boundTo'[x] # c
    BY <1>36, <2>1, CallOverEffect DEF SweepOrphan
  <2> QED BY <2>2, BindingsOver
<1> QED
  BY <1>3, <1>4, <1>5, <1>6, <1>7, <1>8, <1>9, <1>10, <1>11, <1>12, <1>13, <1>14, <1>15, <1>16,
     <1>17, <1>18, <1>19, <1>20, <1>21, <1>22, <1>23, <1>24, <1>25, <1>26, <1>27, <1>28, <1>29,
     <1>30, <1>31, <1>32, <1>33, <1>34, <1>35, <1>36
  DEF Next, Tick, Dial, Misfortune

--------------------------------------------------------------------------------------
(* Active calls: only MarkReserved makes one.                                           *)

ActiveCalls == { c \in Calls : calls[c] # NULL /\ calls[c].state \in ACTIVE_CALL_STATES }

NoneBecomesActive == ActiveCalls' \subseteq ActiveCalls

LEMMA CallsChanged ==
  ASSUME TypeOK, AcceptedIsActive, NEW c \in Calls, NEW call, calls' = [calls EXCEPT ![c] = call],
         call = NULL \/ (call.accepted => call.state \in ACTIVE_CALL_STATES)
  PROVE  /\ AcceptedIsActive'
         /\ \A x \in ActiveCalls' : x \in ActiveCalls \/ x = c
         /\ \/ call = NULL \/ call.state \notin ACTIVE_CALL_STATES
            \/ calls[c] # NULL /\ calls[c].state \in ACTIVE_CALL_STATES
            => NoneBecomesActive
  <1>1. calls'[c] = call /\ \A x \in Calls \ {c} : calls'[x] = calls[x]
    BY DEF TypeOK
  <1>2. AcceptedIsActive'
    BY <1>1 DEF AcceptedIsActive
  <1>3. \A x \in ActiveCalls' : x \in ActiveCalls \/ x = c
    BY <1>1 DEF ActiveCalls
  <1>4. ASSUME \/ call = NULL \/ call.state \notin ACTIVE_CALL_STATES
               \/ calls[c] # NULL /\ calls[c].state \in ACTIVE_CALL_STATES
        PROVE  NoneBecomesActive
    <2>1. c \in ActiveCalls' => c \in ActiveCalls
      BY <1>1, <1>4 DEF ActiveCalls
    <2> QED BY <1>3, <2>1 DEF NoneBecomesActive
  <1> QED BY <1>2, <1>3, <1>4

LEMMA CallsStep ==
  ASSUME TypeOK, Hands, Bindings, AcceptedIsActive, Next
  PROVE  /\ AcceptedIsActive'
         /\ NoneBecomesActive \/ \E w \in Processes : MarkReserved(w)
<1> DEFINE Goal == AcceptedIsActive' /\ (NoneBecomesActive \/ \E w \in Processes :
     MarkReserved(w))
<1>1. SUFFICES Goal
  OBVIOUS
<1>2. UNCHANGED calls => Goal
  BY DEF AcceptedIsActive, NoneBecomesActive, ActiveCalls
<1>3. ASSUME NEW c \in Calls, calls' = [calls EXCEPT ![c] = NULL] PROVE Goal
  BY <1>3, CallsChanged
<1>4. ASSUME NEW w \in Processes, StartTick(w) PROVE Goal
  BY <1>2, <1>4 DEF StartTick
<1>5. ASSUME NEW w \in Processes, SnapshotAgents(w) PROVE Goal
  BY <1>2, <1>5 DEF SnapshotAgents
<1>6. ASSUME NEW w \in Processes, ReadAgents(w) PROVE Goal
  BY <1>2, <1>6 DEF ReadAgents
<1>7. ASSUME NEW w \in Processes, ReadCalls(w) PROVE Goal
  BY <1>2, <1>7 DEF ReadCalls
<1>8. ASSUME NEW w \in Processes, Evaluate(w) PROVE Goal
  BY <1>2, <1>8 DEF Evaluate
<1>9. ASSUME NEW w \in Processes, EvaluateLate(w) PROVE Goal
  BY <1>2, <1>9 DEF EvaluateLate
<1>10. ASSUME NEW w \in Processes, EvaluationFails(w) PROVE Goal
  BY <1>2, <1>10 DEF EvaluationFails
<1>11. ASSUME NEW w \in Processes, EndTick(w) PROVE Goal
  BY <1>2, <1>11 DEF EndTick
<1>12. ASSUME NEW w \in Processes, FindAgents(w) PROVE Goal
  BY <1>2, <1>12 DEF FindAgents
<1>13. ASSUME NEW w \in Processes, ClaimAgent(w) PROVE Goal
  BY <1>2, <1>13 DEF ClaimAgent
<1>14. ASSUME NEW w \in Processes, AgentContended(w) PROVE Goal
  BY <1>2, <1>14 DEF AgentContended
<1>15. ASSUME NEW w \in Processes, NoAgent(w) PROVE Goal
  BY <1>2, <1>15 DEF NoAgent
<1>16. ASSUME NEW w \in Processes, TickFails(w) PROVE Goal
  BY <1>2, <1>16 DEF TickFails
<1>17. ASSUME NEW w \in Processes, HealthRecovers(w) PROVE Goal
  BY <1>2, <1>17 DEF HealthRecovers
<1>18. ASSUME NEW w \in Processes, NoBorrower(w) PROVE Goal
  BY <1>2, <1>18 DEF NoBorrower
<1>19. ASSUME NEW w \in Processes, MarkDialing(w) PROVE Goal
  BY <1>2, <1>19 DEF MarkDialing
<1>20. ASSUME NEW w \in Processes, NEW recent \in Outcomes, NEW previous \in Outcomes,
     ComputeRequest(w, recent, previous)
      PROVE  Goal
  BY <1>2, <1>20 DEF ComputeRequest
<1>21. ASSUME NEW a \in Agents, Leave(a) PROVE Goal
  BY <1>2, <1>21 DEF Leave
<1>22. ASSUME NEW a \in Agents, LeaseLapses(a) PROVE Goal
  BY <1>2, <1>22 DEF LeaseLapses
<1>23. ASSUME NEW a \in Agents, Login(a) PROVE Goal
  BY <1>2, <1>23 DEF Login
<1>24. ASSUME NEW a \in Agents, WrapUpEnds(a) PROVE Goal
  BY <1>2, <1>24 DEF WrapUpEnds
<1>25. ASSUME NEW status \in CampaignStatus, ChangeStatus(status) PROVE Goal
  BY <1>2, <1>25 DEF ChangeStatus
<1>26. ASSUME NEW mode \in DialingMode, SetMode(mode) PROVE Goal
  BY <1>2, <1>26 DEF SetMode
<1>27. ASSUME NEW w \in Processes, NEW status \in ProviderHealthStatus, HealthWorsens(w, status)
      PROVE  Goal
  BY <1>2, <1>27 DEF HealthWorsens
<1>28. ASSUME NEW a \in Agents, SweepLease(a) PROVE Goal
  <2>1. boundTo[a] = NULL \/ boundTo[a] \in Calls
    BY DEF TypeOK
  <2> QED BY <1>2, <1>3, <1>28, <2>1 DEF SweepLease
<1>29. ASSUME NEW w \in Processes, NEW c \in Calls, CreateCall(w, c) PROVE Goal
  <2> DEFINE call == [ state |-> "QUEUED", agent |-> worker[w].agent,
                       worker |-> w, accepted |-> FALSE ]
  <2>1. calls' = [calls EXCEPT ![c] = call]
    BY <1>29 DEF CreateCall
  <2>2. ~call.accepted /\ call.state \notin ACTIVE_CALL_STATES
    BY DEF ACTIVE_CALL_STATES
  <2> HIDE DEF call
  <2> QED BY <2>1, <2>2, CallsChanged
<1>30. ASSUME NEW w \in Processes, MarkReserved(w) PROVE Goal
  <2> DEFINE c == worker[w].call
             call == [calls[c] EXCEPT !.state = "RESERVED"]
  <2>1. c \in Calls /\ calls[c] \in OpenCall
    BY <1>30 DEF MarkReserved, Hands, HandsOK, Dialling, TypeOK
  <2>2. calls' = [calls EXCEPT ![c] = call]
    BY <1>30 DEF MarkReserved, TypeOK
  <2>3. call.state \in ACTIVE_CALL_STATES
    BY <2>1, OpenCallMoves, TheCallStates DEF ACTIVE_CALL_STATES
  <2> HIDE DEF call, c
  <2> QED BY <1>30, <2>1, <2>2, <2>3, CallsChanged
<1>31. ASSUME NEW w \in Processes, MarkInitiated(w) PROVE Goal
  <2> DEFINE c == worker[w].call
             call == [calls[c] EXCEPT !.state = "INITIATED"]
  <2>1. c \in Calls /\ calls[c] # NULL /\ calls[c] \in OpenCall /\ calls[c].state = "RESERVED"
    BY <1>31 DEF MarkInitiated, Hands, HandsOK, Dialling, CallStateAt, TypeOK
  <2>2. calls' = [calls EXCEPT ![c] = call]
    BY <1>31 DEF MarkInitiated, TypeOK
  <2>3. call.state \in ACTIVE_CALL_STATES /\ calls[c].state \in ACTIVE_CALL_STATES
    BY <2>1, OpenCallMoves, TheCallStates DEF ACTIVE_CALL_STATES
  <2> HIDE DEF call, c
  <2> QED BY <2>1, <2>2, <2>3, CallsChanged
<1>32. ASSUME NEW w \in Processes, Originate(w) PROVE Goal
  <2> DEFINE c == worker[w].call
             call == [calls[c] EXCEPT !.accepted = TRUE]
  <2>1. c \in Calls /\ worker[w].pc = "dialing"
    BY <1>32 DEF Originate, Hands, HandsOK, Dialling
  <2>2. CASE calls[c] = NULL
    BY <1>2, <1>32, <2>1, <2>2 DEF Originate
  <2>3. CASE calls[c] # NULL
    <3>1. calls[c] \in OpenCall /\ calls[c].state = "INITIATED"
      BY <2>1, <2>3 DEF TypeOK, Hands, HandsOK, CallStateAt, Dialling
    <3>2. calls[c].state \in ACTIVE_CALL_STATES /\ call.state = calls[c].state
      BY <3>1, OpenCallAccepted DEF ACTIVE_CALL_STATES
    <3>3. calls' = [calls EXCEPT ![c] = call]
      BY <1>32, <2>3 DEF Originate, TypeOK
    <3> HIDE DEF call, c
    <3> QED BY <2>1, <2>3, <3>2, <3>3, CallsChanged
  <2> QED BY <2>2, <2>3
<1>33. ASSUME NEW w \in Processes, OriginateFails(w) PROVE Goal
  <2>1. worker[w].call \in Calls
    BY <1>33 DEF OriginateFails, Hands, HandsOK, Dialling
  <2> QED BY <1>3, <1>33, <2>1 DEF OriginateFails, CallOver
<1>34. ASSUME NEW w \in Processes, Crash(w) PROVE Goal
  <2>1. \A c \in Calls :
           \/ calls'[c] = calls[c]
           \/ /\ calls[c] # NULL /\ calls[c] \in OpenCall
              /\ calls'[c] = [calls[c] EXCEPT !.worker = GONE]
    BY <1>34 DEF Crash, TypeOK
  <2>2. \A c \in Calls :
           \/ calls'[c] = calls[c]
           \/ /\ calls[c] # NULL
              /\ calls'[c].state = calls[c].state /\ calls'[c].accepted = calls[c].accepted
    BY <2>1, OpenCallDisowned
  <2> QED BY <2>2 DEF AcceptedIsActive, NoneBecomesActive, ActiveCalls
<1>35. ASSUME NEW c \in Calls, NEW target \in CallState, Progress(c, target) PROVE Goal
  <2> DEFINE call == [calls[c] EXCEPT !.state = target]
  <2>1. calls[c] # NULL /\ calls[c] \in OpenCall /\ target \in OpenCallStates
        /\ calls[c].state \in OpenCallStates
    BY <1>35 DEF Progress, TypeOK, OpenCallStates, is_terminal, OpenCall
  <2>2. calls' = [calls EXCEPT ![c] = call]
    BY <1>35 DEF Progress, TypeOK
  <2>3. target # "QUEUED"
    BY <1>35, <2>1, AppliedRises DEF Progress
  <2>4. call.state \in ACTIVE_CALL_STATES
    BY <2>1, <2>3, OpenCallMoves, TheCallStates DEF ACTIVE_CALL_STATES
  <2>5. calls[c].state \in ACTIVE_CALL_STATES
    BY <1>35, <2>1 DEF Progress, AcceptedIsActive
  <2> HIDE DEF call
  <2> QED BY <2>1, <2>2, <2>4, <2>5, CallsChanged
<1>36. ASSUME NEW c \in Calls, NEW target \in CallState, End(c, target) PROVE Goal
  BY <1>3, <1>36 DEF End, CallOver
<1>37. ASSUME NEW c \in Calls, SweepOrphan(c) PROVE Goal
  BY <1>3, <1>37 DEF SweepOrphan, CallOver
<1> QED
  BY <1>4, <1>5, <1>6, <1>7, <1>8, <1>9, <1>10, <1>11, <1>12, <1>13, <1>14, <1>15, <1>16,
     <1>17, <1>18, <1>19, <1>20, <1>21, <1>22, <1>23, <1>24, <1>25, <1>26, <1>27, <1>28, <1>29,
     <1>30, <1>31, <1>32, <1>33, <1>34, <1>35, <1>36, <1>37
  DEF Next, Tick, Dial, Misfortune

--------------------------------------------------------------------------------------
(* The invariant.                                                                       *)

LEMMA TickInvariant == Spec => []TickInv
<1>1. Init => TickInv
  <2>1. ASSUME Init PROVE TypeOK
    <3>1. <<>> \in Seq(Agents)
      OBVIOUS
    <3> QED BY <2>1, <3>1, Numbers, Values, IdleType
        DEF Init, TypeOK, AgentState, CampaignStatus, ProviderHealthStatus
  <2>2. ASSUME Init PROVE Hands /\ Bindings /\ AcceptedIsActive
    BY <2>1, <2>2, IdleType DEF Init, Hands, HandsOK, Dialling, Bindings, AcceptedIsActive
  <2> QED BY <2>1, <2>2 DEF TickInv
<1>2. ASSUME TickInv, [Next]_vars PROVE TickInv'
  <2>1. CASE Next
    BY <1>2, <2>1, TypeStep, HandsStep, BindingsStep, CallsStep DEF TickInv
  <2>2. CASE UNCHANGED vars
    BY <1>2, <2>2 DEF vars, agentVars, TickInv, TypeOK, Hands, HandsOK, Bindings,
       AcceptedIsActive
  <2> QED BY <1>2, <2>1, <2>2
<1> QED BY <1>1, <1>2, PTL DEF Spec

\* Whatever processes tick, crash, fail and are swept under, the state has its type, and only
\* an agent somebody holds has a lease that can be over.
THEOREM TickTypes == Spec => []TypeOK
<1>1. TickInv => TypeOK
  BY DEF TickInv
<1> QED BY <1>1, TickInvariant, PTL

\* The recorded limit and verdict explain the number of every decision a tick can make.
THEOREM DecisionsAreExplained == Spec => []DecisionIsExplained
<1>1. ASSUME TypeOK PROVE DecisionIsExplained
  <2> SUFFICES ASSUME NEW w \in Processes, NEW late \in BOOLEAN, NEW failing \in BOOLEAN
               PROVE  LET requested == worker[w].requested
                          reading == ReadingOf(w, late, failing)
                          decision == Decision(requested, worker[w].mode, reading)
                      IN IF decision.approved < requested
                         THEN /\ Limits(requested, worker[w].mode, reading)[decision.binding]
                                   = decision.approved
                              /\ decision.verdict # "APPROVED"
                         ELSE /\ decision.binding = NONE
                              /\ decision.verdict \in {"APPROVED", "FALLBACK_PROGRESSIVE"}
    BY DEF DecisionIsExplained
  <2> DEFINE requested == worker[w].requested
             mode == worker[w].mode
             reading == ReadingOf(w, late, failing)
             decision == Decision(requested, mode, reading)
  <2>1. requested \in Nat /\ reading \in Readings
    BY <1>1, ReadingType, Numbers
  <2>2. /\ decision.approved = Approved(requested, mode, reading)
        /\ decision.binding = BindingConstraint(requested, mode, reading)
        /\ decision.verdict \in SafetyVerdict
    BY DEF Decision, Verdict, SafetyVerdict
  <2>3. decision.approved \in Nat /\ decision.approved <= requested
    BY <2>1, <2>2, ApprovedIsLeast
  <2>4. /\ decision.verdict = "APPROVED" => decision.approved = requested
        /\ decision.verdict = "REJECTED" => decision.approved = 0 /\ requested > 0
        /\ decision.verdict = "REDUCED" => decision.approved < requested
    BY <2>1, VerdictIsTrue
  <2>5. ASSUME decision.approved < requested
        PROVE  Limits(requested, mode, reading)[decision.binding] = decision.approved
    BY <2>1, <2>2, <2>5, ReductionIsExplained
  <2>6. ASSUME ~(decision.approved < requested) PROVE decision.binding = NONE
    BY <2>2, <2>6, <2>1, <2>3 DEF BindingConstraint
  <2> HIDE DEF decision, requested, reading, mode
  <2>7. IF decision.approved < requested
        THEN /\ Limits(requested, mode, reading)[decision.binding] = decision.approved
             /\ decision.verdict # "APPROVED"
        ELSE /\ decision.binding = NONE
             /\ decision.verdict \in {"APPROVED", "FALLBACK_PROGRESSIVE"}
    <3>1. CASE decision.approved < requested
      BY <2>1, <2>3, <2>4, <2>5, <3>1
    <3>2. CASE ~(decision.approved < requested)
      BY <2>1, <2>2, <2>3, <2>4, <2>6, <3>2 DEF SafetyVerdict
    <3> QED BY <3>1, <3>2
  <2> QED BY <2>7 DEF decision, requested, reading, mode
<1> QED BY <1>1, TickTypes, PTL

--------------------------------------------------------------------------------------
(* The limit of the campaign.                                                           *)

Active == CallsIn(ACTIVE_CALL_STATES)

LEMMA FewerCalls ==
  ASSUME NoneBecomesActive
  PROVE  Active \in Nat /\ Active' \in Nat /\ Active' <= Active
  <1>1. Active = Cardinality(ActiveCalls) /\ Active' = Cardinality(ActiveCalls')
    BY DEF Active, CallsIn, ActiveCalls
  <1>2. IsFiniteSet(ActiveCalls)
    BY Values, FS_Subset DEF ActiveCalls
  <1>3. IsFiniteSet(ActiveCalls') /\ Cardinality(ActiveCalls') <= Cardinality(ActiveCalls)
    BY <1>2, FS_Subset DEF NoneBecomesActive
  <1> QED BY <1>1, <1>2, <1>3, FS_CardinalityType

LEMMA OneMoreCall ==
  ASSUME NEW c, ActiveCalls' \subseteq ActiveCalls \cup {c}
  PROVE  Active \in Nat /\ Active' \in Nat /\ Active' <= Active + 1
  <1>1. Active = Cardinality(ActiveCalls) /\ Active' = Cardinality(ActiveCalls')
    BY DEF Active, CallsIn, ActiveCalls
  <1>2. IsFiniteSet(ActiveCalls)
    BY Values, FS_Subset DEF ActiveCalls
  <1>3. /\ IsFiniteSet(ActiveCalls \cup {c}) /\ Cardinality(ActiveCalls) \in Nat
        /\ Cardinality(ActiveCalls \cup {c}) \in
             {Cardinality(ActiveCalls), Cardinality(ActiveCalls) + 1}
    BY <1>2, FS_AddElement, FS_CardinalityType
  <1>4. /\ IsFiniteSet(ActiveCalls')
        /\ Cardinality(ActiveCalls') <= Cardinality(ActiveCalls \cup {c})
    BY <1>3, FS_Subset
  <1>5. Cardinality(ActiveCalls') \in Nat
    BY <1>4, FS_CardinalityType
  <1> QED BY <1>1, <1>3, <1>4, <1>5

\* What the loop may still add fits the limit: the count that the decision was made on cannot
\* have grown since, and every call it makes is taken off what it was granted.
Budget(me) ==
  /\ Active <= MaxConcurrentCalls
  /\ me.pc = "calls_read" => Active <= me.active
  /\ me.pc \in {"allocating", "reserved", "initiated", "dialing"} =>
       Active + me.left <= MaxConcurrentCalls
  /\ me.pc \in {"trying", "claimed", "queued"} => Active + me.left + 1 <= MaxConcurrentCalls

LEMMA BudgetKept ==
  ASSUME NEW me \in WorkerState, NEW next \in WorkerState, Budget(me), NoneBecomesActive,
         \/ next.pc \in {"idle", "started", "counted", "requested", "agents_read"}
         \/ next.pc = me.pc /\ next.left = me.left /\ next.active = me.active
         \/ /\ me.pc \in {"trying", "claimed", "queued"} /\ next.left = me.left
            /\ next.pc \in {"allocating", "trying", "claimed", "queued"}
         \/ /\ me.pc \in {"reserved", "initiated", "dialing"} /\ next.left = me.left
            /\ next.pc \in {"allocating", "reserved", "initiated", "dialing"}
  PROVE  Active' <= MaxConcurrentCalls /\ Budget(next)'
  <1>1. /\ me.left \in Nat /\ next.left \in Nat /\ me.active \in Nat /\ next.active \in Nat
        /\ MaxConcurrentCalls \in Nat
    BY Numbers, Values DEF WorkerState
  <1>2. Active \in Nat /\ Active' \in Nat /\ Active' <= Active
    BY FewerCalls
  <1> QED BY <1>1, <1>2 DEF Budget

LEMMA GrantFits ==
  ASSUME TypeOK, NEW w \in Processes, Budget(worker[w]), worker[w].pc = "calls_read",
         NEW late \in BOOLEAN, NEW failing \in BOOLEAN
  PROVE  LET granted == Approved(worker[w].requested, worker[w].mode, ReadingOf(w, late, failing))
         IN granted \in Nat /\ Active + granted <= MaxConcurrentCalls
  <1> DEFINE requested == worker[w].requested
             reading == ReadingOf(w, late, failing)
             granted == Approved(requested, worker[w].mode, reading)
  <1>1. requested \in Nat /\ reading \in Readings
    BY ReadingType, Numbers
  <1>2. reading.active = worker[w].active /\ reading.maxCalls = MaxConcurrentCalls
    BY DEF ReadingOf
  <1>3. granted \in 0 .. requested /\ (granted + reading.active <= reading.maxCalls \/ granted = 0)
    BY <1>1, ApprovalIsBounded
  <1>4. Active <= worker[w].active /\ Active <= MaxConcurrentCalls
    BY DEF Budget
  <1>5. Active \in Nat /\ worker[w].active \in Nat /\ MaxConcurrentCalls \in Nat
    BY CallsAreCounted, Values DEF Active, TypeOK, WorkerState
  <1> HIDE DEF granted, requested, reading
  <1>6. granted \in Nat /\ Active + granted <= MaxConcurrentCalls
    BY <1>1, <1>2, <1>3, <1>4, <1>5
  <1> QED BY <1>6 DEF granted, requested, reading

LEMMA BudgetStep ==
  ASSUME NEW w, Processes = {w}, TypeOK, Budget(worker[w]), Next, TypeOK',
         NoneBecomesActive \/ MarkReserved(w), Hands
  PROVE  Budget(worker[w])'
<1> DEFINE me == worker[w]
           next == worker'[w]
<1>1. w \in Processes /\ me \in WorkerState /\ next \in WorkerState
  BY DEF TypeOK
<1>2. /\ me.left \in Nat /\ next.left \in Nat /\ me.active \in Nat /\ next.active \in Nat
      /\ MaxConcurrentCalls \in Nat
  BY <1>1, Numbers, Values DEF WorkerState
<1>3. NoneBecomesActive => Active \in Nat /\ Active' \in Nat /\ Active' <= Active
  BY FewerCalls
<1>4. ASSUME NoneBecomesActive,
             \/ next.pc \in {"idle", "started", "counted", "requested", "agents_read"}
             \/ next.pc = me.pc /\ next.left = me.left /\ next.active = me.active
             \/ /\ me.pc \in {"trying", "claimed", "queued"} /\ next.left = me.left
                /\ next.pc \in {"allocating", "trying", "claimed", "queued"}
             \/ /\ me.pc \in {"reserved", "initiated", "dialing"} /\ next.left = me.left
                /\ next.pc \in {"allocating", "reserved", "initiated", "dialing"}
      PROVE  Budget(worker[w])'
  <2>1. \A x \in WorkerState : x = next => (Budget(x)' <=> Budget(worker[w])')
    BY DEF Budget
  <2> QED BY <1>1, <1>4, <2>1, BudgetKept
<1>5. UNCHANGED worker /\ NoneBecomesActive => Budget(worker[w])'
  BY <1>4
<1>6. CASE MarkReserved(w)
  <2> DEFINE c == worker[w].call
  <2>1. me.pc = "queued" /\ next.pc = "reserved" /\ next.left = me.left
    BY <1>1, <1>6 DEF MarkReserved, TypeOK, WorkerState
  <2>2. c \in Calls /\ calls' = [calls EXCEPT ![c] = [calls[c] EXCEPT !.state = "RESERVED"]]
    BY <1>1, <1>6 DEF MarkReserved, TypeOK, Hands, HandsOK, Dialling
  <2>3. ActiveCalls' \subseteq ActiveCalls \cup {c}
    BY <2>2 DEF ActiveCalls, TypeOK
  <2>4. Active \in Nat /\ Active' \in Nat /\ Active' <= Active + 1
    BY <2>3, OneMoreCall
  <2> QED BY <1>2, <2>1, <2>4 DEF Budget
<1>7. ASSUME NoneBecomesActive, StartTick(w) PROVE Budget(worker[w])'
  <2>1. next.pc \in {"idle", "started", "counted", "requested", "agents_read"}
    BY <1>1, <1>7, IdleType DEF StartTick, TypeOK, WorkerState, Idle
  <2> QED BY <1>4, <1>7, <2>1
<1>8. ASSUME NoneBecomesActive, SnapshotAgents(w) PROVE Budget(worker[w])'
  <2>1. next.pc \in {"idle", "started", "counted", "requested", "agents_read"}
    BY <1>1, <1>8, IdleType DEF SnapshotAgents, TypeOK, WorkerState, Idle
  <2> QED BY <1>4, <1>8, <2>1
<1>9. ASSUME NoneBecomesActive, ReadAgents(w) PROVE Budget(worker[w])'
  <2>1. next.pc \in {"idle", "started", "counted", "requested", "agents_read"}
    BY <1>1, <1>9, IdleType DEF ReadAgents, TypeOK, WorkerState, Idle
  <2> QED BY <1>4, <1>9, <2>1
<1>10. ASSUME NoneBecomesActive, EndTick(w) PROVE Budget(worker[w])'
  <2>1. next.pc \in {"idle", "started", "counted", "requested", "agents_read"}
    BY <1>1, <1>10, IdleType DEF EndTick, TypeOK, WorkerState, Idle
  <2> QED BY <1>4, <1>10, <2>1
<1>11. ASSUME NoneBecomesActive, TickFails(w) PROVE Budget(worker[w])'
  <2>1. next.pc \in {"idle", "started", "counted", "requested", "agents_read"}
    BY <1>1, <1>11, IdleType DEF TickFails, TypeOK, WorkerState, Idle
  <2> QED BY <1>4, <1>11, <2>1
<1>12. ASSUME NoneBecomesActive, Crash(w) PROVE Budget(worker[w])'
  <2>1. next.pc \in {"idle", "started", "counted", "requested", "agents_read"}
    BY <1>1, <1>12, IdleType DEF Crash, TypeOK, WorkerState, Idle
  <2> QED BY <1>4, <1>12, <2>1
<1>13. ASSUME NEW recent \in Outcomes, NEW previous \in Outcomes, NoneBecomesActive,
     ComputeRequest(w, recent, previous)
      PROVE  Budget(worker[w])'
  <2>1. next.pc = "requested"
    BY <1>1, <1>13 DEF ComputeRequest, TypeOK, Idle
  <2> QED BY <1>4, <1>13, <2>1
<1>14. ASSUME NoneBecomesActive, ClaimAgent(w) PROVE Budget(worker[w])'
  <2>1. /\ me.pc \in {"trying", "claimed", "queued"} /\ next.left = me.left
        /\ next.pc \in {"trying", "claimed", "queued"}
    BY <1>1, <1>14 DEF ClaimAgent, TypeOK, WorkerState
  <2> QED BY <1>4, <1>14, <2>1
<1>15. ASSUME NoneBecomesActive, AgentContended(w) PROVE Budget(worker[w])'
  <2>1. /\ me.pc \in {"trying", "claimed", "queued"} /\ next.left = me.left
        /\ next.pc \in {"trying", "claimed", "queued"}
    BY <1>1, <1>15 DEF AgentContended, TypeOK, WorkerState
  <2> QED BY <1>4, <1>15, <2>1
<1>16. ASSUME NEW c \in Calls, NoneBecomesActive, CreateCall(w, c) PROVE Budget(worker[w])'
  <2>1. /\ me.pc \in {"trying", "claimed", "queued"} /\ next.left = me.left
        /\ next.pc \in {"trying", "claimed", "queued"}
    BY <1>1, <1>16 DEF CreateCall, TypeOK, WorkerState
  <2> QED BY <1>4, <1>16, <2>1
<1>17. ASSUME NoneBecomesActive, NoAgent(w) PROVE Budget(worker[w])'
  <2>1. /\ me.pc \in {"trying", "claimed"}
        /\ next.pc = "idle" \/ (next.pc = "allocating" /\ next.left = me.left)
    BY <1>1, <1>17, IdleType DEF NoAgent, Contended, TypeOK, WorkerState
  <2> QED BY <1>4, <1>17, <2>1
<1>18. ASSUME NoneBecomesActive, NoBorrower(w) PROVE Budget(worker[w])'
  <2>1. /\ me.pc \in {"trying", "claimed"}
        /\ next.pc = "idle" \/ (next.pc = "allocating" /\ next.left = me.left)
    BY <1>1, <1>18, IdleType DEF NoBorrower, Contended, TypeOK, WorkerState
  <2> QED BY <1>4, <1>18, <2>1
<1>19. ASSUME NoneBecomesActive, MarkInitiated(w) PROVE Budget(worker[w])'
  <2>1. /\ me.pc \in {"reserved", "initiated", "dialing"} /\ next.left = me.left
        /\ next.pc \in {"allocating", "reserved", "initiated", "dialing"}
    BY <1>1, <1>19 DEF MarkInitiated, NextDial, TypeOK, WorkerState
  <2> QED BY <1>4, <1>19, <2>1
<1>20. ASSUME NoneBecomesActive, MarkDialing(w) PROVE Budget(worker[w])'
  <2>1. /\ me.pc \in {"reserved", "initiated", "dialing"} /\ next.left = me.left
        /\ next.pc \in {"allocating", "reserved", "initiated", "dialing"}
    BY <1>1, <1>20 DEF MarkDialing, NextDial, TypeOK, WorkerState
  <2> QED BY <1>4, <1>20, <2>1
<1>21. ASSUME NoneBecomesActive, Originate(w) PROVE Budget(worker[w])'
  <2>1. /\ me.pc \in {"reserved", "initiated", "dialing"} /\ next.left = me.left
        /\ next.pc \in {"allocating", "reserved", "initiated", "dialing"}
    BY <1>1, <1>21 DEF Originate, NextDial, TypeOK, WorkerState
  <2> QED BY <1>4, <1>21, <2>1
<1>22. ASSUME NoneBecomesActive, OriginateFails(w) PROVE Budget(worker[w])'
  <2>1. /\ me.pc \in {"reserved", "initiated", "dialing"} /\ next.left = me.left
        /\ next.pc \in {"allocating", "reserved", "initiated", "dialing"}
    BY <1>1, <1>22 DEF OriginateFails, NextDial, TypeOK, WorkerState
  <2> QED BY <1>4, <1>22, <2>1
<1>23. ASSUME NoneBecomesActive, ReadCalls(w) PROVE Budget(worker[w])'
  <2>1. next.pc = "calls_read" /\ next.active = Active /\ calls' = calls
    BY <1>1, <1>23 DEF ReadCalls, TypeOK, WorkerState, Active
  <2>2. Active' <= Active
    BY <1>3, <1>23
  <2> QED BY <1>2, <1>3, <1>23, <2>1, <2>2 DEF Budget
<1>24. ASSUME NoneBecomesActive, Evaluate(w) PROVE Budget(worker[w])'
  <2>1. PICK late \in BOOLEAN, failing \in BOOLEAN :
          Allocate(w, Approved(me.requested, me.mode, ReadingOf(w, late, failing)))
    BY <1>24 DEF Evaluate
  <2> DEFINE granted == Approved(me.requested, me.mode, ReadingOf(w, late, failing))
  <2>2. granted \in Nat /\ Active + granted <= MaxConcurrentCalls
    BY <1>1, <1>24, GrantFits DEF Evaluate
  <2>3. next.pc = "allocating" /\ next.left = granted
    BY <1>1, <2>1 DEF Allocate, TypeOK, Idle
  <2> HIDE DEF granted
  <2> QED BY <1>2, <1>3, <1>24, <2>2, <2>3 DEF Budget
<1>25. ASSUME NoneBecomesActive, EvaluateLate(w) PROVE Budget(worker[w])'
  <2>1. PICK late \in BOOLEAN, failing \in BOOLEAN :
          Allocate(w, Approved(me.requested, me.mode, ReadingOf(w, late, failing)))
    BY <1>25 DEF EvaluateLate
  <2> DEFINE granted == Approved(me.requested, me.mode, ReadingOf(w, late, failing))
  <2>2. granted \in Nat /\ Active + granted <= MaxConcurrentCalls
    BY <1>1, <1>25, GrantFits DEF EvaluateLate
  <2>3. next.pc = "allocating" /\ next.left = granted
    BY <1>1, <2>1 DEF Allocate, TypeOK, Idle
  <2> HIDE DEF granted
  <2> QED BY <1>2, <1>3, <1>25, <2>2, <2>3 DEF Budget
<1>26. ASSUME NoneBecomesActive, EvaluationFails(w) PROVE Budget(worker[w])'
  <2>1. next.pc = "allocating" /\ next.left = 0
    BY <1>1, <1>26 DEF EvaluationFails, Allocate, RejectedByError, TypeOK, Idle
  <2> QED BY <1>2, <1>3, <1>26, <2>1 DEF Budget
<1>27. ASSUME NoneBecomesActive, FindAgents(w) PROVE Budget(worker[w])'
  <2>1. me.pc = "allocating" /\ next.pc = "trying" /\ next.left + 1 = me.left
    BY <1>1, <1>2, <1>27 DEF FindAgents, TypeOK, WorkerState
  <2> QED BY <1>2, <1>3, <1>27, <2>1 DEF Budget
<1>28. ASSUME NEW a \in Agents, NoneBecomesActive, Login(a) PROVE Budget(worker[w])'
  BY <1>5, <1>28 DEF Login
<1>29. ASSUME NEW a \in Agents, NoneBecomesActive, Leave(a) PROVE Budget(worker[w])'
  BY <1>5, <1>29 DEF Leave
<1>30. ASSUME NEW a \in Agents, NoneBecomesActive, WrapUpEnds(a) PROVE Budget(worker[w])'
  BY <1>5, <1>30 DEF WrapUpEnds
<1>31. ASSUME NEW a \in Agents, NoneBecomesActive, LeaseLapses(a) PROVE Budget(worker[w])'
  BY <1>5, <1>31 DEF LeaseLapses
<1>32. ASSUME NEW a \in Agents, NoneBecomesActive, SweepLease(a) PROVE Budget(worker[w])'
  BY <1>5, <1>32 DEF SweepLease
<1>33. ASSUME NEW c \in Calls, NoneBecomesActive, SweepOrphan(c) PROVE Budget(worker[w])'
  BY <1>5, <1>33 DEF SweepOrphan
<1>34. ASSUME NEW c \in Calls, NEW target \in CallState, NoneBecomesActive, Progress(c, target)
      PROVE  Budget(worker[w])'
  BY <1>5, <1>34 DEF Progress
<1>35. ASSUME NEW c \in Calls, NEW target \in CallState, NoneBecomesActive, End(c, target)
      PROVE  Budget(worker[w])'
  BY <1>5, <1>35 DEF End
<1>36. ASSUME NEW status \in CampaignStatus, NoneBecomesActive, ChangeStatus(status)
      PROVE  Budget(worker[w])'
  BY <1>5, <1>36 DEF ChangeStatus
<1>37. ASSUME NEW mode \in DialingMode, NoneBecomesActive, SetMode(mode)
      PROVE  Budget(worker[w])'
  BY <1>5, <1>37 DEF SetMode
<1>38. ASSUME NEW status \in ProviderHealthStatus, NoneBecomesActive, HealthWorsens(w, status)
      PROVE  Budget(worker[w])'
  BY <1>5, <1>38 DEF HealthWorsens
<1>39. ASSUME NoneBecomesActive, HealthRecovers(w) PROVE Budget(worker[w])'
  BY <1>5, <1>39 DEF HealthRecovers
<1> QED
  BY <1>6, <1>7, <1>8, <1>9, <1>10, <1>11, <1>12, <1>13, <1>14, <1>15, <1>16, <1>17, <1>18,
     <1>19, <1>20, <1>21, <1>22, <1>23, <1>24, <1>25, <1>26, <1>27, <1>28, <1>29, <1>30, <1>31,
     <1>32, <1>33, <1>34, <1>35, <1>36, <1>37, <1>38, <1>39
  DEF Next, Tick, Dial, Misfortune

\* With one process, the calls of a campaign never exceed max_concurrent_calls, however long
\* ago they were counted when the limit was applied.  A second process ends this: both count
\* before either dials.
THEOREM OneLoopKeepsTheLimit ==
  ASSUME NEW w, Processes = {w}
  PROVE  Spec => []ConcurrencyRespected
<1>1. ASSUME Init PROVE Budget(worker[w])
  <2>1. worker[w].pc = "idle" /\ ActiveCalls = {}
    BY <1>1, IdleType DEF Init, ActiveCalls
  <2>2. Active = 0
    BY <2>1, FS_EmptySet DEF Active, CallsIn, ActiveCalls
  <2> QED BY <2>1, <2>2, Values DEF Budget
<1>2. ASSUME TickInv, TickInv', Budget(worker[w]), [Next]_vars PROVE Budget(worker[w])'
  <2>1. CASE Next
    <3>1. NoneBecomesActive \/ MarkReserved(w)
      BY <1>2, <2>1, CallsStep DEF TickInv
    <3> QED BY <1>2, <2>1, <3>1, BudgetStep DEF TickInv
  <2>2. CASE UNCHANGED vars
    BY <1>2, <2>2 DEF vars, Budget, Active, CallsIn
  <2> QED BY <1>2, <2>1, <2>2
<1>3. Budget(worker[w]) => ConcurrencyRespected
  BY DEF Budget, ConcurrencyRespected, Active, ACTIVE_CALL_STATES
<1> QED BY <1>1, <1>2, <1>3, TickInvariant, PTL DEF Spec
=======================================================================================
