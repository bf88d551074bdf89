---------------------------------- MODULE DialerTick ----------------------------------
(* The loop that decides how much to dial: DialerWorker, DialerBase.tick, the snapshot     *)
(* builder, the safety controller and CallAllocator.allocate.  Nothing of it is atomic:     *)
(* agents and calls are counted by separate queries, first for the request and again for    *)
(* the decision, and dialled one by one while calls, agents, operators and the loops of      *)
(* other processes go on.  What Dialing takes apart is coarse here: a dial is a few steps,   *)
(* an event with its effect on the agent is one, and borrowers are in good supply.           *)
EXTENDS SafetyController, AgentStateMachine, CallStateMachine, SequencesExt

CONSTANTS Agents,
          Calls,                \* bound: slots for calls that are not terminal
          Processes,            \* each runs one DialerWorker
          MaxConcurrentCalls,   \* Campaign.max_concurrent_calls
          MAX_CONSECUTIVE_CONTENTIONS,
          DROP_PERCENT,         \* Settings.AVAILABILITY_DROP_THRESHOLD
          MaxOutcomes,          \* bound: calls that ended in a window of the answer rate
          Modes,                \* the dialing modes the campaign may start in
          NULL,
          GONE,                 \* the worker ids of processes that died
          MaxFaults             \* bound: crashes, errors, operators' changes, departures

ASSUME TickAssumption ==
  /\ IsFiniteSet(Agents) /\ IsFiniteSet(Calls)
  /\ MaxConcurrentCalls \in Nat /\ MAX_CONSECUTIVE_CONTENTIONS \in Nat \ {0}
  /\ MaxOutcomes \in Nat /\ Modes \subseteq DialingMode
  /\ DROP_PERCENT \in 0 .. 100
  /\ MaxFaults \in Nat /\ NULL \notin Agents \cup Calls \cup Processes \cup {GONE}

OpenCallStates == CallState \ TERMINAL_CALL_STATES

ACTIVE_CALL_STATES_bug == {"RINGING", "ANSWERED", "CONNECTED"}

ACTIVE_CALL_STATES == {"RESERVED", "INITIATED", "RINGING", "ANSWERED", "CONNECTED"}

VARIABLES agents,             \* the state of each agent
          idle,               \* the AVAILABLE ones by state_changed_at
          holder,             \* reserved_by of each agent
          boundTo,            \* current_call_id of each agent, unless that call is over
          expired,            \* agents whose lease is over
          calls,              \* call in each slot: state, agent, worker, accepted or not
          campaign,           \* its status and dialing mode
          health,             \* what each process thinks of the provider
          tracker,            \* AgentAvailabilityTracker of each process
          worker,             \* where each loop is and what it remembers
          faults              \* how many faults are still to come

agentVars == <<agents, idle, holder, boundTo, expired>>
vars == <<agentVars, calls, campaign, health, tracker, worker, faults>>

Idle == [ pc |-> "idle", mode |-> "PROGRESSIVE", available |-> 0, reserved |-> 0,
          soonFree |-> 0, active |-> 0, ringing |-> 0, requested |-> 0, left |-> 0,
          contended |-> 0, cand |-> <<>>, agent |-> NULL, call |-> NULL ]

Dialling == {"queued", "reserved", "initiated", "dialing"}     \* with a call

Headcounts == 0 .. Cardinality(Agents)
Requests == 0 .. MAX_REQUEST_PER_TICK
Contentions == 0 .. MAX_CONSECUTIVE_CONTENTIONS - 1

WorkerState ==
  [ pc : {"idle", "started", "counted", "requested", "agents_read", "calls_read", "allocating",
          "trying", "claimed"} \cup Dialling,
    mode : DialingMode, available : Headcounts, reserved : Nat, soonFree : Nat,
    active : Nat, ringing : Nat, requested : Requests, left : Requests,
    contended : Contentions, cand : Seq(Agents),
    agent : Agents \cup {NULL}, call : Calls \cup {NULL} ]

OpenCall == [ state : OpenCallStates, agent : Agents, worker : Processes \cup {GONE},
              accepted : BOOLEAN ]

ASSUME CallAssumption == NULL \notin OpenCall

CampaignStatus == {"RUNNING", "PAUSED", "STOPPED"}

\* The state has its type; only an agent somebody holds has a lease that can be over, or
\* safety would reject every request for it.
TypeOK ==
  /\ agents \in [Agents -> AgentState]
  /\ idle \in Seq(Agents)
  /\ holder \in [Agents -> Processes \cup {NULL, GONE}]
  /\ boundTo \in [Agents -> Calls \cup {NULL}]
  /\ expired \subseteq { a \in Agents : holder[a] # NULL }
  /\ calls \in [Calls -> OpenCall \cup {NULL}]
  /\ campaign \in [status : CampaignStatus, mode : DialingMode]
  /\ health \in [Processes -> ProviderHealthStatus]
  /\ tracker \in [Processes -> Headcounts]
  /\ worker \in [Processes -> WorkerState]
  /\ faults \in 0 .. MaxFaults

Init ==
  /\ agents = [a \in Agents |-> "OFFLINE"]
  /\ idle = <<>>
  /\ holder = [a \in Agents |-> NULL]
  /\ boundTo = [a \in Agents |-> NULL]
  /\ expired = {}
  /\ calls = [c \in Calls |-> NULL]
  /\ campaign \in [status : {"RUNNING"}, mode : Modes]
  /\ health = [w \in Processes |-> "HEALTHY"]
  /\ tracker = [w \in Processes |-> 0]
  /\ worker = [w \in Processes |-> Idle]
  /\ faults = MaxFaults

AgentsIn(state) == Cardinality({ a \in Agents : agents[a] = state })
CallsIn(states) == Cardinality({ c \in Calls : calls[c] # NULL /\ calls[c].state \in states })

Fault == faults > 0 /\ faults' = faults - 1

--------------------------------------------------------------------------------------
(* Agents change hands.  An agent that becomes AVAILABLE is the last in line.              *)

BecomesAvailable_bug(a) ==                 \* the lease stays on the agent
  /\ agents' = [agents EXCEPT ![a] = "AVAILABLE"]
  /\ idle' = Append(idle, a)
  /\ holder' = [holder EXCEPT ![a] = NULL]
  /\ boundTo' = [boundTo EXCEPT ![a] = NULL]
  /\ UNCHANGED expired

\* release_agent, release_expired_agent_lease and the timers: a joins the line.
BecomesAvailable(a) ==
  /\ agents' = [agents EXCEPT ![a] = "AVAILABLE"]
  /\ idle' = Append(idle, a)
  /\ holder' = [holder EXCEPT ![a] = NULL]
  /\ boundTo' = [boundTo EXCEPT ![a] = NULL]
  /\ expired' = expired \ {a}

Becomes(a, state) ==
  /\ agents' = [agents EXCEPT ![a] = state]
  /\ idle' = RemoveFirst(idle, a)

Login(a) ==
  /\ agents[a] = "OFFLINE"
  /\ BecomesAvailable(a)
  /\ UNCHANGED <<calls, campaign, health, tracker, worker, faults>>

\* As take_agents_offline of the simulation does; Dialing has departures in mid-call.
Leave(a) ==
  /\ agents[a] = "AVAILABLE"
  /\ Fault
  /\ Becomes(a, "OFFLINE")
  /\ UNCHANGED <<holder, boundTo, expired, calls, campaign, health, tracker, worker>>

\* DialerWorker._release_finished_wrap_ups, or the recovery worker for a stuck one.
WrapUpEnds(a) ==
  /\ agents[a] = "WRAP_UP"
  /\ BecomesAvailable(a)
  /\ UNCHANGED <<calls, campaign, health, tracker, worker, faults>>

--------------------------------------------------------------------------------------
(* A tick: snapshot, request, decision.                                                   *)

StartTick_bug(w) ==                        \* any campaign ticks
  /\ worker[w].pc = "idle"
  /\ worker' = [worker EXCEPT ![w] = [Idle EXCEPT !.pc = "started", !.mode = campaign.mode]]
  /\ UNCHANGED <<agentVars, calls, campaign, health, tracker, faults>>

\* find_running: the tick goes on with the campaign as it was read.
StartTick(w) ==
  /\ worker[w].pc = "idle" /\ campaign.status = "RUNNING"
  /\ worker' = [worker EXCEPT ![w] = [Idle EXCEPT !.pc = "started", !.mode = campaign.mode]]
  /\ UNCHANGED <<agentVars, calls, campaign, health, tracker, faults>>

\* build_snapshot, its first query.
SnapshotAgents(w) ==
  /\ worker[w].pc = "started"
  /\ worker' = [worker EXCEPT ![w].pc = "counted", ![w].available = AgentsIn("AVAILABLE"),
                  ![w].reserved = AgentsIn("RESERVED"), ![w].soonFree = AgentsIn("WRAP_UP")]
  /\ UNCHANGED <<agentVars, calls, campaign, health, tracker, faults>>

\* outcome_counts_between; MaxOutcomes is enough for a window without a rate and for all
\* rates that differ by more or less than the threshold.
Outcomes == { window \in [answered : 0 .. MaxOutcomes, total : 0 .. MaxOutcomes] :
                window.answered <= window.total }

\* Its other queries, and compute_request.  long: agents CONNECTED longer than the average.
ComputeRequest(w, recent, previous) ==
  LET me == worker[w] IN
  /\ me.pc = "counted"
  /\ \E long \in 0 .. AgentsIn("CONNECTED") :
       LET snapshot == [ available |-> me.available, soonFree |-> me.soonFree + long,
                         inFlight |-> CallsIn({"RINGING", "INITIATED"}) + me.reserved,
                         health |-> health[w], recent |-> recent, previous |-> previous ]
       IN worker' = [worker EXCEPT ![w] = [Idle EXCEPT !.pc = "requested", !.mode = me.mode,
                       !.requested = compute_request(snapshot, me.mode)]]
  /\ UNCHANGED <<agentVars, calls, campaign, health, tracker, faults>>

\* _read_capacity: agents and calls are counted again, one after the other.
ReadAgents(w) ==
  /\ worker[w].pc = "requested"
  /\ worker' = [worker EXCEPT ![w].pc = "agents_read", ![w].available = AgentsIn("AVAILABLE"),
                              ![w].reserved = AgentsIn("RESERVED")]
  /\ UNCHANGED <<agentVars, calls, campaign, health, tracker, faults>>

ReadCalls(w) ==
  /\ worker[w].pc = "agents_read"
  /\ worker' = [worker EXCEPT ![w].pc = "calls_read", ![w].active = CallsIn(ACTIVE_CALL_STATES),
                              ![w].ringing = CallsIn({"RINGING"})]
  /\ UNCHANGED <<agentVars, calls, campaign, health, tracker, faults>>

\* record_and_detect.
Dropped(previous, available) == (previous - available) * 100 > DROP_PERCENT * previous

ReadingOf(w, late, failing) ==
  [ available |-> worker[w].available, reserved |-> worker[w].reserved,
    active |-> worker[w].active, ringing |-> worker[w].ringing,
    maxCalls |-> MaxConcurrentCalls, health |-> health[w],
    stale |-> late \/ expired # {}, failing |-> failing,
    dropped |-> tracker[w] > worker[w].available /\ Dropped(tracker[w], worker[w].available) ]

Allocate(w, approved) ==
  worker' = [worker EXCEPT ![w] = [Idle EXCEPT !.pc = "allocating", !.left = approved]]

Evaluate(w) ==
  /\ worker[w].pc = "calls_read"
  /\ \E failing \in BOOLEAN :
       Allocate(w, Approved(worker[w].requested, worker[w].mode, ReadingOf(w, FALSE, failing)))
  /\ tracker' = [tracker EXCEPT ![w] = worker[w].available]
  /\ UNCHANGED <<agentVars, calls, campaign, health, faults>>

\* By now the snapshot is older than MAX_SNAPSHOT_AGE_SECONDS.
EvaluateLate(w) ==
  /\ worker[w].pc = "calls_read"
  /\ Fault
  /\ Allocate(w, Approved(worker[w].requested, worker[w].mode, ReadingOf(w, TRUE, FALSE)))
  /\ tracker' = [tracker EXCEPT ![w] = worker[w].available]
  /\ UNCHANGED <<agentVars, calls, campaign, health>>

\* A query of the evaluation raises.
EvaluationFails(w) ==
  /\ worker[w].pc \in {"requested", "agents_read", "calls_read"}
  /\ Fault
  /\ Allocate(w, RejectedByError.approved)
  /\ UNCHANGED <<agentVars, calls, campaign, health, tracker>>

--------------------------------------------------------------------------------------
(* The tick dials: CallAllocator.allocate.                                                *)

EndTick(w) ==
  /\ worker[w].pc = "allocating" /\ worker[w].left = 0
  /\ worker' = [worker EXCEPT ![w] = Idle]
  /\ UNCHANGED <<agentVars, calls, campaign, health, tracker, faults>>

FindAgents_bug(w) ==                       \* no order
  /\ worker[w].pc = "allocating" /\ worker[w].left > 0
  /\ \E a \in Agents :
       /\ agents[a] = "AVAILABLE"
       /\ worker' = [worker EXCEPT ![w].pc = "trying", ![w].left = @ - 1, ![w].cand = <<a>>]
  /\ UNCHANGED <<agentVars, calls, campaign, health, tracker, faults>>

\* find_claimable_agents: whoever has waited longest comes first.
FindAgents(w) ==
  LET window == IF Len(idle) < 3 THEN Len(idle) ELSE 3 IN
  /\ worker[w].pc = "allocating" /\ worker[w].left > 0
  /\ worker' = [worker EXCEPT ![w].pc = "trying", ![w].left = @ - 1,
                              ![w].cand = SubSeq(idle, 1, window)]
  /\ UNCHANGED <<agentVars, calls, campaign, health, tracker, faults>>

ClaimAgent(w) ==
  LET a == Head(worker[w].cand) IN
  /\ worker[w].pc = "trying" /\ worker[w].cand # <<>>
  /\ agents[a] = "AVAILABLE"
  /\ Becomes(a, "RESERVED")
  /\ holder' = [holder EXCEPT ![a] = w]
  /\ worker' = [worker EXCEPT ![w].pc = "claimed", ![w].agent = a, ![w].cand = <<>>]
  /\ UNCHANGED <<boundTo, expired, calls, campaign, health, tracker, faults>>

AgentContended(w) ==
  /\ worker[w].pc = "trying" /\ worker[w].cand # <<>>
  /\ agents[Head(worker[w].cand)] # "AVAILABLE"
  /\ worker' = [worker EXCEPT ![w].cand = Tail(@)]
  /\ UNCHANGED <<agentVars, calls, campaign, health, tracker, faults>>

\* reserve_pair returned nothing; too many times in a row end the tick.
Contended(w) ==
  IF worker[w].contended + 1 = MAX_CONSECUTIVE_CONTENTIONS THEN Idle
  ELSE [ worker[w] EXCEPT !.pc = "allocating", !.contended = @ + 1, !.agent = NULL ]

NoAgent(w) ==
  /\ worker[w].pc = "trying" /\ worker[w].cand = <<>>
  /\ worker' = [worker EXCEPT ![w] = Contended(w)]
  /\ UNCHANGED <<agentVars, calls, campaign, health, tracker, faults>>

\* release_agent: by the worker id that reserved the agent, from the states the actor may
\* leave for the target.
Release(a, owner, target, actor) ==
  IF holder[a] = owner /\ agents[a] \in allowed_sources(target, actor)
  THEN IF target = "AVAILABLE" THEN BecomesAvailable(a)
       ELSE /\ Becomes(a, target)
            /\ holder' = [holder EXCEPT ![a] = NULL]
            /\ boundTo' = [boundTo EXCEPT ![a] = NULL]
            /\ expired' = expired \ {a}
  ELSE UNCHANGED agentVars

ReleaseOwn(w) == Release(worker[w].agent, w, "AVAILABLE", "ALLOCATOR")

NoBorrower(w) ==
  /\ worker[w].pc = "claimed"
  /\ Fault
  /\ ReleaseOwn(w)
  /\ worker' = [worker EXCEPT ![w] = Contended(w)]
  /\ UNCHANGED <<calls, campaign, health, tracker>>

CreateCall(w, c) ==
  /\ worker[w].pc = "claimed" /\ calls[c] = NULL
  /\ \A v \in Processes : worker[v].call # c
  /\ calls' = [calls EXCEPT ![c] = [ state |-> "QUEUED", agent |-> worker[w].agent,
                                     worker |-> w, accepted |-> FALSE ]]
  /\ worker' = [worker EXCEPT ![w].pc = "queued", ![w].call = c, ![w].contended = 0]
  /\ UNCHANGED <<agentVars, campaign, health, tracker, faults>>

MarkReserved(w) ==
  /\ worker[w].pc = "queued"
  /\ calls' = [calls EXCEPT ![worker[w].call].state = "RESERVED"]
  /\ worker' = [worker EXCEPT ![w].pc = "reserved"]
  /\ UNCHANGED <<agentVars, campaign, health, tracker, faults>>

MarkInitiated(w) ==
  /\ worker[w].pc = "reserved"
  /\ calls' = [calls EXCEPT ![worker[w].call].state = "INITIATED"]
  /\ worker' = [worker EXCEPT ![w].pc = "initiated"]
  /\ UNCHANGED <<agentVars, campaign, health, tracker, faults>>

\* RESERVED -> DIALING and bind_call; both are skipped if the agent has been taken away.
\* Only w can have made it RESERVED for w, so the version adds nothing to the owner.
MarkDialing(w) ==
  LET a == worker[w].agent IN
  /\ worker[w].pc = "initiated"
  /\ IF holder[a] = w /\ agents[a] = "RESERVED" THEN Becomes(a, "DIALING")
     ELSE UNCHANGED <<agents, idle>>
  /\ boundTo' = IF holder[a] = w THEN [boundTo EXCEPT ![a] = worker[w].call] ELSE boundTo
  /\ worker' = [worker EXCEPT ![w].pc = "dialing"]
  /\ UNCHANGED <<holder, expired, calls, campaign, health, tracker, faults>>

NextDial(w) ==
  worker' = [worker EXCEPT ![w].pc = "allocating", ![w].agent = NULL, ![w].call = NULL]

\* The call in c is over and its agent released, if owner still has it reserved.  The
\* current_call_id of an agent that is not released means nothing any more.
CallOver(c, a, owner, target, actor) ==
  /\ calls' = [calls EXCEPT ![c] = NULL]
  /\ IF holder[a] = owner /\ agents[a] \in allowed_sources(target, actor)
     THEN Release(a, owner, target, actor)
     ELSE /\ boundTo' = [x \in Agents |-> IF boundTo[x] = c THEN NULL ELSE boundTo[x]]
          /\ UNCHANGED <<agents, idle, holder, expired>>

\* The provider accepts the call, unless recovery has ended it.
Originate(w) ==
  LET c == worker[w].call IN
  /\ worker[w].pc = "dialing"
  /\ calls' = IF calls[c] = NULL THEN calls ELSE [calls EXCEPT ![c].accepted = TRUE]
  /\ NextDial(w)
  /\ UNCHANGED <<agentVars, campaign, health, tracker, faults>>

\* It rejects it or does not answer in time: the call has FAILED, the pair is released.
OriginateFails(w) ==
  /\ worker[w].pc = "dialing"
  /\ CallOver(worker[w].call, worker[w].agent, w, "AVAILABLE", "ALLOCATOR")
  /\ NextDial(w)
  /\ UNCHANGED <<campaign, health, tracker, faults>>

\* A query of the dial raises: the tick ends there, the rest is left to recovery.
TickFails(w) ==
  /\ worker[w].pc \in {"started", "counted", "claimed", "queued", "reserved", "initiated", "dialing"}
  /\ Fault
  /\ worker' = [worker EXCEPT ![w] = Idle]
  /\ UNCHANGED <<agentVars, calls, campaign, health, tracker>>

\* The process dies and starts anew, under another worker id.
Crash(w) ==
  /\ Fault
  /\ worker' = [worker EXCEPT ![w] = Idle]
  /\ health' = [health EXCEPT ![w] = "HEALTHY"]
  /\ tracker' = [tracker EXCEPT ![w] = 0]
  /\ holder' = [a \in Agents |-> IF holder[a] = w THEN GONE ELSE holder[a]]
  /\ calls' = [c \in Calls |-> IF calls[c] # NULL /\ calls[c].worker = w
                               THEN [calls[c] EXCEPT !.worker = GONE] ELSE calls[c]]
  /\ UNCHANGED <<agents, idle, boundTo, expired, campaign>>

--------------------------------------------------------------------------------------
(* Calls go on, and end.                                                                  *)

\* An event moves the call on; an answered one connects its agent, whoever reserved it.
Progress(c, target) ==
  LET call == calls[c] IN
  /\ call # NULL /\ call.accepted /\ ~is_terminal(target)
  /\ should_apply_event(call.state, target) = "APPLY"
  /\ calls' = [calls EXCEPT ![c].state = target]
  /\ IF target \in {"ANSWERED", "CONNECTED"} /\ agents[call.agent] = "DIALING"
     THEN Becomes(call.agent, "CONNECTED") ELSE UNCHANGED <<agents, idle>>
  /\ UNCHANGED <<holder, boundTo, expired, campaign, health, tracker, worker, faults>>

End(c, target) ==
  LET call == calls[c] IN
  /\ call # NULL /\ call.accepted /\ is_terminal(target)
  /\ should_apply_event(call.state, target) = "APPLY"
  /\ CallOver(c, call.agent, call.worker, AGENT_STATE_FOR_CALL_STATE[target], "EVENT_PROCESSOR")
  /\ UNCHANGED <<campaign, health, tracker, worker, faults>>

\* _sweep_orphaned_calls: CALL_STALE_TIMEOUT_SECONDS exceed any dial in progress.
SweepOrphan(c) ==
  /\ calls[c] # NULL /\ \A w \in Processes : worker[w].call # c
  /\ CallOver(c, calls[c].agent, calls[c].worker, "AVAILABLE", "RECOVERY")
  /\ UNCHANGED <<campaign, health, tracker, worker, faults>>

\* RESERVATION_TTL_SECONDS after the claim, whatever the agent does: nothing renews it.
LeaseLapses(a) ==
  /\ holder[a] # NULL /\ a \notin expired
  /\ expired' = expired \cup {a}
  /\ UNCHANGED <<agents, idle, holder, boundTo, calls, campaign, health, tracker, worker, faults>>

\* _sweep_expired_agent_leases: the bound call is CANCELLED and the agent AVAILABLE.
SweepLease(a) ==
  /\ a \in expired /\ agents[a] \in allowed_sources("AVAILABLE", "RECOVERY")
  /\ calls' = IF boundTo[a] = NULL THEN calls ELSE [calls EXCEPT ![boundTo[a]] = NULL]
  /\ BecomesAvailable(a)
  /\ UNCHANGED <<campaign, health, tracker, worker, faults>>

--------------------------------------------------------------------------------------
(* Operators and the provider.                                                            *)

ChangeStatus(status) ==
  /\ campaign.status # status
  /\ Fault
  /\ campaign' = [campaign EXCEPT !.status = status]
  /\ UNCHANGED <<agentVars, calls, health, tracker, worker>>

SetMode(mode) ==
  /\ campaign.mode # mode
  /\ Fault
  /\ campaign' = [campaign EXCEPT !.mode = mode]
  /\ UNCHANGED <<agentVars, calls, health, tracker, worker>>

HealthWorsens(w, status) ==
  /\ health[w] = "HEALTHY" /\ status # "HEALTHY"
  /\ Fault
  /\ health' = [health EXCEPT ![w] = status]
  /\ UNCHANGED <<agentVars, calls, campaign, tracker, worker>>

\* The bad samples leave the window of ProviderHealthManager.
HealthRecovers(w) ==
  /\ health[w] # "HEALTHY"
  /\ health' = [health EXCEPT ![w] = "HEALTHY"]
  /\ UNCHANGED <<agentVars, calls, campaign, tracker, worker, faults>>

--------------------------------------------------------------------------------------
Dial(w) ==
  \/ FindAgents(w) \/ ClaimAgent(w) \/ AgentContended(w) \/ NoAgent(w)
  \/ \E c \in Calls : CreateCall(w, c)
  \/ MarkReserved(w) \/ MarkInitiated(w) \/ MarkDialing(w)
  \/ Originate(w) \/ OriginateFails(w)

\* What the loop does of itself.
Tick(w) ==
  \/ StartTick(w) \/ SnapshotAgents(w) \/ ReadAgents(w) \/ ReadCalls(w)
  \/ \E recent, previous \in Outcomes : ComputeRequest(w, recent, previous)
  \/ Evaluate(w) \/ EndTick(w) \/ Dial(w)

Misfortune(w) ==
  \/ EvaluateLate(w) \/ EvaluationFails(w) \/ NoBorrower(w) \/ TickFails(w) \/ Crash(w)
  \/ \E status \in ProviderHealthStatus : HealthWorsens(w, status)

Next ==
  \/ \E w \in Processes : Tick(w) \/ Misfortune(w) \/ HealthRecovers(w)
  \/ \E a \in Agents : Login(a) \/ Leave(a) \/ WrapUpEnds(a) \/ LeaseLapses(a) \/ SweepLease(a)
  \/ \E c \in Calls : SweepOrphan(c)
  \/ \E c \in Calls, target \in CallState : Progress(c, target) \/ End(c, target)
  \/ \E status \in CampaignStatus : ChangeStatus(status)
  \/ \E mode \in DialingMode : SetMode(mode)

\* The asyncio loops of a process go on and so do recovery and the provider.  Answer rates
\* differ for ever only if there are calls for ever: a window without a call has no rate.
Fairness ==
  /\ \A w \in Processes :
       /\ WF_vars(Tick(w))
       /\ SF_vars(\E recent, previous \in Outcomes :
                    ~is_volatile(recent, previous) /\ ComputeRequest(w, recent, previous))
       /\ WF_vars(HealthRecovers(w))
  /\ WF_vars(\E a \in Agents : WrapUpEnds(a) \/ LeaseLapses(a) \/ SweepLease(a))
  /\ WF_vars(\E c \in Calls : SweepOrphan(c) \/ \E target \in CallState : End(c, target))

Spec == Init /\ [][Next]_vars
FairSpec == Spec /\ Fairness

--------------------------------------------------------------------------------------
\* The calls of a campaign that occupy the provider never exceed max_concurrent_calls.  The
\* limit is applied to a count of calls made two queries earlier (SafetyController) and the
\* calls are made one by one afterwards, with no further look at it (CallAllocator).
ConcurrencyRespected ==
  CallsIn({"RESERVED", "INITIATED", "RINGING", "ANSWERED", "CONNECTED"}) <= MaxConcurrentCalls

\* What is recorded of a decision is what it was made of, whatever a tick finds: less than the
\* request is approved only in the name of the limit that gave this number, and a request that
\* is let through in full names none (_mark_binding and _verdict are computed apart from it).
DecisionIsExplained ==
  \A w \in Processes : worker[w].pc = "calls_read" =>
    \A late, failing \in BOOLEAN :
      LET requested == worker[w].requested
          reading == ReadingOf(w, late, failing)
          decision == Decision(requested, worker[w].mode, reading)
      IN IF decision.approved < requested
         THEN /\ Limits(requested, worker[w].mode, reading)[decision.binding] = decision.approved
              /\ decision.verdict # "APPROVED"
         ELSE /\ decision.binding = NONE
              /\ decision.verdict \in {"APPROVED", "FALLBACK_PROGRESSIVE"}

\* An agent waiting in a running progressive campaign is not passed over for ever: the
\* request, its reduction, the order of find_claimable_agents and the recovery of everything
\* that blocks dialling together see to it.
IdleAgentsAreUsed ==
  \A a \in Agents : agents[a] = "AVAILABLE"
    ~> \/ agents[a] # "AVAILABLE"
       \/ campaign.status # "RUNNING" \/ campaign.mode # "PROGRESSIVE"

\* A campaign that is paused or stopped for good comes to rest: what the current tick had
\* approved is still dialled (only find_running looks at the status), nothing after that, and
\* no call or agent stays occupied.
HaltedCampaignDrains ==
  <>[](campaign.status # "RUNNING") =>
    <>[](/\ \A c \in Calls : calls[c] = NULL
         /\ \A a \in Agents : agents[a] \in {"OFFLINE", "AVAILABLE"})
=======================================================================================
