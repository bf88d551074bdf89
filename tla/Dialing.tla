----------------------------------- MODULE Dialing -----------------------------------
(* One dial from claim to hang-up, every actor at once: the allocators of several        *)
(* worker processes (CallAllocator), the provider's deliveries (mock_base), the event     *)
(* processor and the recovery worker, interleaved at single database operations, with     *)
(* crashes, cancelled dials, failed database calls and lost, late, doubled and swapped     *)
(* provider events.  Reservation has the clock; here a lease is fresh or has lapsed,       *)
(* and it may lapse at any moment.                                                         *)
EXTENDS AgentRepo, BorrowerRepo, CallRepo, Sequences, FiniteSetsExt

CONSTANTS Agents, Borrowers,
          Workers,            \* worker ids: one per process (worker_identity.py)
          OutOfOrder,         \* the provider may swap two events of a call
          Duplicates,         \* ... and deliver one twice
          MaxFaults,          \* bound: crashes, cancellations, errors, departures
          MaxClaims           \* bound: agents claimed in a run; NULL for no bound

ASSUME DialingAssumption ==
  /\ IsFiniteSet(Agents) /\ IsFiniteSet(Borrowers) /\ IsFiniteSet(Workers)
  /\ NULL \notin Agents \cup Borrowers \cup Workers
  /\ MaxFaults \in Nat /\ MaxClaims \in Nat \cup {NULL}
  /\ OutOfOrder \in BOOLEAN /\ Duplicates \in BOOLEAN

\* build_idempotency_key: (agent, borrower, attempt) names at most one call document.
Keys == [ agent : Agents, borrower : Borrowers, attempt : 1 .. MAX_CALL_ATTEMPTS ]

NOW == 1                      \* the instant of every step; backoffs are 0 in this module
FRESH == 1                    \* a lease that runs ...
LAPSED == 0                   \* ... and one that is over

VARIABLES agents, borrowers, calls,  \* the three collections
          recorded,           \* provider_events: the event types recorded for each call
          provider,           \* what the provider knows of each call it has accepted
          worker,             \* the allocator of each process
          handler,            \* the event processor's work on each call
          rec,                \* the recovery worker
          faults,             \* how many faults ...
          claims              \* ... and how many claims are still to come

vars == <<agents, borrowers, calls, recorded, provider, worker, handler, rec, faults,
          claims>>

WorkerPcs == {"idle", "has_agent", "undo_agent", "paired", "created", "reserved",
              "initiated", "binding", "originating", "accepted",
              "release_agent", "release_borrower", "stopped"}

Dial ==
  [ pc : WorkerPcs, agent : Agents \cup {NULL}, borrower : Borrowers \cup {NULL},
    attempt : Nat, version : Nat, outcome : BorrowerReleaseOutcome ]

Idle == [ pc |-> "idle", agent |-> NULL, borrower |-> NULL, attempt |-> 0, version |-> 0,
          outcome |-> "RELEASED" ]

EventTypes == {"RINGING", "ANSWERED", "CONNECTED", "COMPLETED", "FAILED"}

EventInHand ==
  [ pc : {"idle", "lookup", "apply", "read", "cas", "agent", "borrower"},
    event : EventTypes \cup {NULL}, state : AgentState \cup {NULL}, version : Nat ]

NoEvent == [pc |-> "idle", event |-> NULL, state |-> NULL, version |-> 0]

Sweep ==
  [ pc : {"idle", "cancel", "give", "take", "settle", "orphan_agent", "orphan"},
    to : {"AVAILABLE", "OFFLINE"}, agent : Agents \cup {NULL},
    state : AgentState \cup {NULL}, version : Nat, call : Keys \cup {NULL},
    target : TERMINAL_CALL_STATES \cup {NULL} ]

NoSweep == [ pc |-> "idle", to |-> "AVAILABLE", agent |-> NULL, state |-> NULL,
             version |-> 0, call |-> NULL, target |-> NULL ]

ProviderStatus == {"ACTIVE", "COMPLETED", "FAILED", "UNKNOWN"}

ProviderCall == [ by : Workers, todo : Seq(EventTypes), answered : BOOLEAN,
                  status : ProviderStatus ]

\* None is not a document, nor the name of one.
ASSUME DocumentAssumption == NULL \notin Keys \cup CallDoc(Workers) \cup ProviderCall

TypeOK ==
  /\ agents \in [Agents -> AgentDoc(Workers, Keys)]
  /\ borrowers \in [Borrowers -> BorrowerDoc(Workers)]
  /\ calls \in [Keys -> CallDoc(Workers) \cup {NULL}]
  /\ recorded \in [Keys -> SUBSET EventTypes]
  /\ provider \in [Keys -> ProviderCall \cup {NULL}]
  /\ worker \in [Workers -> Dial]
  /\ handler \in [Keys -> EventInHand]
  /\ rec \in Sweep
  /\ faults \in 0 .. MaxFaults
  /\ claims \in Nat \cup {NULL}

Init ==
  /\ agents = [a \in Agents |-> NewAgent("AVAILABLE")]
  /\ borrowers = [b \in Borrowers |-> NewBorrower]
  /\ calls = [k \in Keys |-> NULL]
  /\ recorded = [k \in Keys |-> {}]
  /\ provider = [k \in Keys |-> NULL]
  /\ worker = [w \in Workers |-> Idle]
  /\ handler = [k \in Keys |-> NoEvent]
  /\ rec = NoSweep
  /\ faults = MaxFaults
  /\ claims = MaxClaims

--------------------------------------------------------------------------------------
(* Writes.  Versions are only ever compared with a version somebody has read, so a        *)
(* changed document gets the least number nobody remembers: that keeps them finite.       *)
(* Borrower versions are remembered by nobody here.                                       *)

RememberedVersions(a) ==
  { worker[w].version : w \in { v \in Workers : worker[v].agent = a } }
  \cup { handler[k].version : k \in { h \in Keys : h.agent = a /\ handler[h].pc = "cas" } }
  \cup (IF rec.agent = a THEN {rec.version} ELSE {})

AgentBecomes(a, doc) ==
  LET fresh == Min(0 .. Cardinality(RememberedVersions(a)) \ RememberedVersions(a)) IN
  agents' = [agents EXCEPT ![a] =
    IF doc.state_version = @.state_version THEN doc
    ELSE [doc EXCEPT !.state_version = fresh]]

BorrowerBecomes(b, doc) ==
  borrowers' = [borrowers EXCEPT ![b] =
                  [doc EXCEPT !.state_version = 0, !.next_eligible_at = 0]]

Fault == faults > 0 /\ faults' = faults - 1

--------------------------------------------------------------------------------------
(* The allocator: ReservationService.reserve_pair, then CallAllocator._dial.            *)

At(w, step) == worker[w].pc = step
Goto(w, step) == worker' = [worker EXCEPT ![w].pc = step]
BackToIdle(w) == worker' = [worker EXCEPT ![w] = Idle]

\* The call a dial of w's pair is made with.
KeyOf(w) == [ agent |-> worker[w].agent, borrower |-> worker[w].borrower,
              attempt |-> worker[w].attempt + 1 ]

GiveBack(w, outcome) ==
  worker' = [worker EXCEPT ![w].pc = "release_agent", ![w].outcome = outcome]

\* Trying the candidates one by one: losing one changes nothing.
ClaimAgent(w, a) ==
  /\ At(w, "idle") /\ Claimable(agents[a])
  /\ claims # 0 /\ claims' = IF claims = NULL THEN NULL ELSE claims - 1
  /\ AgentBecomes(a, Reserve(agents[a], w, FRESH))
  /\ worker' = [worker EXCEPT ![w].pc = "has_agent", ![w].agent = a,
                              ![w].version = agents'[a].state_version]
  /\ UNCHANGED <<borrowers, calls, recorded, provider, handler, rec, faults>>

ClaimBorrower(w, b) ==
  /\ At(w, "has_agent") /\ BorrowerClaimable(borrowers[b], NOW)
  /\ BorrowerBecomes(b, ReserveBorrower(borrowers[b], w, FRESH))
  /\ worker' = [worker EXCEPT ![w].pc = "paired", ![w].borrower = b,
                              ![w].attempt = borrowers[b].attempt_count]
  /\ UNCHANGED <<agents, calls, recorded, provider, handler, rec, faults, claims>>

NoBorrower(w) ==
  /\ At(w, "has_agent")
  /\ \A b \in Borrowers : ~BorrowerClaimable(borrowers[b], NOW)
  /\ Goto(w, "undo_agent")
  /\ UNCHANGED <<agents, borrowers, calls, recorded, provider, handler, rec, faults, claims>>

UndoAgent(w) ==
  /\ At(w, "undo_agent")
  /\ AgentBecomes(worker[w].agent,
       release_agent(agents[worker[w].agent], w, "AVAILABLE", "ALLOCATOR"))
  /\ BackToIdle(w)
  /\ UNCHANGED <<borrowers, calls, recorded, provider, handler, rec, faults, claims>>

\* should_retry refuses: the provider is not healthy enough for second attempts.
RetryGateCloses(w) ==
  /\ At(w, "paired") /\ worker[w].attempt > 0
  /\ GiveBack(w, "RELEASED")
  /\ UNCHANGED <<agents, borrowers, calls, recorded, provider, handler, rec, faults, claims>>

\* create_call returns the document that is there if the key is taken, whoever made it.
CreateCall(w) ==
  LET k == KeyOf(w) IN
  /\ At(w, "paired")
  /\ calls[k] # NULL => calls[k].state = "QUEUED"
  /\ calls' = [calls EXCEPT ![k] = IF @ = NULL THEN NewCall(w) ELSE @]
  /\ Goto(w, "created")
  /\ UNCHANGED <<agents, borrowers, recorded, provider, handler, rec, faults, claims>>

CallExists(w) ==
  LET k == KeyOf(w) IN
  /\ At(w, "paired")
  /\ calls[k] # NULL /\ calls[k].state # "QUEUED"
  /\ GiveBack(w, "RELEASED")
  /\ UNCHANGED <<agents, borrowers, calls, recorded, provider, handler, rec, faults, claims>>

\* The result of this one is not looked at.
MarkReserved(w) ==
  /\ At(w, "created")
  /\ calls' = [calls EXCEPT ![KeyOf(w)] = transition_call(@, "RESERVED")]
  /\ Goto(w, "reserved")
  /\ UNCHANGED <<agents, borrowers, recorded, provider, handler, rec, faults, claims>>

MarkInitiated(w) ==
  /\ At(w, "reserved")
  /\ calls' = [calls EXCEPT ![KeyOf(w)] = transition_call(@, "INITIATED")]
  /\ IF CallTransitionMatches(calls[KeyOf(w)], "INITIATED")
     THEN Goto(w, "initiated")
     ELSE GiveBack(w, "RELEASED")
  /\ UNCHANGED <<agents, borrowers, recorded, provider, handler, rec, faults, claims>>

\* Nor the result of this one.
MarkDialing(w) ==
  LET a == worker[w].agent IN
  /\ At(w, "initiated")
  /\ AgentBecomes(a, transition_agent(agents[a], "RESERVED", "DIALING", "ALLOCATOR",
                                      worker[w].version))
  /\ Goto(w, "binding")
  /\ UNCHANGED <<borrowers, calls, recorded, provider, handler, rec, faults, claims>>

BindCall(w) ==
  LET a == worker[w].agent IN
  /\ At(w, "binding")
  /\ AgentBecomes(a, bind_call(agents[a], w, KeyOf(w)))
  /\ Goto(w, "originating")
  /\ UNCHANGED <<borrowers, calls, recorded, provider, handler, rec, faults, claims>>

Swapped(s) ==
  {s} \cup (IF OutOfOrder
            THEN { [s EXCEPT ![i] = s[i + 1], ![i + 1] = s[i]] : i \in 1 .. Len(s) - 1 }
            ELSE {})

Doubled(s) ==
  {s} \cup (IF Duplicates
            THEN { SubSeq(s, 1, i) \o SubSeq(s, i, Len(s)) : i \in 1 .. Len(s) }
            ELSE {})

\* _build_event_script: answered or not, then a swap, then a duplicate.
Scripts(answered) ==
  LET plain == IF answered THEN <<"RINGING", "ANSWERED", "CONNECTED", "COMPLETED">>
                           ELSE <<"RINGING", "FAILED">>
  IN UNION { Doubled(s) : s \in Swapped(plain) }

\* The provider accepts: from now on it delivers, whether or not the reply is handled.  Its
\* id is taken as the call's own.  Every process counts its ids from one: where two collide,
\* the model has AttachFails (a Fault), and no event that is taken for the other call's.
Originate(w) ==
  /\ At(w, "originating")
  /\ \E answered \in BOOLEAN : \E script \in Scripts(answered) :
       provider' = [provider EXCEPT ![KeyOf(w)] =
         [by |-> w, todo |-> script, answered |-> answered, status |-> "ACTIVE"]]
  /\ Goto(w, "accepted")
  /\ UNCHANGED <<agents, borrowers, calls, recorded, handler, rec, faults, claims>>

\* Rejected or timed out.
OriginateFails(w) ==
  /\ At(w, "originating")
  /\ calls' = [calls EXCEPT ![KeyOf(w)] = transition_call(@, "FAILED")]
  /\ GiveBack(w, "RETRY")
  /\ UNCHANGED <<agents, borrowers, recorded, provider, handler, rec, faults, claims>>

Attach(w) ==
  /\ At(w, "accepted")
  /\ calls' = [calls EXCEPT ![KeyOf(w)] = attach_provider_call_id(@)]
  /\ BackToIdle(w)
  /\ UNCHANGED <<agents, borrowers, recorded, provider, handler, rec, faults, claims>>

\* The provider id belongs to another call: hang up, fail the call.
AttachFails(w) ==
  LET k == KeyOf(w) IN
  /\ At(w, "accepted")
  /\ Fault
  /\ provider' = [provider EXCEPT ![k].todo = <<>>, ![k].status = "COMPLETED"]
  /\ handler' = [handler EXCEPT ![k] = NoEvent]
  /\ calls' = [calls EXCEPT ![k] = transition_call(@, "FAILED")]
  /\ GiveBack(w, "RETRY")
  /\ UNCHANGED <<agents, borrowers, recorded, rec, claims>>

ReleaseAgent_bug(w) ==                     \* the borrower is forgotten
  LET a == worker[w].agent IN
  /\ At(w, "release_agent")
  /\ AgentBecomes(a, release_agent(agents[a], w, "AVAILABLE", "ALLOCATOR"))
  /\ BackToIdle(w)
  /\ UNCHANGED <<borrowers, calls, recorded, provider, handler, rec, faults, claims>>

\* ReservationService.release_pair: first the agent, then the borrower.
ReleaseAgent(w) ==
  LET a == worker[w].agent IN
  /\ At(w, "release_agent")
  /\ AgentBecomes(a, release_agent(agents[a], w, "AVAILABLE", "ALLOCATOR"))
  /\ Goto(w, "release_borrower")
  /\ UNCHANGED <<borrowers, calls, recorded, provider, handler, rec, faults, claims>>

ReleaseBorrower(w) ==
  LET b == worker[w].borrower IN
  /\ At(w, "release_borrower")
  /\ BorrowerBecomes(b, release_borrower(borrowers[b], w, worker[w].outcome, NOW))
  /\ BackToIdle(w)
  /\ UNCHANGED <<agents, calls, recorded, provider, handler, rec, faults, claims>>

\* The worker is stopped in the middle of _dial, be it while it gives the pair back: then
\* _compensate_cancelled_dial gives it back, once more if need be, and leaves the call as it
\* is.  The attach may already have reached the database.
StopDial(w) ==
  /\ worker[w].pc \in {"paired", "created", "reserved", "initiated", "binding",
                       "originating", "accepted", "release_agent", "release_borrower"}
  /\ Fault
  /\ \/ UNCHANGED calls
     \/ /\ At(w, "accepted")
        /\ calls' = [calls EXCEPT ![KeyOf(w)] = attach_provider_call_id(@)]
  /\ GiveBack(w, "RELEASED")
  /\ UNCHANGED <<agents, borrowers, recorded, provider, handler, rec, claims>>

\* A database call of the dial or of a release raises: the tick is over, nothing is undone.
DbError(w) ==
  /\ worker[w].pc \notin {"idle", "stopped"}
  /\ Fault
  /\ BackToIdle(w)
  /\ UNCHANGED <<agents, borrowers, calls, recorded, provider, handler, rec, claims>>

\* The process dies, and with it the calls its provider adapter was playing.
Crash(w) ==
  LET own == { k \in Keys : provider[k] # NULL /\ provider[k].by = w } IN
  /\ ~At(w, "stopped")
  /\ Fault
  /\ worker' = [worker EXCEPT ![w] = [Idle EXCEPT !.pc = "stopped"]]
  /\ provider' = [k \in Keys |-> IF k \in own
                    THEN [provider[k] EXCEPT !.todo = <<>>, !.status = "UNKNOWN"]
                    ELSE provider[k]]
  /\ handler' = [k \in Keys |-> IF k \in own THEN NoEvent ELSE handler[k]]
  /\ UNCHANGED <<agents, borrowers, calls, recorded, rec, claims>>

--------------------------------------------------------------------------------------
(* The provider delivers the events of a call one after the other; EventProcessor         *)
(* handles each to its end before the next.                                               *)

Handling(k, step) == handler[k].pc = step
NextStep(k, step) == handler' = [handler EXCEPT ![k].pc = step]
EventDone(k) == handler' = [handler EXCEPT ![k] = NoEvent]

\* record_event: a duplicate goes no further.
Deliver(k) ==
  LET event == Head(provider[k].todo) IN
  /\ Handling(k, "idle")
  /\ provider[k] # NULL /\ provider[k].todo # <<>>
  /\ provider' = [provider EXCEPT ![k].todo = Tail(@)]
  /\ recorded' = [recorded EXCEPT ![k] = @ \cup {event}]
  /\ handler' = IF event \in recorded[k] THEN handler
                ELSE [handler EXCEPT ![k].pc = "lookup", ![k].event = event]
  /\ UNCHANGED <<agents, borrowers, calls, worker, rec, faults, claims>>

ProviderFinishes(k) ==
  /\ Handling(k, "idle")
  /\ provider[k] # NULL /\ provider[k].todo = <<>> /\ provider[k].status = "ACTIVE"
  /\ provider' = [provider EXCEPT ![k].status =
                    IF provider[k].answered THEN "COMPLETED" ELSE "FAILED"]
  /\ UNCHANGED <<agents, borrowers, calls, recorded, worker, handler, rec, faults, claims>>

\* Unknown until its id is attached; otherwise should_apply_event decides.
LookupCall(k) ==
  /\ Handling(k, "lookup")
  /\ IF calls[k].attached /\ should_apply_event(calls[k].state, handler[k].event) = "APPLY"
     THEN NextStep(k, "apply")
     ELSE EventDone(k)
  /\ UNCHANGED <<agents, borrowers, calls, recorded, provider, worker, rec, faults, claims>>

ApplyEvent(k) ==
  /\ Handling(k, "apply")
  /\ calls' = [calls EXCEPT ![k] = transition_call(@, handler[k].event)]
  /\ IF CallTransitionMatches(calls[k], handler[k].event)
     THEN NextStep(k, "read")
     ELSE EventDone(k)
  /\ UNCHANGED <<agents, borrowers, recorded, provider, worker, rec, faults, claims>>

\* _apply_agent_transition reads the agent first.
ReadAgent(k) ==
  LET ag == agents[k.agent]
      ends == is_terminal(handler[k].event)
  IN
  /\ Handling(k, "read")
  /\ CASE ends /\ ag.state = AGENT_STATE_FOR_CALL_STATE[handler[k].event] ->
            NextStep(k, "borrower")
       [] ends /\ ag.state # AGENT_STATE_FOR_CALL_STATE[handler[k].event] ->
            NextStep(k, "agent")
       [] ~ends /\ ag.state = AGENT_STATE_FOR_CALL_STATE[handler[k].event] ->
            EventDone(k)
       [] OTHER ->
            handler' = [handler EXCEPT ![k].pc = "cas", ![k].state = ag.state,
                                       ![k].version = ag.state_version]
  /\ UNCHANGED <<agents, borrowers, calls, recorded, provider, worker, rec, faults, claims>>

\* The agent follows the call, if nobody has touched it since it was read.
MoveAgent(k) ==
  LET h == handler[k] IN
  /\ Handling(k, "cas")
  /\ AgentBecomes(k.agent,
       transition_agent(agents[k.agent], h.state, AGENT_STATE_FOR_CALL_STATE[h.event],
                        "EVENT_PROCESSOR", h.version))
  /\ EventDone(k)
  /\ UNCHANGED <<borrowers, calls, recorded, provider, worker, rec, faults, claims>>

\* The call is over: its agent is released in the name of the worker that created it ...
EndAgent(k) ==
  /\ Handling(k, "agent")
  /\ AgentBecomes(k.agent,
       release_agent(agents[k.agent], calls[k].created_by_worker,
                     AGENT_STATE_FOR_CALL_STATE[handler[k].event], "EVENT_PROCESSOR"))
  /\ NextStep(k, "borrower")
  /\ UNCHANGED <<borrowers, calls, recorded, provider, worker, rec, faults, claims>>

\* outcome_for_terminal_call: answered is answered_at, which only ANSWERED sets.
OutcomeOf(k) ==
  IF handler[k].event = "COMPLETED" /\ calls[k].answered THEN "CONTACTED" ELSE "RETRY"

\* ... and so is its borrower.
EndBorrower(k) ==
  /\ Handling(k, "borrower")
  /\ BorrowerBecomes(k.borrower,
       release_borrower(borrowers[k.borrower], calls[k].created_by_worker,
                        OutcomeOf(k), NOW))
  /\ EventDone(k)
  /\ UNCHANGED <<agents, calls, recorded, provider, worker, rec, faults, claims>>

\* An exception: the event is recorded and will not be handled again.
HandlerFails(k) ==
  /\ ~Handling(k, "idle")
  /\ Fault
  /\ EventDone(k)
  /\ UNCHANGED <<agents, borrowers, calls, recorded, provider, worker, rec, claims>>

--------------------------------------------------------------------------------------
(* RecoveryWorker.run_sweeps.  A sweep's candidate is a snapshot that may be old when     *)
(* its turn comes.                                                                         *)

Snapshot(a, to) ==
  [ NoSweep EXCEPT !.pc = "cancel", !.to = to, !.agent = a, !.state = agents[a].state,
                   !.version = agents[a].state_version, !.call = agents[a].current_call_id ]

SweepAgent(a) ==
  /\ rec.pc = "idle" /\ LeaseSweepable(agents[a], NOW)
  /\ rec' = Snapshot(a, "AVAILABLE")
  /\ UNCHANGED <<agents, borrowers, calls, recorded, provider, worker, handler, faults, claims>>

\* find_heartbeat_expired.
SweepSilent(a) ==
  /\ rec.pc = "idle" /\ agents[a].state # "OFFLINE"
  /\ Fault
  /\ rec' = Snapshot(a, "OFFLINE")
  /\ UNCHANGED <<agents, borrowers, calls, recorded, provider, worker, handler, claims>>

CancelBoundCall ==
  LET k == rec.call
      cancels == k # NULL /\ CallTransitionMatches(calls[k], "CANCELLED")
  IN
  /\ rec.pc = "cancel"
  /\ calls' = IF cancels THEN [calls EXCEPT ![k] = transition_call(@, "CANCELLED")] ELSE calls
  /\ rec' = [rec EXCEPT !.pc = IF cancels THEN "give" ELSE "take"]
  /\ UNCHANGED <<agents, borrowers, recorded, provider, worker, handler, faults, claims>>

\* The recovery's _release_borrower: never a contact.
GiveBorrower ==
  LET b == rec.call.borrower IN
  /\ rec.pc \in {"give", "orphan"}
  /\ BorrowerBecomes(b, release_borrower(borrowers[b], calls[rec.call].created_by_worker,
                                         "RETRY", NOW))
  /\ rec' = IF rec.pc = "give" THEN [rec EXCEPT !.pc = "take"] ELSE NoSweep
  /\ UNCHANGED <<agents, calls, recorded, provider, worker, handler, faults, claims>>

TakeAgent ==
  LET a == rec.agent
      seen == [state |-> rec.state, state_version |-> rec.version]
  IN
  /\ rec.pc = "take"
  /\ AgentBecomes(a,
       IF rec.to = "AVAILABLE" THEN release_expired_agent_lease(agents[a], seen, NOW)
       ELSE transition_agent(agents[a], rec.state, "OFFLINE", "RECOVERY", rec.version))
  /\ rec' = NoSweep
  /\ UNCHANGED <<borrowers, calls, recorded, provider, worker, handler, faults, claims>>

\* The query and the write it guards in one step: the write repeats the query's condition
\* and the version, so it finds the document as the query did or not at all.
SweepBorrower(b) ==
  /\ BorrowerSweepable(borrowers[b], NOW)
  /\ BorrowerBecomes(b, reclaim_borrower(borrowers[b], borrowers[b], NOW))
  /\ UNCHANGED <<agents, calls, recorded, provider, worker, handler, rec, faults, claims>>

SettingUp(k) ==
  \E w \in Workers : worker[w].pc \notin {"idle", "stopped", "has_agent", "undo_agent"}
                     /\ KeyOf(w) = k

CallOpen(k) == calls[k] # NULL /\ ~is_terminal(calls[k].state)

Stale_bug(k) == CallOpen(k) /\ ~SettingUp(k) /\ calls[k].attached

\* CALL_STALE_TIMEOUT_SECONDS is far longer than a dial takes or a lease lasts: a lease
\* that runs on the borrower of a stale call is that of a later claim.
Stale(k) ==
  /\ CallOpen(k) /\ ~SettingUp(k)
  /\ agents[k.agent].current_call_id = k => agents[k.agent].lease_expires_at # FRESH
  /\ borrowers[k.borrower].lease_expires_at = FRESH =>
       \/ \E w \in Workers : worker[w].borrower = k.borrower
       \/ \E h \in Keys \ {k} : h.borrower = k.borrower /\ CallOpen(h)

\* _reconcile_with_provider: an id never attached, an unknown id and a call that is still
\* going on all count as failed.
Reconciled(k) ==
  IF calls[k].attached /\ provider[k].status = "COMPLETED" THEN "COMPLETED" ELSE "FAILED"

SweepCall(k) ==
  /\ rec.pc = "idle" /\ Stale(k)
  /\ rec' = [NoSweep EXCEPT !.pc = "settle", !.call = k, !.target = Reconciled(k)]
  /\ UNCHANGED <<agents, borrowers, calls, recorded, provider, worker, handler, faults, claims>>

SettleCall ==
  LET k == rec.call IN
  /\ rec.pc = "settle"
  /\ calls' = [calls EXCEPT ![k] = transition_call(@, rec.target)]
  /\ rec' = IF CallTransitionMatches(calls[k], rec.target)
            THEN [rec EXCEPT !.pc = "orphan_agent"] ELSE NoSweep
  /\ UNCHANGED <<agents, borrowers, recorded, provider, worker, handler, faults, claims>>

\* _release_parties, its first write; GiveBorrower is the second.
OrphanAgent ==
  LET a == rec.call.agent IN
  /\ rec.pc = "orphan_agent"
  /\ AgentBecomes(a, release_agent(agents[a], calls[rec.call].created_by_worker,
                                   "AVAILABLE", "RECOVERY"))
  /\ rec' = [rec EXCEPT !.pc = "orphan"]
  /\ UNCHANGED <<borrowers, calls, recorded, provider, worker, handler, faults, claims>>

\* The recovery task is cancelled, or a sweep raises.
RecoveryStops ==
  /\ rec.pc # "idle"
  /\ Fault
  /\ rec' = NoSweep
  /\ UNCHANGED <<agents, borrowers, calls, recorded, provider, worker, handler, claims>>

--------------------------------------------------------------------------------------
(* Time and agents.                                                                       *)

LeaseLapses(a) ==
  /\ agents[a].lease_expires_at = FRESH
  /\ agents' = [agents EXCEPT ![a].lease_expires_at = LAPSED]
  /\ UNCHANGED <<borrowers, calls, recorded, provider, worker, handler, rec, faults, claims>>

\* A borrower is claimed after the agent of its pair, so its lease outlasts the agent's.
BorrowerLeaseLapses(b) ==
  /\ borrowers[b].lease_expires_at = FRESH
  /\ \A w \in Workers : worker[w].borrower = b =>
       agents[worker[w].agent].lease_expires_at # FRESH
       \/ agents[worker[w].agent].reserved_by # w
  /\ borrowers' = [borrowers EXCEPT ![b].lease_expires_at = LAPSED]
  /\ UNCHANGED <<agents, calls, recorded, provider, worker, handler, rec, faults, claims>>

WrapUpEnds(a) ==
  /\ agents[a].state = "WRAP_UP"
  /\ AgentBecomes(a, transition_agent(agents[a], "WRAP_UP", "AVAILABLE", "WORKER_TIMER",
                                      agents[a].state_version))
  /\ UNCHANGED <<borrowers, calls, recorded, provider, worker, handler, rec, faults, claims>>

Leave(a) ==
  /\ agents[a].state # "OFFLINE"
  /\ Fault
  /\ AgentBecomes(a, transition_agent(agents[a], agents[a].state, "OFFLINE", "AGENT",
                                      agents[a].state_version))
  /\ UNCHANGED <<borrowers, calls, recorded, provider, worker, handler, rec, claims>>

Login(a) ==
  /\ agents[a].state = "OFFLINE"
  /\ AgentBecomes(a, transition_agent(agents[a], "OFFLINE", "AVAILABLE", "AGENT",
                                      agents[a].state_version))
  /\ UNCHANGED <<borrowers, calls, recorded, provider, worker, handler, rec, faults, claims>>

--------------------------------------------------------------------------------------
\* What a worker does once it has begun, left to itself.
Proceed(w) ==
  \/ NoBorrower(w) \/ UndoAgent(w) \/ CreateCall(w) \/ CallExists(w)
  \/ MarkReserved(w) \/ MarkInitiated(w) \/ MarkDialing(w) \/ BindCall(w)
  \/ Originate(w) \/ OriginateFails(w) \/ Attach(w)
  \/ ReleaseAgent(w) \/ ReleaseBorrower(w)
  \/ \E b \in Borrowers : ClaimBorrower(w, b)

Process(k) ==
  \/ Deliver(k) \/ ProviderFinishes(k) \/ LookupCall(k) \/ ApplyEvent(k)
  \/ ReadAgent(k) \/ MoveAgent(k) \/ EndAgent(k) \/ EndBorrower(k)

FinishSweep ==
  CancelBoundCall \/ GiveBorrower \/ TakeAgent \/ SettleCall \/ OrphanAgent

Faults ==
  \/ \E w \in Workers : AttachFails(w) \/ StopDial(w) \/ DbError(w) \/ Crash(w)
  \/ \E k \in Keys : HandlerFails(k)
  \/ \E a \in Agents : SweepSilent(a) \/ Leave(a)
  \/ RecoveryStops

Next ==
  \/ \E w \in Workers : Proceed(w) \/ RetryGateCloses(w) \/ \E a \in Agents : ClaimAgent(w, a)
  \/ \E k \in Keys : Process(k) \/ SweepCall(k)
  \/ \E a \in Agents : SweepAgent(a) \/ LeaseLapses(a) \/ WrapUpEnds(a) \/ Login(a)
  \/ \E b \in Borrowers : SweepBorrower(b) \/ BorrowerLeaseLapses(b)
  \/ FinishSweep
  \/ Faults

Spec == Init /\ [][Next]_vars

\* Tasks of the event loop go on, time passes, and the recovery loop comes back to every
\* kind of sweep, though another sweep may be on whenever a candidate first appears.
Fairness ==
  /\ \A w \in Workers : WF_vars(Proceed(w))
  /\ \A k \in Keys : WF_vars(Process(k)) /\ SF_vars(SweepCall(k))
  /\ \A a \in Agents : SF_vars(SweepAgent(a)) /\ WF_vars(LeaseLapses(a)) /\ WF_vars(WrapUpEnds(a))
  /\ \A b \in Borrowers : WF_vars(SweepBorrower(b)) /\ WF_vars(BorrowerLeaseLapses(b))
  /\ WF_vars(FinishSweep)

FairSpec == Spec /\ Fairness

\* Besides, the workers go on dialling: whoever can be claimed is claimed at last.
Dialling ==
  /\ \A w \in Workers : SF_vars(\E a \in Agents : ClaimAgent(w, a))
  /\ \A w \in Workers, b \in Borrowers : SF_vars(ClaimBorrower(w, b))

DiallingSpec == FairSpec /\ Dialling

--------------------------------------------------------------------------------------
(* Properties.                                                                            *)

\* One originate per call document, whatever workers meet on it: when a worker is about to
\* dial, the provider has never had the call and nobody else is about to dial it too.
OneOriginatePerCall ==
  \A w \in Workers : worker[w].pc \in {"initiated", "binding", "originating"} =>
    /\ provider[KeyOf(w)] = NULL
    /\ \A v \in Workers \ {w} :
         worker[v].pc \in {"initiated", "binding", "originating"} => KeyOf(v) # KeyOf(w)

\* Whoever writes them, and however late, calls move only along CALL_TRANSITIONS, although
\* transition_call compares ranks alone.
CallsFollowTheLifecycle ==
  [][\A k \in Keys : calls[k] # NULL /\ calls'[k] # calls[k] =>
       \/ calls'[k].state = calls[k].state
       \/ can_transition_call(calls[k].state, calls'[k].state)]_vars

\* An attempt is charged to a borrower only for a call that was made and is over.  Refuted
\* by MCDialingCharge.cfg: a sweep's late RETRY release hits the borrower's next claim.
AttemptsAreEndedCalls ==
  \A b \in Borrowers : \A n \in 1 .. borrowers[b].attempt_count :
    \E a \in Agents : LET k == [agent |-> a, borrower |-> b, attempt |-> n] IN
      calls[k] # NULL /\ is_terminal(calls[k].state)

\* Nobody is at work on k.
Quiet(k) ==
  /\ ~SettingUp(k) /\ handler[k].pc = "idle"
  /\ rec.call # k

\* Without faults no release is forgotten: a reserved borrower is always somebody's work, a
\* worker's, or that of a call which is open or being closed.  Nothing waits for its lease
\* to lapse with nobody left to give it back.  This is so as long as DialsOwnCalls is, as
\* with the one worker of a deployed instance: a call is ended in the name of the worker
\* that created it, and that release misses a borrower another worker has claimed since.
ReservedBorrowersAreInWork ==
  faults = MaxFaults =>
    \A b \in Borrowers : borrowers[b].status = "RESERVED" =>
      \/ \E w \in Workers : worker[w].borrower = b
      \/ \E k \in Keys : k.borrower = b /\ calls[k] # NULL /\ (CallOpen(k) \/ ~Quiet(k))

\* Whatever fails, every call that is created ends, ...
CallsEnd ==
  \A k \in Keys : calls[k] # NULL ~> calls[k] # NULL /\ is_terminal(calls[k].state)

\* ... every busy agent becomes free or leaves, ...
AgentsComeFree ==
  \A a \in Agents : agents[a].state \in BUSY_AGENT_STATES ~>
                    agents[a].state \notin BUSY_AGENT_STATES

\* ... and every reserved borrower is given back.
BorrowersComeBack ==
  \A b \in Borrowers : borrowers[b].status = "RESERVED" ~> borrowers[b].status # "RESERVED"

\* README, "Three rules make bad carrier behaviour harmless": whatever the order of its
\* events, a call that was answered and is completed counts as answered.  Refuted by
\* MCDialingReorder.cfg.
ReorderingIsHarmless ==
  \A k \in Keys : calls[k] # NULL /\ calls[k].state = "COMPLETED" => calls[k].answered

\* README, claim-then-compensate, "duplicate -> release both": a worker dials only calls
\* whose document it has created itself.  Refuted by MCDialingTakeover.cfg.
DialsOwnCalls ==
  \A w \in Workers : worker[w].pc \in {"initiated", "binding", "originating", "accepted"} =>
    calls[KeyOf(w)].created_by_worker = w

\* README, "If a worker dies holding one, the lease simply expires and the recovery worker
\* reclaims it": no conversation is cut off while the process that set it up is alive.
ConversationsGoOn ==
  [][\A k \in Keys : calls[k] # NULL /\ calls[k].state = "CONNECTED" =>
       \/ calls'[k].state # "CANCELLED"
       \/ worker[calls[k].created_by_worker].pc = "stopped"]_vars

\* While pairs go on being reserved, every borrower is contacted or exhausted in the end.
\* Refuted by MCDialingStuck.cfg: a dial stopped after create_call leaves its document under
\* the key of the pair's next attempt, which is never fresh again.
BorrowersSettle ==
  []<>(\E w \in Workers : At(w, "paired")) =>
    \A b \in Borrowers : <>(borrowers[b].status \in {"CONTACTED", "EXHAUSTED"})
======================================================================================
