--------------------------------- MODULE Reservation ---------------------------------
(* How agents and borrowers are claimed and given back: ReservationService, the two    *)
(* repositories' conditional updates, the releases made for a call when it ends, and    *)
(* the recovery worker's lease sweeps, all interleaved at the granularity of single      *)
(* database operations, against a clock that expires leases.                             *)
(*                                                                                       *)
(* A "dial" is one ReservationPair together with the call made from it.  held[d] says    *)
(* that the pair is still d's: it has an agent, nobody has started to give it back, and  *)
(* its call (once there is one) is not terminal.  What happens between two database      *)
(* operations of a dial may take any time, so a lease may expire at any point.           *)
EXTENDS AgentRepo, BorrowerRepo, FiniteSets

CONSTANTS Agents, Borrowers,
          Workers,            \* worker ids: one per process (worker_identity.py)
          Dials,
          WorkerOf,           \* the worker that runs a dial and signs its documents
          Leavers,            \* agents that may go offline in the middle of a call
          RESERVATION_TTL,    \* Settings.RESERVATION_TTL_SECONDS
          MaxTime,            \* bound: the clock stops here
          MaxVersion          \* bound: agents act on their own only below this version

ASSUME WorkerAssumption == WorkerOf \in [Dials -> Workers] /\ NULL \notin Workers
ASSUME LeaversAssumption == Leavers \subseteq Agents
ASSUME BoundsAssumption ==
  RESERVATION_TTL \in Nat /\ MaxTime \in Nat /\ MaxVersion \in Nat
ASSUME NamesAssumption ==
  NULL \notin Agents /\ NULL \notin Borrowers /\ NULL \notin Dials

VARIABLES agents, borrowers,  \* the two collections
          now,                \* the database clock
          pc,                 \* where each dial is
          cand,               \* candidates a claim has read and not tried yet
          pair,               \* the ReservationPair of each dial, as read at the claim
          held,               \* the pair is still the dial's
          rel,                \* the release in progress: actor, target, outcome, then
          rec                 \* the recovery worker

vars == <<agents, borrowers, now, pc, cand, pair, held, rel, rec>>

AllocatorPcs == {"claim_agent", "find_borrower", "claim_borrower", "undo_agent",
                 "paired", "binding", "dialing"}

DialPcs == AllocatorPcs \cup {"idle", "live", "lost", "release_agent", "release_borrower",
                              "done"}

NoPair == [agent |-> NULL, borrower |-> NULL, version |-> 0,
           agentLease |-> 0, borrowerLease |-> 0]

Pairs == [ agent : Agents \cup {NULL}, borrower : Borrowers \cup {NULL}, version : Nat,
           agentLease : Nat, borrowerLease : Nat ]

Releases == [ actor : TransitionActor, target : AgentState,
              outcome : BorrowerReleaseOutcome, then : DialPcs ]

NoRelease == [actor |-> "ALLOCATOR", target |-> "AVAILABLE",
              outcome |-> "RELEASED", then |-> "done"]

\* What a sweep remembers of the documents its query returned.
AgentSnapshots == [ id : Agents, state : AgentState, state_version : Nat,
                    current_call_id : Dials \cup {NULL} ]
BorrowerSnapshots == [ id : Borrowers, status : {"RESERVED"}, state_version : Nat ]

RecoveryState ==
  [ pc        : {"idle", "agents", "cancel", "release", "borrowers"},
    to        : {"AVAILABLE", "OFFLINE"},           \* lease sweep or heartbeat sweep
    now       : Nat,                                \* read once per round of sweeps
    agents    : SUBSET AgentSnapshots,              \* candidates not handled yet
    borrowers : SUBSET BorrowerSnapshots,
    cur       : AgentSnapshots \cup {NULL},         \* the candidate being handled
    call      : Dials \cup {NULL},                  \* its call, just cancelled ...
    borrower  : Borrowers \cup {NULL} ]             \* ... and that call's borrower

AgentDocs == AgentDoc(Workers, Dials)
BorrowerDocs == BorrowerDoc(Workers)

TypeOK ==
  /\ agents \in [Agents -> AgentDocs]
  /\ borrowers \in [Borrowers -> BorrowerDocs]
  /\ now \in Nat
  /\ pc \in [Dials -> DialPcs]
  /\ cand \in [Dials -> SUBSET (Agents \cup Borrowers)]
  /\ pair \in [Dials -> Pairs]
  /\ held \in [Dials -> BOOLEAN]
  /\ rel \in [Dials -> Releases]
  /\ rec \in RecoveryState

NoSweep == [ pc |-> "idle", to |-> "AVAILABLE", now |-> 0, agents |-> {}, borrowers |-> {},
             cur |-> NULL, call |-> NULL, borrower |-> NULL ]

Init ==
  /\ agents = [a \in Agents |-> NewAgent("OFFLINE")]
  /\ borrowers = [b \in Borrowers |-> NewBorrower]
  /\ now = 0
  /\ pc = [d \in Dials |-> "idle"]
  /\ cand = [d \in Dials |-> {}]
  /\ pair = [d \in Dials |-> NoPair]
  /\ held = [d \in Dials |-> FALSE]
  /\ rel = [d \in Dials |-> NoRelease]
  /\ rec = NoSweep

--------------------------------------------------------------------------------------
(* Claiming: ReservationService.reserve_pair, one step per database operation.        *)

\* Nothing is left to do for d, and nothing of its pair is remembered.
Finish(d) ==
  /\ pc' = [pc EXCEPT ![d] = "done"]
  /\ pair' = [pair EXCEPT ![d] = NoPair]
  /\ held' = [held EXCEPT ![d] = FALSE]
  /\ rel' = [rel EXCEPT ![d] = NoRelease]

\* Its call stays open with nobody driving it.
Abandon(d) ==
  /\ pc' = [pc EXCEPT ![d] = "lost"]
  /\ rel' = [rel EXCEPT ![d] = NoRelease]
  /\ UNCHANGED <<pair, held>>

\* candidate_window(1) = 3: at most three of the matching documents are returned.
Windows(S) ==
  IF Cardinality(S) <= 3 THEN {S} ELSE { T \in SUBSET S : Cardinality(T) = 3 }

\* A worker's loop makes one dial after the other.
AllocatorFree(d) ==
  \A e \in Dials \ {d} : WorkerOf[e] = WorkerOf[d] => pc[e] \notin AllocatorPcs

FindAgents(d) ==
  /\ pc[d] = "idle" /\ AllocatorFree(d)
  /\ \A a \in Agents : agents[a].state_version < MaxVersion
  /\ \E found \in Windows({ a \in Agents : Claimable(agents[a]) }) :
       cand' = [cand EXCEPT ![d] = found]
  /\ pc' = [pc EXCEPT ![d] = "claim_agent"]
  /\ UNCHANGED <<agents, borrowers, now, pair, held, rel, rec>>

TryReserveAgent(d, a) ==
  /\ pc[d] = "claim_agent" /\ a \in cand[d]
  /\ Claimable(agents[a])
  /\ agents' = [agents EXCEPT ![a] = Reserve(@, WorkerOf[d], now + RESERVATION_TTL)]
  /\ pair' = [pair EXCEPT ![d] = [NoPair EXCEPT !.agent = a,
                                    !.version = agents[a].state_version + 1,
                                    !.agentLease = now + RESERVATION_TTL]]
  /\ held' = [held EXCEPT ![d] = TRUE]
  /\ pc' = [pc EXCEPT ![d] = "find_borrower"]
  /\ cand' = [cand EXCEPT ![d] = {}]
  /\ UNCHANGED <<borrowers, now, rel, rec>>

\* Another worker was first: the next candidate is tried.
AgentContended(d, a) ==
  /\ pc[d] = "claim_agent" /\ a \in cand[d]
  /\ ~Claimable(agents[a])
  /\ cand' = [cand EXCEPT ![d] = @ \ {a}]
  /\ UNCHANGED <<agents, borrowers, now, pc, pair, held, rel, rec>>

NoAgentLeft(d) ==
  /\ pc[d] = "claim_agent" /\ cand[d] = {}
  /\ Finish(d)
  /\ UNCHANGED <<agents, borrowers, now, cand, rec>>

FindBorrowers(d) ==
  /\ pc[d] = "find_borrower"
  /\ \E found \in Windows({ b \in Borrowers : BorrowerClaimable(borrowers[b], now) }) :
       cand' = [cand EXCEPT ![d] = found]
  /\ pc' = [pc EXCEPT ![d] = "claim_borrower"]
  /\ UNCHANGED <<agents, borrowers, now, pair, held, rel, rec>>

TryReserveBorrower(d, b) ==
  /\ pc[d] = "claim_borrower" /\ b \in cand[d]
  /\ BorrowerClaimable(borrowers[b], now)
  /\ borrowers' = [borrowers EXCEPT ![b] =
                     ReserveBorrower(@, WorkerOf[d], now + RESERVATION_TTL)]
  /\ pair' = [pair EXCEPT ![d].borrower = b, ![d].borrowerLease = now + RESERVATION_TTL]
  /\ pc' = [pc EXCEPT ![d] = "paired"]
  /\ cand' = [cand EXCEPT ![d] = {}]
  /\ UNCHANGED <<agents, now, held, rel, rec>>

BorrowerContended(d, b) ==
  /\ pc[d] = "claim_borrower" /\ b \in cand[d]
  /\ ~BorrowerClaimable(borrowers[b], now)
  /\ cand' = [cand EXCEPT ![d] = @ \ {b}]
  /\ UNCHANGED <<agents, borrowers, now, pc, pair, held, rel, rec>>

\* No borrower, or a database error while looking for one: the agent goes back.
BorrowerClaimFails(d) ==
  /\ pc[d] \in {"find_borrower", "claim_borrower"}
  /\ pc' = [pc EXCEPT ![d] = "undo_agent"]
  /\ held' = [held EXCEPT ![d] = FALSE]
  /\ cand' = [cand EXCEPT ![d] = {}]
  /\ UNCHANGED <<agents, borrowers, now, pair, rel, rec>>

\* The update reached the database but its reply did not: nobody knows of this claim.
BorrowerReplyLost(d, b) ==
  /\ pc[d] = "claim_borrower" /\ b \in cand[d]
  /\ BorrowerClaimable(borrowers[b], now)
  /\ borrowers' = [borrowers EXCEPT ![b] =
                     ReserveBorrower(@, WorkerOf[d], now + RESERVATION_TTL)]
  /\ pc' = [pc EXCEPT ![d] = "undo_agent"]
  /\ held' = [held EXCEPT ![d] = FALSE]
  /\ cand' = [cand EXCEPT ![d] = {}]
  /\ UNCHANGED <<agents, now, pair, rel, rec>>

UndoAgent(d) ==
  /\ pc[d] = "undo_agent"
  /\ agents' = [agents EXCEPT ![pair[d].agent] =
                  release_agent(@, WorkerOf[d], "AVAILABLE", "ALLOCATOR")]
  /\ Finish(d)
  /\ UNCHANGED <<borrowers, now, cand, rec>>

--------------------------------------------------------------------------------------
(* Dialling and the call's end: CallAllocator._dial, EventProcessor and the orphan     *)
(* sweep, as far as they touch the pair.                                               *)

\* RESERVED -> DIALING; the result is ignored and the dial goes on.
MarkDialing(d) ==
  /\ pc[d] = "paired"
  /\ agents' = [agents EXCEPT ![pair[d].agent] =
                  transition_agent(@, "RESERVED", "DIALING", "ALLOCATOR", pair[d].version)]
  /\ pc' = [pc EXCEPT ![d] = "binding"]
  /\ UNCHANGED <<borrowers, now, cand, pair, held, rel, rec>>

BindCall(d) ==
  /\ pc[d] = "binding"
  /\ agents' = [agents EXCEPT ![pair[d].agent] = bind_call(@, WorkerOf[d], d)]
  /\ pc' = [pc EXCEPT ![d] = "dialing"]
  /\ UNCHANGED <<borrowers, now, cand, pair, held, rel, rec>>

\* The provider took the call.  If recovery has ended it meanwhile, its events are void.
Originated(d) ==
  /\ pc[d] = "dialing"
  /\ IF held[d] THEN pc' = [pc EXCEPT ![d] = "live"] /\ UNCHANGED <<pair, held, rel>>
               ELSE Finish(d)
  /\ UNCHANGED <<agents, borrowers, now, cand, rec>>

\* ANSWERED or CONNECTED: the processor reads the agent and moves it by compare-and-set.
AgentConnects(d) ==
  /\ pc[d] = "live"
  /\ agents[pair[d].agent].state = "DIALING"
  /\ agents' = [agents EXCEPT ![pair[d].agent] =
                  transition_agent(@, "DIALING", "CONNECTED", "EVENT_PROCESSOR",
                                   @.state_version)]
  /\ UNCHANGED <<borrowers, now, pc, cand, pair, held, rel, rec>>

\* From here on d gives its pair back: first the agent, then the borrower.
StartRelease(d, actor, target, outcome, next) ==
  /\ pc' = [pc EXCEPT ![d] = "release_agent"]
  /\ held' = [held EXCEPT ![d] = FALSE]
  /\ rel' = [rel EXCEPT ![d] = [actor |-> actor, target |-> target,
                                 outcome |-> outcome, then |-> next]]
  /\ UNCHANGED <<agents, borrowers, now, cand, pair, rec>>

\* Retry gate closed, or the call document was not fresh: nothing was dialled.
NotDialled(d) ==
  pc[d] = "paired" /\ StartRelease(d, "ALLOCATOR", "AVAILABLE", "RELEASED", "done")

\* Rejected, timed out, or its provider id could not be attached: the call is FAILED.
OriginateFails(d) ==
  pc[d] = "dialing" /\ StartRelease(d, "ALLOCATOR", "AVAILABLE", "RETRY", "done")

\* asyncio cancels the dial (worker stop): the pair is released, the call is left open.
\* A dial stopped before it created its call leaves nothing behind.  One that is stopped
\* while it gives its pair back, its call ended or never made, gives it back once more.
DialCancelled(d) ==
  \/ /\ pc[d] \in {"paired", "binding", "dialing"}
     /\ \E next \in IF pc[d] = "paired" THEN {"lost", "done"}
                    ELSE IF held[d] THEN {"lost"} ELSE {"done"} :
          StartRelease(d, "ALLOCATOR", "AVAILABLE", "RELEASED", next)
  \/ /\ pc[d] \in {"release_agent", "release_borrower"}
     /\ rel[d].actor = "ALLOCATOR" /\ rel[d].then = "done"
     /\ StartRelease(d, "ALLOCATOR", "AVAILABLE", "RELEASED", "done")

\* A terminal event wins transition_call; COMPLETED counts as contact if it was answered.
CallCompleted(d) ==
  /\ pc[d] = "live"
  /\ \E outcome \in {"CONTACTED", "RETRY"} :
       StartRelease(d, "EVENT_PROCESSOR", "WRAP_UP", outcome, "done")

CallFailed(d) ==
  pc[d] = "live" /\ StartRelease(d, "EVENT_PROCESSOR", "AVAILABLE", "RETRY", "done")

\* _sweep_orphaned_calls.  CALL_STALE_TIMEOUT_SECONDS exceeds the lease, so the lease the
\* dial took is over by then.
OrphanReconciled(d) ==
  /\ pc[d] \in {"live", "lost"}
  /\ pair[d].agentLease < now
  /\ StartRelease(d, "RECOVERY", "AVAILABLE", "RETRY", "done")

ReleaseAgentStep(d) ==
  /\ pc[d] = "release_agent"
  /\ agents' = [agents EXCEPT ![pair[d].agent] =
                  release_agent(@, WorkerOf[d], rel[d].target, rel[d].actor)]
  /\ pc' = [pc EXCEPT ![d] = "release_borrower"]
  /\ UNCHANGED <<borrowers, now, cand, pair, held, rel, rec>>

ReleaseBorrowerStep(d) ==
  /\ pc[d] = "release_borrower"
  /\ borrowers' = [borrowers EXCEPT ![pair[d].borrower] =
                     release_borrower(@, WorkerOf[d], rel[d].outcome, now)]
  /\ IF rel[d].then = "lost" THEN Abandon(d) ELSE Finish(d)
  /\ UNCHANGED <<agents, now, cand, rec>>

\* The call of dial c is not terminal.
CallOpen(c) ==
  \/ pc[c] = "lost"
  \/ pc[c] \in {"binding", "dialing", "live"} /\ held[c]
  \/ pc[c] \in {"release_agent", "release_borrower"} /\ rel[c].then = "lost"

\* The process dies, or an error ends the tick.  Documents stay as they are; a call that
\* exists stays open.
Crash(d) ==
  /\ pc[d] \notin {"idle", "lost", "done"}
  /\ \/ CallOpen(d) /\ Abandon(d)
     \/ ~CallOpen(d) /\ Finish(d)
     \/ pc[d] = "paired" /\ Abandon(d)
  /\ cand' = [cand EXCEPT ![d] = {}]
  /\ UNCHANGED <<agents, borrowers, now, rec>>

\* The slot d serves for another dial once no document and no sweep names its old call.
Recycle(d) ==
  /\ pc[d] = "done"
  /\ \A a \in Agents : agents[a].current_call_id # d
  /\ rec.pc = "idle"
  /\ pc' = [pc EXCEPT ![d] = "idle"]
  /\ UNCHANGED <<agents, borrowers, now, cand, pair, held, rel, rec>>

--------------------------------------------------------------------------------------
(* Agents, their timers and the clock.                                                 *)

\* What login, logout, pause and resume aim at.
AGENT_ACTIONS == {"AVAILABLE", "OFFLINE", "PAUSED"}

\* An API call: read, then compare-and-set, so one step.
AgentActs(a, target) ==
  /\ validate_transition(agents[a].state, target, "AGENT")
  /\ a \in Leavers \/ agents[a].state \notin {"RESERVED", "DIALING", "CONNECTED"}
  /\ agents[a].state_version < MaxVersion
  /\ agents' = [agents EXCEPT ![a] =
                  transition_agent(@, @.state, target, "AGENT", @.state_version)]
  /\ UNCHANGED <<borrowers, now, pc, cand, pair, held, rel, rec>>

\* The dialer worker's wrap-up timer, and the recovery worker's for stuck ones.
WrapUpEnds(a) ==
  /\ agents[a].state = "WRAP_UP"
  /\ agents' = [agents EXCEPT ![a] =
                  transition_agent(@, "WRAP_UP", "AVAILABLE", "WORKER_TIMER",
                                   @.state_version)]
  /\ UNCHANGED <<borrowers, now, pc, cand, pair, held, rel, rec>>

Tick ==
  /\ now < MaxTime
  /\ now' = now + 1
  /\ UNCHANGED <<agents, borrowers, pc, cand, pair, held, rel, rec>>

--------------------------------------------------------------------------------------
(* RecoveryWorker.run_sweeps: one "now" for the whole round; each sweep first reads     *)
(* its candidates, then handles them one by one.                                       *)

SnapshotOf(a) ==
  [ id |-> a, state |-> agents[a].state, state_version |-> agents[a].state_version,
    current_call_id |-> agents[a].current_call_id ]

BorrowerSnapshotOf(b) ==
  [ id |-> b, status |-> borrowers[b].status, state_version |-> borrowers[b].state_version ]

SweepLeases ==
  /\ rec.pc = "idle"
  /\ rec' = [rec EXCEPT !.pc = "agents", !.to = "AVAILABLE", !.now = now,
               !.agents = { SnapshotOf(a) :
                              a \in { x \in Agents : LeaseSweepable(agents[x], now) } }]
  /\ UNCHANGED <<agents, borrowers, now, pc, cand, pair, held, rel>>

\* _cancel_bound_call, its call write: it trusts the snapshot's current_call_id.
HandleCandidate(s) ==
  LET c == s.current_call_id IN
  /\ rec.pc = "agents" /\ s \in rec.agents
  /\ IF c # NULL /\ CallOpen(c)
     THEN /\ rec' = [rec EXCEPT !.pc = "cancel", !.agents = @ \ {s}, !.cur = s,
                       !.call = c, !.borrower = pair[c].borrower]
          /\ IF pc[c] \in {"live", "lost"} THEN Finish(c)
             ELSE /\ held' = [held EXCEPT ![c] = FALSE]
                  /\ rel' = [rel EXCEPT ![c].then = "done"]
                  /\ UNCHANGED <<pc, pair>>
     ELSE /\ rec' = [rec EXCEPT !.pc = "release", !.agents = @ \ {s}, !.cur = s]
          /\ UNCHANGED <<pc, pair, held, rel>>
  /\ UNCHANGED <<agents, borrowers, now, cand>>

\* _cancel_bound_call, its borrower write.
ReleaseCancelled ==
  /\ rec.pc = "cancel"
  /\ borrowers' = [borrowers EXCEPT ![rec.borrower] =
                     release_borrower(@, WorkerOf[rec.call], "RETRY", now)]
  /\ rec' = [rec EXCEPT !.pc = "release", !.call = NULL, !.borrower = NULL]
  /\ UNCHANGED <<agents, now, pc, cand, pair, held, rel>>

ReleaseCandidate ==
  /\ rec.pc = "release"
  /\ agents' = [agents EXCEPT ![rec.cur.id] =
                  IF rec.to = "AVAILABLE"
                  THEN release_expired_agent_lease(@, rec.cur, rec.now)
                  ELSE transition_agent(@, rec.cur.state, "OFFLINE", "RECOVERY",
                                        rec.cur.state_version)]
  /\ rec' = [rec EXCEPT !.pc = "agents", !.cur = NULL]
  /\ UNCHANGED <<borrowers, now, pc, cand, pair, held, rel>>

SweepBorrowers ==
  /\ rec.pc = "agents" /\ rec.agents = {} /\ rec.to = "AVAILABLE"
  /\ rec' = [rec EXCEPT !.pc = "borrowers",
               !.borrowers = { BorrowerSnapshotOf(b) :
                  b \in { x \in Borrowers : BorrowerSweepable(borrowers[x], rec.now) } }]
  /\ UNCHANGED <<agents, borrowers, now, pc, cand, pair, held, rel>>

ReclaimBorrower(s) ==
  /\ rec.pc = "borrowers" /\ s \in rec.borrowers
  /\ borrowers' = [borrowers EXCEPT ![s.id] = reclaim_borrower(@, s, rec.now)]
  /\ rec' = [rec EXCEPT !.borrowers = @ \ {s}]
  /\ UNCHANGED <<agents, now, pc, cand, pair, held, rel>>

\* find_heartbeat_expired: any set of agents may have gone silent; only Leavers do.
SweepHeartbeats ==
  /\ rec.pc = "borrowers" /\ rec.borrowers = {}
  /\ \E silent \in SUBSET { a \in Leavers : agents[a].state # "OFFLINE" } :
       rec' = [rec EXCEPT !.pc = "agents", !.to = "OFFLINE",
                 !.agents = { SnapshotOf(a) : a \in silent }]
  /\ UNCHANGED <<agents, borrowers, now, pc, cand, pair, held, rel>>

EndSweeps ==
  /\ rec.pc = "agents" /\ rec.agents = {} /\ rec.to = "OFFLINE"
  /\ rec' = NoSweep
  /\ UNCHANGED <<agents, borrowers, now, pc, cand, pair, held, rel>>

\* The recovery task is cancelled or dies between two steps of a sweep.
RecoveryStops ==
  /\ rec.pc # "idle"
  /\ rec' = NoSweep
  /\ UNCHANGED <<agents, borrowers, now, pc, cand, pair, held, rel>>

--------------------------------------------------------------------------------------
Claim(d) ==
  \/ FindAgents(d) \/ NoAgentLeft(d) \/ FindBorrowers(d)
  \/ BorrowerClaimFails(d) \/ UndoAgent(d)
  \/ \E a \in Agents : TryReserveAgent(d, a) \/ AgentContended(d, a)
  \/ \E b \in Borrowers :
       TryReserveBorrower(d, b) \/ BorrowerContended(d, b) \/ BorrowerReplyLost(d, b)

Dial(d) ==
  \/ MarkDialing(d) \/ BindCall(d) \/ Originated(d) \/ AgentConnects(d)
  \/ NotDialled(d) \/ OriginateFails(d) \/ DialCancelled(d)
  \/ CallCompleted(d) \/ CallFailed(d) \/ OrphanReconciled(d)
  \/ ReleaseAgentStep(d) \/ ReleaseBorrowerStep(d) \/ Crash(d) \/ Recycle(d)

AgentStep ==
  \E a \in Agents : WrapUpEnds(a) \/ \E target \in AGENT_ACTIONS : AgentActs(a, target)

Recovery ==
  \/ SweepLeases \/ ReleaseCancelled \/ ReleaseCandidate \/ SweepBorrowers
  \/ SweepHeartbeats \/ EndSweeps \/ RecoveryStops
  \/ \E s \in rec.agents : HandleCandidate(s)
  \/ \E s \in rec.borrowers : ReclaimBorrower(s)

Next == (\E d \in Dials : Claim(d) \/ Dial(d)) \/ AgentStep \/ Recovery \/ Tick

Spec == Init /\ [][Next]_vars

--------------------------------------------------------------------------------------
(* Properties.                                                                         *)

\* The worker of d may rely on its pair: not given back, and by its own copy of the lease
\* the time is not over.
AgentClaimRuns(d) == held[d] /\ pair[d].agent # NULL /\ now <= pair[d].agentLease

BorrowerClaimRuns(d) == held[d] /\ pair[d].borrower # NULL /\ now <= pair[d].borrowerLease

\* While a claim runs, the agent document still carries it: no other worker's release, no
\* sweep and no event took the agent away - unless the agent left in mid-call.
AgentClaimStands ==
  \A d \in Dials : AgentClaimRuns(d) /\ pair[d].agent \notin Leavers =>
    /\ agents[pair[d].agent].reserved_by = WorkerOf[d]
    /\ agents[pair[d].agent].lease_expires_at = pair[d].agentLease
    /\ agents[pair[d].agent].state \in {"RESERVED", "DIALING", "CONNECTED"}

\* The same for the borrower document, whatever agents do.
BorrowerClaimStands ==
  \A d \in Dials : BorrowerClaimRuns(d) =>
    /\ borrowers[pair[d].borrower].reserved_by = WorkerOf[d]
    /\ borrowers[pair[d].borrower].lease_expires_at = pair[d].borrowerLease
    /\ borrowers[pair[d].borrower].status = "RESERVED"

\* No agent serves two running claims, hence no two calls set up in time ...
AgentExclusive ==
  \A d, e \in Dials : AgentClaimRuns(d) /\ AgentClaimRuns(e) /\ d # e =>
    pair[d].agent # pair[e].agent \/ pair[d].agent \in Leavers

\* ... and no borrower is in two of them: nobody is dialled by two workers at once.
BorrowerExclusive ==
  \A d, e \in Dials : BorrowerClaimRuns(d) /\ BorrowerClaimRuns(e) /\ d # e =>
    pair[d].borrower # pair[e].borrower

\* Nothing is stuck out of the sweeps' sight: an agent kept busy and a borrower kept back
\* always carry the lease their sweep looks for.
LeaseCoversBusy ==
  /\ \A a \in Agents : agents[a].state \in {"RESERVED", "DIALING", "CONNECTED"} =>
       agents[a].reserved_by # NULL /\ agents[a].lease_expires_at # NULL
  /\ \A b \in Borrowers : borrowers[b].status = "RESERVED" =>
       borrowers[b].reserved_by # NULL /\ borrowers[b].lease_expires_at # NULL

\* A borrower who can still be dialled has attempts left: an exhausted one never comes back
\* through a release, a reclaimed lease or a lost reply.
AttemptsRemain ==
  \A b \in Borrowers : borrowers[b].status \in {"PENDING", "RESERVED"} =>
    borrowers[b].attempt_count < MAX_CALL_ATTEMPTS

\* A settled borrower stays settled: late releases and stale sweep candidates never
\* reopen one that was contacted or exhausted.
SettledStaysSettled ==
  [][\A b \in Borrowers : borrowers[b].status \in {"CONTACTED", "EXHAUSTED"} =>
       borrowers'[b] = borrowers[b]]_vars

LeasedStates == {"RESERVED", "DIALING", "CONNECTED"}

\* A lease that runs is ended by nobody else.  While it is not over, an agent that stays is
\* given back only by a dial of the worker that signed it and was paired with it; a borrower
\* only by such a dial, or by the sweep that has ended the call of one.  Worker ids may be
\* shared by any number of dials: that is then the only way to lose a running claim.
OnlyItsWorkerEndsAClaim ==
  [][/\ \A a \in Agents \ Leavers :
          /\ agents[a].state \in LeasedStates /\ ~LeaseOver(agents[a].lease_expires_at, now)
          /\ \/ agents'[a].state \notin LeasedStates
             \/ agents'[a].reserved_by # agents[a].reserved_by
          => \E d \in Dials : /\ WorkerOf[d] = agents[a].reserved_by /\ pair[d].agent = a
                              /\ pc[d] \in {"undo_agent", "release_agent"}
     /\ \A b \in Borrowers :
          /\ borrowers[b].status = "RESERVED" /\ ~LeaseOver(borrowers[b].lease_expires_at, now)
          /\ \/ borrowers'[b].status # "RESERVED"
             \/ borrowers'[b].reserved_by # borrowers[b].reserved_by
          => \/ \E d \in Dials : /\ WorkerOf[d] = borrowers[b].reserved_by
                                 /\ pair[d].borrower = b /\ pc[d] = "release_borrower"
             \/ /\ rec.pc = "cancel" /\ rec.borrower = b
                /\ WorkerOf[rec.call] = borrowers[b].reserved_by]_vars

\* What the README says every run asserts, and simulation/invariants.py tests: "no agent
\* bound to two active calls".  Refuted by MCReservationOrphan.cfg.
NoAgentInTwoActiveCalls ==
  \A d, e \in Dials : CallOpen(d) /\ CallOpen(e) /\ d # e => pair[d].agent # pair[e].agent

\* "... no borrower in two active calls", here of calls the provider has accepted.  Refuted
\* by MCReservationRedial.cfg.
NoBorrowerInTwoLiveCalls ==
  \A d, e \in Dials : pc[d] = "live" /\ pc[e] = "live" /\ d # e =>
    pair[d].borrower # pair[e].borrower

\* AgentExclusive without its exception: a reserved agent is nobody else's, whatever it does.
\* Refuted by MCReservationLogout.cfg.
AgentNeverRebooked ==
  \A d, e \in Dials : AgentClaimRuns(d) /\ AgentClaimRuns(e) /\ d # e =>
    pair[d].agent # pair[e].agent

\* What makes the above inductive: a pair that is being given back is not held, ...
HeldWhileDialling ==
  \A d \in Dials : held[d] =>
    pc[d] \in {"find_borrower", "claim_borrower", "paired", "binding", "dialing", "live", "lost"}

\* ... a sweep judges leases by an instant that has passed, takes only agents that leave
\* offline, and releases the borrower only of a call it has ended itself.
SweepIsSound ==
  /\ rec.now <= now
  /\ rec.to = "OFFLINE" =>
       /\ \A s \in rec.agents : s.id \in Leavers
       /\ rec.pc \in {"cancel", "release"} => rec.cur.id \in Leavers
  /\ rec.pc = "cancel" =>
       rec.call \in Dials /\ ~held[rec.call] /\ pc[rec.call] \notin {"idle", "claim_agent"}

ClaimInv ==
  /\ TypeOK /\ AttemptsRemain
  /\ AgentClaimStands /\ BorrowerClaimStands
  /\ HeldWhileDialling /\ SweepIsSound

\* The assumption under which the exclusion properties hold.  A worker id is per process,
\* not per dial, so the repositories' "reserved_by = me" cannot tell a dial from an older
\* one of the same worker.  No dial that has lost its pair may still be about to give
\* back the very agent or borrower a newer dial of its worker holds.
StaleTwin(d, e) == d # e /\ WorkerOf[d] = WorkerOf[e] /\ ~held[d] /\ held[e]

NoStaleTwin ==
  /\ \A d, e \in Dials : StaleTwin(d, e) =>
       /\ pair[d].agent # NULL => pair[d].agent # pair[e].agent
       /\ pair[d].borrower # NULL => pair[d].borrower # pair[e].borrower
  /\ rec.pc = "cancel" =>
       \A e \in Dials : StaleTwin(rec.call, e) => rec.borrower # pair[e].borrower
======================================================================================
