# Smart-Dialer in TLA+

A verification project for the smart dialer in `src/`: TLA+ modules translated from the Python
code, TLC configurations that check them on small instances, and proofs that TLAPS checks for every
value of the constants: of every safety property the runs check, some under a hypothesis that
section 4 names.
`PROJECT.json` maps every definition to the lines it models.

## 1. The system

A dialer process is one asyncio event loop over a MongoDB database that other processes share.
There are no transactions: every write is one conditional update of one document, and everything
that takes two writes can be interrupted, interleaved or fail between them.

| Component | State | Operations | What makes it correct | Where |
|---|---|---|---|---|
| State machines (`state_machines/`) | none | legal transitions, actors, ranks | calls never move back or leave a terminal state | `AgentStateMachine`, `CallStateMachine` |
| Agent, borrower, call repositories | the three collections | compare-and-set claims, releases, transitions, sweep queries | a filter that does not match changes nothing | `AgentRepo`, `BorrowerRepo`, `CallRepo`, `Documents` |
| Reservation service | the pair of a dial | claim agent, claim borrower, undo, release | nobody is claimed twice, nothing is busy without a lease | `Reservation`, `ExclusiveClaims`, `ReservationRefinement`, `ReservationProofs`, `RefinementProofs` |
| Call allocator | a dial in progress | create, transition, originate, attach, compensate | a call document is originated once; every path gives the pair back | `Dialing`, `DialingProofs`; batches in `DialerTick` |
| Mock providers | calls accepted by this process | accept, reject, time out, deliver events swapped or doubled | (environment) | `Dialing`, `ProviderHealth` |
| Event processor | events recorded, the event in hand | record, apply to call, agent, borrower | repetition and reordering change nothing | `Dialing`, `DialingProofs` |
| Recovery worker | the candidates of a sweep | five sweeps | everything abandoned is found; nothing in use is taken | `Reservation`, `Dialing`, `DialingProofs`, `AgentPresence` |
| Provider health, retry service | window of originate outcomes | record, derive status, retry gate | an outage costs a bounded number of calls, and is over once it is over | `ProviderHealth`, `HealthProofs` |
| Dialer worker, pacing, safety | the tick in progress | snapshot, request, evaluate, allocate | limits hold although they are applied to old counts; nobody is passed over | `DialerTick`, `Pacing`, `SafetyController`, `TickProofs`, `SafetyProofs` |
| Campaign routes | status, mode | change status or mode | dialling stops after a pause | `DialerTick` |
| Agent routes, heartbeats, wrap-up service | presence, the end of a wrap-up | login, logout, pause, resume, heartbeat, timers | who is at work is left alone, who is silent is taken off, wrap-ups last their time | `AgentPresence`, `AgentPresenceProofs`; `Reservation` |
| Simulation runner and engine | run records, the simulation database | start, seed, drive, clean up, shutdown, start-up repair | outcomes are final, no run stays RUNNING, engines keep to their own campaign | `SimulationRuns`, `SimulationRunsProofs` |
| Metrics, dashboard, load tests, schemas, indexes | - | - | - | not modelled |

How they interact: the dialer worker ticks each running campaign. A tick counts agents and calls
twice (pacing, then safety) and gives the approved number to the allocator, which claims a pair,
creates a call and asks the provider to originate it. The provider answers with events by
callback, in the same process, in tasks of their own. The event processor moves call, agent and
borrower. The recovery worker repairs from outside what any of them left behind; it knows leases,
heartbeats and ages only, not who is still working.

What is hard here: **interleaving** of single database operations by dials, events, sweeps, agents
and other processes; **stale state** (a sweep acts on documents read many awaits ago, safety on
counts made two queries ago); **partial failure** (each of a dial's eight writes may be the last);
**identity** (a worker id is one per process, so `reserved_by == me` does not tell two dials of
one process apart); **time** (a lease may be over while its holder still relies on it);
**ordering** of provider events; **liveness** (whatever fails, something must find it).
The list with lines is under "hazards" in `PROJECT.json`.

## 2. The modules

### Documents, AgentRepo, BorrowerRepo, CallRepo, AgentStateMachine, CallStateMachine
Pure operators without state. A repository write is split into the filter (`Claimable`,
`ReleaseMatches`, `TransitionMatches`, `BorrowerReleaseMatches`, ...) and the update, so that a
change of one filter is a change of one definition. `LeaseOver` is strict, as `$lt` is.

### Reservation
Several dials of several workers over shared agents and borrowers, a clock that expires leases
and a recovery worker with its candidate lists; one action per database operation. `pair[d]` is
what the dial has in memory, `held[d]` whether it is still the dial's, `rel[d]` a release in
progress (`release_pair` is two writes and may be cut off after the first). Every caller of a
release is there: allocator, cancelled dial, event processor, orphan sweep. The state `lost` is a
dial whose process died: its writes stay, and a later event or sweep releases in its name.
Calls appear only as far as they decide who releases what: `paired` covers the documents'
way from QUEUED to INITIATED. A dial that is stopped gives its pair back once more
(`DialCancelled`), from wherever it is, the middle of another release included.

`ExclusiveClaims` is what a reservation layer promises: a resource has at most one owner and
passes to another only through being nobody's. `ReservationRefinement` maps the owner of a
document to the dial whose claim on it *runs* (not given back, its lease not over by the worker's
own copy), and `ImplementsExclusiveClaims` says every step of the code is one of the promise.

### Dialing
One dial in full, with call documents, recorded events, the provider's view and all five sweeps.
Actions are named after the code's steps (`CreateCall`, `MarkReserved`, `BindCall`, `Originate`,
`Attach`, `LookupCall`, `ApplyEvent`, `ReadAgent`, `MoveAgent`, `EndAgent`, `EndBorrower`,
`SweepAgent`, `CancelBoundCall`, `TakeAgent`, ...). There is no clock: a lease is fresh or has
lapsed and may lapse at any moment, which includes every timing and more. `Fault` counts crashes,
stopped dials, database errors, failed handlers, departing agents and stopped sweeps.
`Dial`, `EventInHand` and `Sweep` are the local variables of the three tasks: what they have read
and have still to write. A changed agent document gets the least version nobody remembers.

Abstractions a reader should know: provider call ids are taken as unique. In the code each process
counts them from one (mock_base.py:132), so after a restart or beside another process they collide
under the unique index; for the newer call this is `AttachFails` (a `Fault`), but an event that is
taken for the other call's, or dropped as its repetition, is not modelled. There is one provider
whom every sweep can ask, although a process knows its own calls only; the calls of a dead process
are forgotten (`Crash`). `AttachFails` leaves events that arrived before the hang-up
unattached; the borrower sweep's query and write are one step, equivalent since nothing else is
conditional on the write; the age of 120 s that makes a call stale is modelled by its purpose
(nobody is setting the call up any more, which `config.py` checks at start-up by
`CALL_STALE_TIMEOUT_SECONDS > PROVIDER_TIMEOUT_SECONDS + RESERVATION_TTL_SECONDS`).

### Pacing, SafetyController, DialerTick
`Pacing` has the request formula, from the outcomes of the last two windows (answer rate, blending
with the campaign's baseline, volatility) to the number of calls, and `SafetyController` the eight limits, the binding constraint,
the fallback and the verdict, in integer arithmetic on percentages. `DialerTick` runs them as the
code does: count agents, count calls, compute the request, count agents again, count calls again,
evaluate (or fail, or come too late), then dial one by one. Rates are whole percentages
(`observed_answer_rate` is floored; the code divides floats). It is coarse where `Dialing` is fine:
a sweep's query and its write, and the writes on a dial's agent and call, are one step, dials are
not cancelled, agents do not leave in mid-call, an event with its effect on the agent is one step, borrowers are plentiful, `GONE` stands for the
worker ids of dead processes, and a snapshot that is too old counts as a fault. The outcomes a tick finds
in its two windows are any with up to `MaxOutcomes` calls. A process runs one
loop; the simulation engine's several workers in one process share an id and are not covered
(section 7).

### AgentPresence
Who is at work. A heartbeat is a write that changes no version, a login two writes (transition,
then heartbeat), a sweep acts on documents it read any number of steps ago, for a `now` taken up to
`MaxSweepDelay` earlier. Instants are ages: of the last heartbeat and of the wrap-up, which stop
growing where no cutoff tells them apart. Instead of numbers, versions are `upToDate`: who has read
the document as it is now (the sweeps' readers, and the agent's own request), which is what every
compare-and-set on `state_version` asks. The call of an agent is kept as far as `_cancel_bound_call`
needs it: the call a candidate names may be over, open, or open but replaced by another. The end of
an earlier call changes no agent (`EarlierCallEnds`); where `release_agent` finds it all the same,
because it is reserved by the same worker again, the agent moves as in `Released` or `CallEnds`. `session`
is history: whether an agent's heartbeats have all been on time since its login. A reader is a
recovery worker or a process whose wrap-up timer runs after a tick.

### ProviderHealth
The window of one process, shared by its dialling loops, against a provider that breaks and is
repaired at any time. A loop asks for the status before a batch (`StartBatch`) and before each
retry (`PassGate`), sends the request some database operations later (`Request`) and records the
outcome when it comes (`Originate`); between any two of these the other loops move and time passes
(`TimePasses`), so the status a step was taken on may be another one when it has its effect. `late`
is history: how many retries each loop has sent since the failures in the window tell. Ages stop
one beyond the window, so the state space is finite. A sample that is too old is dropped at once:
whoever looks at the window trims it first. `Trim` drops the longest prefix of samples
that are too old (`Expired`), as the loop of `popleft`s does: it stops at the first sample that
still counts, whatever comes behind.

### SimulationRuns
Server processes that boot, repair, crash and shut down; requests that look for a RUNNING record
and create one in two steps; the engine from emptying the database to the last sweep, with a
failure or a cancellation at every step. Of the dialling only what touches shared collections is
left: which campaigns the workers have in hand and whether agents are reserved. `raced` is a
history variable: a run was created while another one was RUNNING. The seed empties one collection
after the other (`DeleteCampaigns`, `DeleteAgents`), the insert of a record may succeed and its reply be lost
(`InsertReplyLost`: RUNNING, and no task), workers that have not been stopped yet go on ticking while
others are being stopped, and a cancellation during the last sweeps may be swallowed by them.

## 3. The runs

All passing runs use two TLC workers. Deadlock is not checked except in `simulation_runs` and
`provider_health`: in the others everything may be settled, attempts used up or the clock at its bound.

| Run | Instance | Shows |
|---|---|---|
| `reservation` | 2 workers, 1 dial each again and again, 1 agent, 1 borrower, 2 attempts | running claims stand in the database, nothing is claimed twice, settled borrowers stay settled, reservations are ended in the name of their worker only, `ExclusiveClaims` is implemented |
| `reservation_leavers` | the same, the agent may leave in mid-call | the borrower's side of it survives an agent's departure; whatever is busy has a lease |
| `reservation_shared` | 2 dials at once of one worker id, 1 agent, 2 borrowers | the worker's dials can disturb each other (section 6), nobody else can take a reservation whose lease runs |
| `dialing` | 1 worker, the second of two attempts, swapped and doubled events, no faults | lifecycle; without faults no borrower waits for a lease |
| `dialing_faults` | 2 workers, 1 fault anywhere | one originate per document; lifecycle under crashes |
| `dialing_live` | fairness, 1 fault | every call ends, agents and borrowers come free |
| `dialing_talk` (violation) | no fault | see section 6 |
| `tick` | 1 process, 2 agents, 3 calls, limit 1, both modes, 1 fault | `max_concurrent_calls` is never exceeded; every decision is explained |
| `tick_live` | fairness, 2 agents, 1 call slot, both modes, 1 fault (also pause, stop, crash) | an idle agent is used in the end, whatever the other does; a halted campaign comes to rest |
| `agent_presence` | fairness, 1 agent, 1 recovery worker, 1 timer, errors anywhere | who is on time is left alone, wrap-ups are whole and end, who is silent ends OFFLINE |
| `provider_health` | 2 loops, 2 calls per batch, window 1, 3 samples for a rate, 2 failures to be UNHEALTHY | an outage costs a bounded number of calls and few retries, and ends |
| `simulation_runs` | 1 instance, 2 simulations, unbounded crashes and errors | outcomes are final, nothing is left RUNNING, engines keep to themselves |

**Bounds and why they are enough.** Claim conflicts need two dials on one document: more agents
only add independent documents. One borrower with two attempts reaches both branches of the retry
rule. `MaxTime = 1` with `RESERVATION_TTL = 0` gives a lease that runs and one that is over;
nothing in the code compares leases by more than that. `MaxVersion` limits how often agents act
on their own; four is enough for claim, release, claim and a stale write. `MaxClaims = 2` and one
fault let a second dial meet what the first left behind, which is where all counterexamples of
section 6 come from. `MaxConcurrentCalls = 1` with two agents makes the counted limit bind. In
`provider_health` fewer failures in a row make a provider UNHEALTHY than samples are needed for a
rate, as in the settings (5 and 10); a batch of each of two loops makes a window long enough for a
rate, and one unit of time can fall between any two steps. `reservation` gives each worker one dial
at a time: the exclusion properties are false where two dials share an id (`MCReservationSharedId.cfg`),
which is why `reservation_shared` checks what does hold then. `dialing` starts from the
state a failed first attempt leaves (`InitSecondAttempt`): the retry gate and the exhausted borrower
are reached, and the second attempt's documents lie beside those of the first. `tick_live` has
one call document, so that a second call waits for the first; `MaxOutcomes = 0` there takes the
answer rate from the baseline. `agent_presence` has a timeout and a wrap-up of one clock step, so
that "younger", "just as old" and "older" all occur; a second recovery worker (further
configuration `MCAgentPresenceTwo.cfg`) adds nothing, and the two action properties are proved for
any number of agents, readers and any delay. What the bounds do exclude: two faults in one
behaviour, three processes, and (except in `tick`) two agents with full dials.

**Fairness.** Weak fairness for what an event loop does while its process lives (`Proceed`,
`Process`, `FinishSweep`, `Engine`): coroutines go on. Lapsing of leases and the end of a
wrap-up are the clock. Strong fairness for a sweep to reach a given call or agent: the sweeps come
round every `RECOVERY_TICK_SECONDS` with a limit of 500 and may be stopped in the middle, but not
each time at the same document. In `DialerTick` strong fairness
for a tick that finds a stable answer rate: without it every tick may find a volatile one, whose
factor takes the only call away. In `AgentPresence` the clock goes on and the recovery worker's
loop is weakly fair; a sweep may fail or come after the document has moved on, but not every time
(strong fairness of `CutCall`, `TakeOffline`, `EndWrapUp`): its query and its write are
milliseconds apart, requests and dials of one agent seconds. In `ProviderHealth` only the clock
goes on: a loop that hangs keeps no circuit open. In `SimulationRuns` a process that is down is started again (the platform does) and
survives its first two queries sometime (strong fairness); crashes and failures have none.

## 4. The proofs

### Reservations: `ReservationProofs`, `RefinementProofs`

* `TypeCorrect`, `AttemptsNeverRunOut`: documents keep their types, and a borrower that is PENDING
  or RESERVED has attempts left (`AttemptsRemain`), without any assumption.
* `AgentClaimsStand`, `BorrowerClaimsStand`, `AgentsAreExclusive`, `BorrowersAreExclusive`: under
  `[]NoStaleTwin`, a running claim stands in its documents and no document serves two running claims.
* `ClaimsEndInTheirOwnName` (`OnlyItsWorkerEndsAClaim`), without any assumption on how many dials
  share a worker id: while its lease runs, a reservation is ended only by a release of a dial of
  that id on this agent or borrower, or by the sweep on behalf of a call it has ended.
* `LeasesCoverWhatIsBusy`, `SettledForGood`: whatever is kept busy carries the lease
  that a sweep looks for, and no write changes a borrower that was contacted or is exhausted. No
  assumption about dials is needed: this is what recovery rests on when claims do *not* stand.
* `ReservationImplementsExclusiveClaims` (`RefinementProofs`): under `[]NoStaleTwin` every step is
  one of `ExclusiveClaims` or a stutter.

The exclusion properties are not inductive: a state in which a dial holds an agent whose document
does not say so would allow a second claim. The invariant is

    ClaimInv == TypeOK /\ AttemptsRemain
                /\ AgentClaimStands /\ BorrowerClaimStands   \* memory and document agree
                /\ HeldWhileDialling   \* a pair that is being given back is not held
                /\ SweepIsSound        \* a sweep judges leases by an instant that has passed,
                                       \* and releases borrowers only of calls it has ended

`AgentKept` and `BorrowerKept` are the core: a write to one document keeps all claims if it keeps
owner, lease and state of those that run. For each action it remains to show that its filter
excludes running claims: a release by the worker id (here `NoStaleTwin` is needed: the filter
cannot tell two dials of one worker apart), a sweep because its candidate's lease was over when the
sweep began, so it is over now, or the version has moved on. `ExclusiveStep` then needs only that a
new claim is made on a document that is AVAILABLE or PENDING, which contradicts a running claim's
`AgentClaimStands`. `LeaseInv` adds `ReleasesFree` (no release aims at a busy state) to the types, and
`EndInv` adds `AttemptsRemain` and `SweepInTime` (the sweep's instant has passed): `OwnAgents` and
`OwnBorrowers` follow for each action from the filter of its write, without any claim in memory.
For the refinement `OwnerInv` adds that a dial that looks for a borrower has none yet; exclusion
makes the CHOOSE of the mapping unique, so a step that starts a claim makes one dial the owner of
what was nobody's, and every other step at most ends claims. `NoStaleTwin` is an assumption the code
does *not* guarantee: when a lease runs out under a dial and the same process claims the agent
again, the old dial's release hits the new claim (section 6, `MCReservationSharedId.cfg`). The theorems
that need it say so, and `ClaimsEndInTheirOwnName` says that this is the only way to lose a claim
whose lease runs.

### Dials: `DialingProofs`

For any agents, borrowers and workers, and any number of faults:

* `DialsStayInOrder`, `DialingTypes` (`TypeOK`), `OneOriginate` (`OneOriginatePerCall`);
* `CallsKeepTheLifecycle` (`CallsFollowTheLifecycle`);
* `NoReleaseIsForgotten` (`ReservedBorrowersAreInWork`, under `[]DialsOwnCalls`) and
  `OneWorkerForgetsNothing` (the same without that hypothesis, if there is one worker).

A dial, an event and a sweep each write from what they read steps ago, so the types alone do not
hold by induction: `KeyOf(w)` is a key only while the pair is there and an attempt is left. The
invariant says what each task has in hand and that names lead to documents:

    DialInv == TypeOK
               /\ HandsFull /\ SweepFull /\ HandlersFull  \* a task has what its next write is about
               /\ AttemptsLeft      \* a borrower that can be dialled has an attempt for the key
               /\ NamedCallsExist   \* bound, swept and prepared calls are documents
               /\ ProviderIsLast    \* the provider knows of no call before it was INITIATED,
                                    \* and a provider id is attached only to a call it had
               /\ OneOriginatePerCall

`ProviderIsLast` carries `OneOriginatePerCall`: to come to `initiated` a worker has moved the
document there by a compare-and-set on its rank, so the document was QUEUED or RESERVED, hence
nobody else was sending it and the provider had never had it. Each variable has its own step
predicate (`WorkersKeep`, `AgentsKeep`, `CallsKeep`, ..., together `AllKeep`); the lemmas show for
each action that it does no more than this, and `DialInv'` follows from the predicates alone.
That versions stay numbers rests on a pigeonhole argument (`FreshNumber`): among one number more
than are remembered one is free; this is where `Agents`, `Borrowers` and `Workers` must be finite.

The lifecycle is an action property of `DialInv`: `transition_call` compares ranks, and where a
higher rank is not a move of `CALL_TRANSITIONS` (a QUEUED or RESERVED call that would become
RINGING, say) the writer must be one that never meets such a call. An event is applied only to a
call the provider had, and COMPLETED is settled by a sweep only on the provider's word
(`StepsWriteCalls`, `WritesFollowTheLifecycle`).

`ReservedBorrowersAreInWork` needs more than somebody at work: a release finds the borrower only
under the name in `reserved_by`. `WorkInv` therefore says in whose name the work will be done: the
holder's own hands, or a call with `created_by_worker` equal to the holder that is open or whose
end is being handled (`Pending`). `WorkStays`, `HandsStay` and `SendersStay` are what a step owes
it. A worker that dials on a document another one has created breaks this: its borrower is left to
a release in the wrong name. That is why the general theorem assumes `[]DialsOwnCalls`, which the
code does *not* guarantee with several workers (`MCDialingTakeover.cfg`), and why the one worker of
a deployed instance (README.md:653 of the repository) needs no assumption.

### Ticks: `SafetyProofs`, `TickProofs`

`SafetyProofs` is about one evaluation, for every reading, mode and request: `ApprovalIsBounded`
(the request and all eight limits bound it), `ReductionIsExplained` (whenever less is approved, the
binding constraint is named and its limit is what was approved), `FallbackNeverBinds` (the limits
that stand for the fallback to progressive pacing never approve less than agent capacity does, so
they never reduce anything by themselves), `VerdictIsTrue`.

Of one request of pacing it says: `AnswerRateIsClamped` (the rate it divides by is within the
settings' limits, never 0), `RequestIsBounded` (at most `MAX_REQUEST_PER_TICK`, none to an UNHEALTHY
provider), `ProgressiveNeedsAgents` (request and calls in flight fit the agents that are available,
if the volatility factor is at most one).

`TickProofs` puts them into the loop:

* `TickTypes` and `DecisionsAreExplained`, for any number of processes;
* `OneLoopKeepsTheLimit`: if `Processes = {w}`, `ConcurrencyRespected` always holds, for any agents,
  calls and limits and any faults.

The limit is applied to old counts, so it is not inductive. `TickInv` says what a dial has in hand
(`Hands`: the call it is about, not yet accepted, in the state of its program counter; no two workers
have one call in hand), that a binding names an open call of its agent (`Bindings`) and that only
calls that occupy the provider were accepted (`AcceptedIsActive`). With it, `Budget`:

    Budget(me) == Active <= MaxConcurrentCalls
                  /\ calls read  => Active <= me.active            \* the count is not too low
                  /\ in a batch  => Active + what is left <= MaxConcurrentCalls

`CallsStep` shows that no step but the loop's own `MarkReserved` makes a call active, and that one
pays for it by `left`. With two processes the theorem is false (`MCDialerTickTwo.cfg`).

### Presence: `AgentPresenceProofs`

* `PresenceTypes`; `PresentAgentsAreKept` (`PresentAgentsStay`); `WrapUpsAreWhole` (`WrapUpIsWhole`):
  for any number of agents, recovery workers and timers, any timeouts, any delay of a sweep.

The invariant says what a sweep may still conclude from an old document if the version has not
moved, or even if it has:

    PresenceInv == TypeOK          \* who knows the version knows the state
                   /\ AgentsInOrder    \* an open call has an agent at work on it; on time is not late
                   /\ RequestsKnow     \* so does the agent's own request
                   /\ SweepsInOrder    \* candidates are those of the sweep in hand
                   /\ ReadersKnow      \* a known candidate has not come back, nor begun another wrap-up
                   /\ CallsSeenAreOver \* the call a sweep is about to cut is not the one the agent
                                       \* has now, if the agent has come back since

`WriteStep` and `QuietStep` carry it through all steps that move an agent's version and all that do
not; `CallsSeenAreOver` is the part that no version protects, since `_cancel_bound_call` acts before
the compare-and-set and stands on the identity of the call alone.

### Simulations: `SimulationRunsProofs`

* `RunTypes`, for any number of runs and server instances.
* If `Processes = {p}`, for any number of runs, any crashes, shutdowns and failures:
  `OutcomesAreFinal` (`SettledRunsStay`), `CompletedIsOver` (`CompletedCampaignsAreOff`),
  `WorkersKeepToTheirCampaign` (`OwnCampaignOnly`), `CompletedLeavesNothing` (`NothingLeftReserved`).
  With two instances the first is false (`MCSimulationRunsDeploy.cfg`); the last two allow for two
  POSTs let through together in their statement.

The invariant has a part about each run and one about all of them:

    LifeOf(r)  == what works has a process that is up and a record that is RUNNING, only a timeline
                  ticks, and a campaign the clean-up has stopped stays off
    OneAtATime == ~raced => one simulation, which ticks its own campaign; while it is driving
                  (seed to clean-up) no other campaign is RUNNING; who has passed left none RESERVED

`StepsAreApart` says that a step of a run moves no other run (its seed may delete their campaigns),
so `RunLives` looks at that run only and `ServerLives` at the steps of the process: `reconcile`
meets nothing that works, since what works has a process that is up. That is where the second
instance breaks the argument. `StepsHaveCauses` names the only action behind every change that
matters, and `OneStep` excludes each of them: a second record only with `raced`, a foreign campaign
only by a seed of another RUNNING run, a reserved agent only by the ticks of its own.

### Provider health: `HealthProofs`

For every window, thresholds and batch size: `HealthTypes` (`TypeOK`, with the order of the samples,
on which looking at the oldest alone relies), `OutagesAreContained` (`OutageIsContained`),
`RetriesAreHeldBack` (`RetriesAreContained`), for any number of loops.

The bound of an outage is reached during the batches, so the invariant counts what is still to come:

    HealthInv == TypeOK
                 /\ loops outside a batch have no calls left
                 /\ TrailingFailures(samples) + Cardinality(Slots(pc, left)) <= Limit
                 /\ a retry under way is one whose dial has passed the gate
                 /\ History(FailuresTell(samples), retrying, late)

`Slots` are the calls the loops' batches may still make and those they are making, `Limit` is
`UNHEALTHY_CONSECUTIVE_FAILURES - 1 + Cardinality(Loops) * MAX_REQUEST_PER_TICK`. A batch is approved
only if the failures at the end of the window are fewer than the threshold (`ManyFailures`); each
outcome adds at most one failure and takes one slot (`SlotsAnswer`), and time only takes failures
away. The bound is about the failures in the window, that is in a row and within
`HEALTH_WINDOW_SECONDS`: an outage that lasts longer gets a further batch of each loop after each
window. `History` is the argument for the retries: once the failures tell, the gate is closed, so a
loop with a retry under way has sent none since, and no other is let through; the loop whose failure
told was waiting for the answer, so it had none under way. One loop by itself therefore sends none.
The lemmas about the window: both CHOOSEs have one value (`CountIs`, `ExpiredIsPrefix`), trimming
drops a prefix and never adds failures (`TrimKeeps`), ageing and appending keep the order
(`AgedKeeps`, `AppendedKeeps`).

TLC finds `DialInv`, `HealthInv` and, as long as `DialsOwnCalls` holds, `NothingForgotten` true on
the instances of `dialing`, `dialing_faults` and `provider_health`: a module that extends the MC module and the
module of proofs, with the invariant in the configuration, is all it takes.

### Assumptions

Assumptions of the proofs are the named `ASSUME`s of the modules; TLC evaluates them in the runs.
Most give the types of the constants and say that `NULL` is none of their values.
`DialingAssumption` adds that agents, borrowers and workers are finitely many, `DocumentAssumption`
that `NULL` is neither a document nor the key of one; `PacingAssumption` and
`HealthAssumption` are the ranges of the settings, the latter with finitely many loops. The hypotheses that are not about constants,
`[]NoStaleTwin` and `[]DialsOwnCalls`, stand in the theorems that need them, with the condition
under which they always hold: one worker for the second, proved beside it; one unfinished dial under
each worker id for the first, as in the instances of `reservation`.

## 5. What is only model-checked

Liveness: fairness and ENABLED are beyond the prover. These are `CallsEnd`, `AgentsComeFree` and
`BorrowersComeBack` (`dialing_live`), `HaltedCampaignDrains` and `IdleAgentsAreUsed` (`tick_live`),
`SilentAgentsEndOffline` and `WrapUpsEnd` (`agent_presence`), `OutageEnds` and `RepairIsNoticed`
(`provider_health`), `RunsSettle` (`simulation_runs`), and the two of section 6 that are refuted
(`ConversationsGoOn`, `BorrowersSettle`). Every other property of a passing run is a theorem of section 4, some under the hypotheses
named there: one dial per worker, workers that dial their own calls, one dialling process, one
server instance. Without them the properties are false (section 6), and the instances of the runs
meet them.

No module has a RECURSIVE operator, and no proof needs induction over data: the samples of a window
and the versions of an agent are reasoned about by least elements.

## 6. What the code does otherwise than its documents say

One disagreement is a run that TLC must find violated:

* `dialing_talk` (`ConversationsGoOn`). Leases are never renewed, and the lease sweep takes agents
  that are DIALING or CONNECTED too: a conversation longer than `RESERVATION_TTL_SECONDS` (30 s) is
  cancelled by recovery while the process is alive.

The further configurations are not in the list of runs. Each is checked with
`tlc -workers 2 -config X.cfg M` and ends in a violation found within a minute or two:

| Configuration | Property | What happens |
|---|---|---|
| `MCReservationSharedId.cfg` | `AgentExclusive` | two dials of one worker id: the older one's late release frees what the newer one holds (docs/agent-state-machine.md:61) |
| `MCReservationLogout.cfg` | `AgentNeverRebooked` | logout and login in mid-call make a claimed agent AVAILABLE again (README.md:392) |
| `MCReservationOrphan.cfg` | `NoAgentInTwoActiveCalls` | a cancelled dial frees its pair and leaves its call open (README.md:564) |
| `MCReservationRedial.cfg` | `NoBorrowerInTwoLiveCalls` | a borrower's lease runs out during the call of an agent who has left (README.md:564) |
| `MCDialingReorder.cfg` | `ReorderingIsHarmless` | CONNECTED before ANSWERED: the call ends without `answered_at` (README.md:224) |
| `MCDialingTakeover.cfg` | `DialsOwnCalls` | a QUEUED call of a dead worker is dialled by the next one (README.md:280) |
| `MCDialingStuck.cfg` | `BorrowersSettle` | a dial is stopped after `create_call`; its document stays under the key (agent, borrower, attempt), so every later dial of the pair finds it, gives up and counts no attempt. No document says otherwise |
| `MCDialingCharge.cfg` | `AttemptsAreEndedCalls` | a sweep's late RETRY release charges the borrower's next claim (README.md:405) |
| `MCDialerTickTwo.cfg` | `ConcurrencyRespected` | two processes count before either dials (README.md:356-361) |
| `MCAgentPresenceSilent.cfg` | `SilentAgentsLeave` | the second write of a login fails and no heartbeat follows: a document without one matches no cutoff (README.md:399) |
| `MCAgentPresenceLogin.cfg` | `OfflineMeansSilent` | the agent was silent when it was read; its heartbeat since then changes no version, and it is taken off (docs/agent-state-machine.md:42) |
| `MCSimulationRunsTwice.cfg` | `OneSimulation` | two POSTs pass the check together (runner.py:54) |
| `MCSimulationRunsDeploy.cfg` | `SettledRunsStay` | a new instance starts before the old one has ended; both write the outcome |

`MCDialingRetry.cfg` (both attempts from the beginning, no reordering: the safety of the second
attempt) passes. So do `MCAgentPresenceTwo.cfg` (two recovery workers) and `MCDialerTickHalt.cfg` (one agent, two calls at
a time, liveness of the tick with volatile answer rates).

## 7. Not modelled, and the plan

Left out for good: metrics, dashboard, load tests, validation and formatting (reads, appends,
display); index creation (its effect, one document per key, is in `Dialing`); the time counters of
agents (`total_talk_time` and the like: nothing decides on them); `scripts/run_simulation.py`, which
runs an engine on the simulation database without a run record, so that nothing keeps it apart from
the server's runs.

Written so far, in this order: reservation (most important: everything rests on it), its proofs,
dialing, safety and its proofs, the tick, provider health, simulation runs, presence; then the
proofs of leases, of the refinement, of pacing, of the tick, of presence and of simulation runs,
and last those of the dial and of provider health.
Next:

1. A constant `LoopOf` in `DialerTick` for several loops under one worker id, as the simulation
   engine runs them, and several campaigns in one loop.
2. At-most-once application of events in `Dialing`, stated against an abstract log of each call.
3. Agents of `AgentPresence` with the full dials of `Dialing`: two agents, one of them leaving.
