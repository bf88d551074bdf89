--------------------------------- MODULE SimulationRuns ---------------------------------
(* Simulations started over HTTP (simulation/runner.py, engine.py): the run records, the     *)
(* engine that seeds, drives and cleans up the simulation database, and what the start of a  *)
(* server process repairs (main.py, lifespan).  Server processes crash, are shut down and    *)
(* started again; database operations may fail.                                              *)
EXTENDS Naturals, FiniteSets

CONSTANTS
  Runs,          \* simulations somebody asks for, each once
  Processes,     \* server instances that may be up
  NULL

ASSUME RunsAssumption ==
  /\ NULL \notin Runs /\ NULL \notin Processes
  /\ NULL \notin {"RUNNING", "COMPLETED", "FAILED", "STOPPED", "OFFLINE", "AVAILABLE", "RESERVED",
                  "ON_CALL"}

VARIABLES
  record,        \* collection simulation_runs: the status of each run's document, or NULL
  campaign,      \* simulation database: the status of each run's campaign, or NULL
  agents,        \* ... and what its agents are doing, or NULL
  server,        \* where each process is in its life
  task,          \* SimulationRunner._task of each process
  by,            \* the process that handles each run
  pc,            \* where start, _execute and SimulationEngine.run are
  report,        \* the engine's outcome so far ("passed" again when the task is over)
  ticking,       \* the campaigns the run's dialer workers found RUNNING and have still to tick
  recovering,    \* the run's recovery worker is going
  raced          \* a run was created while another was RUNNING (history)

docs == <<campaign, agents>>
engine == <<report, ticking, recovering>>
vars == <<record, campaign, agents, server, task, by, pc, report, ticking, recovering, raced>>

Outcomes == {"passed", "violations", "error", "cancelled"}
Seeding == {"created", "emptying", "seeding", "inserting"}
CleaningUp == {"stopping_campaign", "draining", "settling", "checking"}
Working == Seeding \cup CleaningUp \cup {"starting", "timeline", "stopping_workers", "finishing"}

Running(r) == record[r] = "RUNNING"

Init ==
  /\ record = [r \in Runs |-> NULL]
  /\ campaign = [r \in Runs |-> NULL] /\ agents = [r \in Runs |-> NULL]
  /\ server = [p \in Processes |-> "down"] /\ task = [p \in Processes |-> NULL]
  /\ by = [r \in Runs |-> NULL] /\ pc = [r \in Runs |-> "new"]
  /\ report = [r \in Runs |-> "passed"]
  /\ ticking = [r \in Runs |-> {}] /\ recovering = [r \in Runs |-> FALSE]
  /\ raced = FALSE

------------------------------------------------------------------------------------------
(* The life of a server process.                                                            *)

Boot(p) ==
  /\ server[p] = "down"
  /\ server' = [server EXCEPT ![p] = "reconciling"]
  /\ UNCHANGED <<record, docs, task, by, pc, engine, raced>>

Interrupted_bug(status) == status # NULL

\* SimulationRunner.reconcile: whatever is RUNNING was interrupted.
Interrupted(status) == status = "RUNNING"

Reconcile_bug(p) ==
  /\ server[p] = "reconciling"
  /\ server' = [server EXCEPT ![p] = "stopping_campaigns"]
  /\ UNCHANGED <<record, docs, task, by, pc, engine, raced>>

Reconcile(p) ==
  /\ server[p] = "reconciling"
  /\ record' = [r \in Runs |-> IF Interrupted(record[r]) THEN "FAILED" ELSE record[r]]
  /\ server' = [server EXCEPT ![p] = "stopping_campaigns"]
  /\ UNCHANGED <<docs, task, by, pc, engine, raced>>

\* stop_orphaned_simulation_campaigns
StopOrphans(p) ==
  /\ server[p] = "stopping_campaigns"
  /\ campaign' = [r \in Runs |-> IF campaign[r] = "RUNNING" THEN "STOPPED" ELSE campaign[r]]
  /\ server' = [server EXCEPT ![p] = "up"]
  /\ UNCHANGED <<record, agents, task, by, pc, engine, raced>>

\* What ends with a process: its handlers, tasks, workers and timers.
Die(p) ==
  LET mine == { r \in Runs : by[r] = p }
  IN /\ server' = [server EXCEPT ![p] = "down"]
     /\ task' = [task EXCEPT ![p] = NULL]
     /\ pc' = [r \in Runs |-> IF r \in mine THEN "gone" ELSE pc[r]]
     /\ ticking' = [r \in Runs |-> IF r \in mine THEN {} ELSE ticking[r]]
     /\ recovering' = [r \in Runs |-> r \notin mine /\ recovering[r]]
     /\ report' = [r \in Runs |-> IF r \in mine THEN "passed" ELSE report[r]]
     /\ UNCHANGED <<record, docs, by, raced>>

\* Also a start-up that cannot reach the database.
Crash(p) == server[p] # "down" /\ Die(p)

\* lifespan, after the last request has been answered: shutdown cancels the task the runner
\* remembers, which is the one started last.  A task that has not begun is dropped, the
\* timeline is left for the clean-up, the clean-up itself is broken off - except for the
\* stop of a worker, of recovery or of the heartbeats, which take the cancellation for their
\* own (dialer_worker.py:52, recovery_worker.py:68, agent_simulator.py:80) and go on.  When
\* the record is being written the cancellation may come too late.
BeginShutdown(p) ==
  /\ server[p] = "up"
  /\ \A r \in Runs : by[r] = p => pc[r] # "checked"
  /\ server' = [server EXCEPT ![p] = "shutting_down"]
  /\ LET r == task[p]
         Cancelled(next) == /\ pc' = [pc EXCEPT ![r] = next]
                            /\ report' = [report EXCEPT ![r] = "cancelled"]
         Dropped == pc' = [pc EXCEPT ![r] = "done"] /\ report' = [report EXCEPT ![r] = "passed"]
     IN IF r = NULL \/ pc[r] \notin Working
        THEN UNCHANGED <<pc, report>>
        ELSE \/ pc[r] = "created" /\ Dropped
             \/ pc[r] \in Seeding \cup CleaningUp /\ Cancelled("finishing")
             \/ pc[r] \in {"starting", "timeline"} /\ Cancelled("stopping_workers")
             \/ pc[r] = "finishing" /\ Dropped
             \/ pc[r] \in {"stopping_workers", "settling", "finishing"} /\ UNCHANGED <<pc, report>>
  /\ UNCHANGED <<record, docs, task, by, ticking, recovering, raced>>

EndShutdown(p) ==
  /\ server[p] = "shutting_down"
  /\ task[p] # NULL => pc[task[p]] \notin Working
  /\ Die(p)

------------------------------------------------------------------------------------------
(* POST /simulations: SimulationRunner.start.                                               *)

\* find_running; with a RUNNING record the request is refused and nothing changes.
CheckRunning(p, r) ==
  /\ server[p] = "up" /\ pc[r] = "new"
  /\ \A s \in Runs : ~Running(s)
  /\ pc' = [pc EXCEPT ![r] = "checked"] /\ by' = [by EXCEPT ![r] = p]
  /\ UNCHANGED <<record, docs, server, task, engine, raced>>

\* runs.create: two requests that were both let through are told apart from now on.
Insert(r) ==
  /\ pc[r] = "checked"
  /\ raced' = (raced \/ \E s \in Runs : Running(s))
  /\ record' = [record EXCEPT ![r] = "RUNNING"]

CreateRecord(r) ==
  /\ Insert(r)
  /\ task' = [task EXCEPT ![by[r]] = r]
  /\ pc' = [pc EXCEPT ![r] = "created"]
  /\ UNCHANGED <<docs, server, by, engine>>

\* The record is in the database, its reply is lost: no task is started for it.
InsertReplyLost(r) ==
  /\ Insert(r)
  /\ pc' = [pc EXCEPT ![r] = "done"]
  /\ UNCHANGED <<docs, server, task, by, engine>>

StartFails(r) ==
  /\ pc[r] = "checked"
  /\ pc' = [pc EXCEPT ![r] = "done"]
  /\ UNCHANGED <<record, docs, server, task, by, engine, raced>>

------------------------------------------------------------------------------------------
(* SimulationEngine.run.                                                                    *)

Move(r, from, to) == pc[r] = from /\ pc' = [pc EXCEPT ![r] = to]

\* _seed empties the simulation database, one collection after the other ...
DeleteCampaigns_bug(r) ==
  /\ Move(r, "created", "emptying")
  /\ UNCHANGED <<record, docs, server, task, by, engine, raced>>

DeleteCampaigns(r) ==
  /\ Move(r, "created", "emptying")
  /\ campaign' = [s \in Runs |-> NULL]
  /\ UNCHANGED <<record, agents, server, task, by, engine, raced>>

DeleteAgents(r) ==
  /\ Move(r, "emptying", "seeding")
  /\ agents' = [s \in Runs |-> NULL]
  /\ UNCHANGED <<record, campaign, server, task, by, engine, raced>>

\* ... inserts a campaign that is RUNNING, and then its agents and borrowers.
InsertCampaign(r) ==
  /\ Move(r, "seeding", "inserting")
  /\ campaign' = [campaign EXCEPT ![r] = "RUNNING"]
  /\ UNCHANGED <<record, agents, server, task, by, engine, raced>>

InsertAgents(r) ==
  /\ Move(r, "inserting", "starting")
  /\ agents' = [agents EXCEPT ![r] = "OFFLINE"]
  /\ UNCHANGED <<record, campaign, server, task, by, engine, raced>>

\* Seeding stands before the try: a failure leaves what has been inserted.
SeedFails(r) ==
  /\ \E at \in Seeding : Move(r, at, "finishing")
  /\ report' = [report EXCEPT ![r] = "error"]
  /\ UNCHANGED <<record, docs, server, task, by, ticking, recovering, raced>>

\* Agents log in, the dialer workers and the recovery worker start.
StartWorkers(r) ==
  /\ Move(r, "starting", "timeline")
  /\ agents' = [agents EXCEPT ![r] = IF @ = "OFFLINE" THEN "AVAILABLE" ELSE @]
  /\ recovering' = [recovering EXCEPT ![r] = TRUE]
  /\ UNCHANGED <<record, campaign, server, task, by, report, ticking, raced>>

\* run_once of a worker: every campaign that is RUNNING now is going to be ticked.  Workers
\* not stopped yet go on while another one is.
BeginTick(r) ==
  /\ pc[r] \in {"timeline", "stopping_workers"}
  /\ ticking' = [ticking EXCEPT ![r] = @ \cup { c \in Runs : campaign[c] = "RUNNING" }]
  /\ UNCHANGED <<record, docs, server, task, by, pc, report, recovering, raced>>

ClaimAgent(r, c) ==
  /\ c \in ticking[r] /\ agents[c] = "AVAILABLE"
  /\ agents' = [agents EXCEPT ![c] = "RESERVED"]
  /\ UNCHANGED <<record, campaign, server, task, by, pc, engine, raced>>

\* A dial of the campaign's tick ends, and with it the tick, unless there is more to dial or
\* another worker is at it: a reserved agent is on a call or has been given back.
EndTick(r, c) ==
  /\ c \in ticking[r]
  /\ ticking' = [ticking EXCEPT ![r] = @ \ {c}] \/ UNCHANGED ticking
  /\ \/ /\ agents[c] = "RESERVED"
        /\ \E next \in {"ON_CALL", "AVAILABLE"} : agents' = [agents EXCEPT ![c] = next]
     \/ agents[c] # "RESERVED" /\ UNCHANGED agents
  /\ UNCHANGED <<record, campaign, server, task, by, pc, report, recovering, raced>>

\* A call ends by its events, or its lease runs out and a recovery worker that still goes
\* takes the agent back, whichever campaign it is of.
AgentComesFree(r, c) ==
  /\ \/ agents[c] = "ON_CALL" /\ pc[r] \in {"timeline", "stopping_workers"} \cup CleaningUp
     \/ agents[c] \in {"RESERVED", "ON_CALL"} /\ recovering[r]
  /\ agents' = [agents EXCEPT ![c] = "AVAILABLE"]
  /\ UNCHANGED <<record, campaign, server, task, by, pc, engine, raced>>

\* The deadline, a confirmed violation, or an exception in log_everyone_in or the timeline.
TimelineEnds(r, outcome) ==
  /\ \/ Move(r, "timeline", "stopping_workers") /\ outcome \in {"passed", "violations", "error"}
     \/ Move(r, "starting", "stopping_workers") /\ outcome = "error"
  /\ report' = [report EXCEPT ![r] = outcome]
  /\ UNCHANGED <<record, docs, server, task, by, ticking, recovering, raced>>

\* DialerWorker.stop: ticks come to their end, or are cancelled after the grace period, in
\* the middle of a dial perhaps.
StopWorkers_bug(r) ==
  /\ Move(r, "stopping_workers", "stopping_campaign")
  /\ UNCHANGED <<record, docs, server, task, by, engine, raced>>

StopWorkers(r) ==
  /\ Move(r, "stopping_workers", "stopping_campaign")
  /\ ticking' = [ticking EXCEPT ![r] = {}]
  /\ UNCHANGED <<record, docs, server, task, by, report, recovering, raced>>

StopCampaign_bug(r) ==
  /\ Move(r, "stopping_campaign", "draining")
  /\ UNCHANGED <<record, docs, server, task, by, engine, raced>>

StopCampaign(r) ==
  /\ Move(r, "stopping_campaign", "draining")
  /\ campaign' = [campaign EXCEPT ![r] = IF @ = NULL THEN NULL ELSE "STOPPED"]
  /\ UNCHANGED <<record, agents, server, task, by, engine, raced>>

\* No active call is left, or the budget is used up.
Drain(r) ==
  /\ Move(r, "draining", "settling")
  /\ UNCHANGED <<record, docs, server, task, by, engine, raced>>

\* Recovery, heartbeats and provider stop; _settle lets all leases of the campaign expire
\* and sweeps once.  A sweep that fails is logged and the agents stay as they are.
Settle(r) ==
  /\ Move(r, "settling", IF report[r] = "cancelled" THEN "finishing" ELSE "checking")
  /\ recovering' = [recovering EXCEPT ![r] = FALSE]
  /\ \/ agents' = [agents EXCEPT ![r] = IF @ \in {"RESERVED", "ON_CALL"} THEN "AVAILABLE" ELSE @]
     \/ UNCHANGED agents
  /\ UNCHANGED <<record, campaign, server, task, by, report, ticking, raced>>

\* The final check finds agents left RESERVED, or something this module does not show; the
\* metrics need the campaign's document.
FinalCheck(r) ==
  /\ Move(r, "checking", "finishing")
  /\ \/ campaign[r] = NULL /\ report' = [report EXCEPT ![r] = "error"]
     \/ campaign[r] # NULL /\ agents[r] = "RESERVED" /\ report' = [report EXCEPT ![r] = "violations"]
     \/ campaign[r] # NULL /\ agents[r] # "RESERVED"
        /\ (UNCHANGED report \/ report' = [report EXCEPT ![r] = "violations"])
  /\ UNCHANGED <<record, docs, server, task, by, ticking, recovering, raced>>

\* An exception in the finally block or after it: the rest of the clean-up is not done, and
\* a recovery worker not yet stopped goes on.
CleanupFails(r) ==
  /\ \E at \in CleaningUp : Move(r, at, "finishing")
  /\ report' = [report EXCEPT ![r] = "error"]
  /\ UNCHANGED <<record, docs, server, task, by, ticking, recovering, raced>>

Finish_bug(r) ==                           \* a status that no reader of the records knows
  /\ Move(r, "finishing", "done")
  /\ record' = [record EXCEPT ![r] = CASE report[r] = "passed"    -> "COMPLETED"
                                      [] report[r] = "cancelled" -> "CANCELLED"
                                      [] OTHER                   -> "FAILED"]
  /\ report' = [report EXCEPT ![r] = "passed"]
  /\ UNCHANGED <<docs, server, task, by, ticking, recovering, raced>>

\* _finish writes whatever the document says by now.
Finish(r) ==
  /\ Move(r, "finishing", "done")
  /\ record' = [record EXCEPT ![r] = IF report[r] = "passed" THEN "COMPLETED" ELSE "FAILED"]
  /\ report' = [report EXCEPT ![r] = "passed"]
  /\ UNCHANGED <<docs, server, task, by, ticking, recovering, raced>>

FinishFails(r) ==
  /\ Move(r, "finishing", "done")
  /\ report' = [report EXCEPT ![r] = "passed"]
  /\ UNCHANGED <<record, docs, server, task, by, ticking, recovering, raced>>

------------------------------------------------------------------------------------------
Start(r) == (\E p \in Processes : CheckRunning(p, r)) \/ CreateRecord(r)
            \/ InsertReplyLost(r) \/ StartFails(r)

Engine(r) ==
  \/ DeleteCampaigns(r) \/ DeleteAgents(r) \/ InsertCampaign(r) \/ InsertAgents(r)
  \/ SeedFails(r) \/ StartWorkers(r)
  \/ \E outcome \in Outcomes : TimelineEnds(r, outcome)
  \/ StopWorkers(r) \/ StopCampaign(r) \/ Drain(r) \/ Settle(r) \/ FinalCheck(r)
  \/ CleanupFails(r) \/ Finish(r) \/ FinishFails(r)

Dialing(r) == BeginTick(r) \/ \E c \in Runs : ClaimAgent(r, c) \/ EndTick(r, c) \/ AgentComesFree(r, c)

Server(p) ==
  \/ Boot(p) \/ Reconcile(p) \/ StopOrphans(p) \/ Crash(p) \/ BeginShutdown(p) \/ EndShutdown(p)

Next == (\E p \in Processes : Server(p)) \/ (\E r \in Runs : Start(r) \/ Engine(r) \/ Dialing(r))

Spec == Init /\ [][Next]_vars

\* Event loops go on while their process lives; a process that is down is started again,
\* and not killed during its first two queries every time.
FairSpec ==
  /\ Spec
  /\ \A r \in Runs :
       /\ WF_vars(CreateRecord(r) \/ InsertReplyLost(r) \/ StartFails(r))
       /\ WF_vars(Engine(r))
  /\ \A p \in Processes :
       WF_vars(Boot(p)) /\ SF_vars(Reconcile(p)) /\ SF_vars(StopOrphans(p)) /\ WF_vars(EndShutdown(p))

------------------------------------------------------------------------------------------
TypeOK ==
  /\ record \in [Runs -> {NULL, "RUNNING", "COMPLETED", "FAILED"}]
  /\ campaign \in [Runs -> {NULL, "RUNNING", "STOPPED"}]
  /\ agents \in [Runs -> {NULL, "OFFLINE", "AVAILABLE", "RESERVED", "ON_CALL"}]
  /\ server \in [Processes -> {"down", "reconciling", "stopping_campaigns", "up", "shutting_down"}]
  /\ task \in [Processes -> Runs \cup {NULL}]
  /\ by \in [Runs -> Processes \cup {NULL}]
  /\ pc \in [Runs -> Working \cup {"new", "checked", "done", "gone"}]
  /\ report \in [Runs -> Outcomes]
  /\ ticking \in [Runs -> SUBSET Runs]
  /\ recovering \in [Runs -> BOOLEAN] /\ raced \in BOOLEAN
  /\ \A r \in Runs : pc[r] # "new" => by[r] # NULL
  /\ \A p \in Processes : task[p] # NULL => by[task[p]] = p

\* A run that has been settled stays as it was reported: neither a restart's reconcile nor
\* the unconditional update of _finish overwrites another outcome.  With one instance at a
\* time; an instance that is started before the old one has ended makes both happen
\* (MCSimulationRunsDeploy.cfg).
SettledRunsStay ==
  [][\A r \in Runs : record[r] \in {"COMPLETED", "FAILED"} => record'[r] = record[r]]_vars

\* Whoever reads COMPLETED can rely on the campaign being off: nobody goes on dialling it,
\* even if two simulations were started at once.
CompletedCampaignsAreOff ==
  \A r \in Runs : record[r] = "COMPLETED" => campaign[r] # "RUNNING"

\* The workers of an engine tick every campaign they find RUNNING.  It is their own only,
\* in spite of seeds that failed half-way, campaigns left by a dead process and clean-ups
\* that broke off - unless two POSTs were let through together.
OwnCampaignOnly == ~raced => \A r \in Runs : ticking[r] \subseteq {r}

\* A run reported COMPLETED has left no agent RESERVED, and no worker or sweep of it or of
\* another run makes one RESERVED later (README.md:564-566) - with the same exception.
NothingLeftReserved ==
  ~raced => \A r \in Runs : record[r] = "COMPLETED" => agents[r] # "RESERVED"

\* The result of a run could not be written, or its task was dropped before it began or never
\* started because the reply of the insert was lost; when the process goes, pc says "gone".
Lost(r) == Running(r) /\ pc[r] = "done"

\* No run stays RUNNING for ever, which would refuse every later simulation: it is finished
\* by its task, or by the next start of the process; only a lost result has to wait for one.
RunsSettle ==
  \A r \in Runs : Running(r) ~> (~Running(r) \/ Lost(r))

\* What start's error message says: "A simulation is already running" (runner.py:54).  Two
\* requests that both look before either has created its record get past it.  Refuted by
\* MCSimulationRunsTwice.cfg.
OneSimulation == \A r, s \in Runs : Running(r) /\ Running(s) => r = s
==========================================================================================
