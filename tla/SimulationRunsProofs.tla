------------------------------ MODULE SimulationRunsProofs ------------------------------
(* Proofs about SimulationRuns: with one server instance at a time, whatever crashes, fails *)
(* or is cancelled, outcomes are final and a run that is reported COMPLETED is over.         *)
EXTENDS SimulationRuns, TLAPS

\* A run is somebody's once it has passed the check for a RUNNING record.
NewRunsAreNobodys == \A r \in Runs : pc[r] = "new" => by[r] = NULL

\* What holds of every run while one instance is up at a time.
LifeOf(r) ==
  \* Until its record is created it has none.
  /\ pc[r] \in {"new", "checked"} => record[r] = NULL
  \* What works lives: its process is up, and shuts down only when no request is in hand.
  /\ pc[r] = "checked" => server[by[r]] = "up"
  /\ pc[r] \in Working => server[by[r]] \in {"up", "shutting_down"}
  \* What works has its record: nobody has taken it for interrupted.
  /\ pc[r] \in Working => record[r] = "RUNNING"
  \* Only the workers of a timeline tick.
  /\ ticking[r] # {} => pc[r] \in {"timeline", "stopping_workers"}
  \* Once the clean-up has stopped the campaign it is off for good, whoever looks at it.
  /\ \/ pc[r] \in {"draining", "settling", "checking"}
     \/ pc[r] = "finishing" /\ report[r] = "passed"
     \/ record[r] = "COMPLETED"
     => campaign[r] # "RUNNING"

LifeInv == TypeOK /\ NewRunsAreNobodys /\ \A r \in Runs : LifeOf(r)

\* From its seed to the end of its clean-up a run has the simulation database.
Driving == Working \ {"created", "finishing"}

\* The run has been found in order, or is already reported so.
Passed(r) == (pc[r] = "finishing" /\ report[r] = "passed") \/ record[r] = "COMPLETED"

\* While no two POSTs have been let through together one simulation is going, and since it
\* emptied the database there is no other campaign to tick.
OneAtATime ==
  ~raced =>
    /\ OneSimulation
    /\ OwnCampaignOnly
    /\ \A r, c \in Runs : pc[r] \in Driving /\ campaign[c] = "RUNNING" => c = r
    /\ \A r \in Runs : Passed(r) => agents[r] # "RESERVED"

RunsInv == LifeInv /\ OneAtATime

--------------------------------------------------------------------------------------
(* Types and lives, for any number of instances.                                         *)

BaseInv == TypeOK /\ NewRunsAreNobodys

\* What the statuses at work are.
LEMMA Statuses ==
  /\ "created" \in Seeding /\ "finishing" \in Working /\ "timeline" \in Working
  /\ Working = {"created", "emptying", "seeding", "inserting", "stopping_campaign", "draining", "settling",
                "checking", "starting", "timeline", "stopping_workers", "finishing"}
  BY DEF Working, Seeding, CleaningUp

\* Every step keeps the types, whoever takes it.
LEMMA BaseStep == BaseInv /\ [Next]_vars => BaseInv'
  <1> SUFFICES ASSUME BaseInv, [Next]_vars PROVE BaseInv'
    OBVIOUS
  <1> USE RunsAssumption DEF docs, engine, Outcomes, Seeding, CleaningUp
  <1>1. ASSUME NEW p \in Processes, Boot(p) PROVE BaseInv'
    BY <1>1, Statuses DEF BaseInv, TypeOK, NewRunsAreNobodys, Boot
  <1>2. ASSUME NEW p \in Processes, Reconcile(p) PROVE BaseInv'
    BY <1>2, Statuses DEF BaseInv, TypeOK, NewRunsAreNobodys, Reconcile
  <1>3. ASSUME NEW p \in Processes, StopOrphans(p) PROVE BaseInv'
    BY <1>3, Statuses DEF BaseInv, TypeOK, NewRunsAreNobodys, StopOrphans
  <1>4. ASSUME NEW p \in Processes, BeginShutdown(p) PROVE BaseInv'
    BY <1>4, Statuses DEF BaseInv, TypeOK, NewRunsAreNobodys, BeginShutdown
  <1>5. ASSUME NEW p \in Processes, Die(p) PROVE BaseInv'
    BY <1>5, Statuses DEF BaseInv, TypeOK, NewRunsAreNobodys, Die
  <1>6. ASSUME NEW p \in Processes, NEW r \in Runs, CheckRunning(p, r) PROVE BaseInv'
    BY <1>6, Statuses DEF BaseInv, TypeOK, NewRunsAreNobodys, CheckRunning
  <1>7. ASSUME NEW r \in Runs, CreateRecord(r) PROVE BaseInv'
    BY <1>7, Statuses DEF BaseInv, TypeOK, NewRunsAreNobodys, CreateRecord, Insert
  <1>8. ASSUME NEW r \in Runs, StartFails(r) PROVE BaseInv'
    BY <1>8, Statuses DEF BaseInv, TypeOK, NewRunsAreNobodys, StartFails
  <1>9. ASSUME NEW r \in Runs, DeleteCampaigns(r) PROVE BaseInv'
    BY <1>9, Statuses DEF BaseInv, TypeOK, NewRunsAreNobodys, DeleteCampaigns, Move
  <1>10. ASSUME NEW r \in Runs, InsertCampaign(r) PROVE BaseInv'
    BY <1>10, Statuses DEF BaseInv, TypeOK, NewRunsAreNobodys, InsertCampaign, Move
  <1>11. ASSUME NEW r \in Runs, InsertAgents(r) PROVE BaseInv'
    BY <1>11, Statuses DEF BaseInv, TypeOK, NewRunsAreNobodys, InsertAgents, Move
  <1>12. ASSUME NEW r \in Runs, SeedFails(r) PROVE BaseInv'
    BY <1>12, Statuses DEF BaseInv, TypeOK, NewRunsAreNobodys, SeedFails, Move
  <1>13. ASSUME NEW r \in Runs, StartWorkers(r) PROVE BaseInv'
    BY <1>13, Statuses DEF BaseInv, TypeOK, NewRunsAreNobodys, StartWorkers, Move
  <1>14. ASSUME NEW r \in Runs, NEW o \in Outcomes, TimelineEnds(r, o) PROVE BaseInv'
    BY <1>14, Statuses DEF BaseInv, TypeOK, NewRunsAreNobodys, TimelineEnds, Move
  <1>15. ASSUME NEW r \in Runs, StopWorkers(r) PROVE BaseInv'
    BY <1>15, Statuses DEF BaseInv, TypeOK, NewRunsAreNobodys, StopWorkers, Move
  <1>16. ASSUME NEW r \in Runs, StopCampaign(r) PROVE BaseInv'
    BY <1>16, Statuses DEF BaseInv, TypeOK, NewRunsAreNobodys, StopCampaign, Move
  <1>17. ASSUME NEW r \in Runs, Drain(r) PROVE BaseInv'
    BY <1>17, Statuses DEF BaseInv, TypeOK, NewRunsAreNobodys, Drain, Move
  <1>18. ASSUME NEW r \in Runs, Settle(r) PROVE BaseInv'
    BY <1>18, Statuses DEF BaseInv, TypeOK, NewRunsAreNobodys, Settle, Move
  <1>19. ASSUME NEW r \in Runs, FinalCheck(r) PROVE BaseInv'
    BY <1>19, Statuses DEF BaseInv, TypeOK, NewRunsAreNobodys, FinalCheck, Move
  <1>20. ASSUME NEW r \in Runs, CleanupFails(r) PROVE BaseInv'
    BY <1>20, Statuses DEF BaseInv, TypeOK, NewRunsAreNobodys, CleanupFails, Move
  <1>21. ASSUME NEW r \in Runs, Finish(r) PROVE BaseInv'
    BY <1>21, Statuses DEF BaseInv, TypeOK, NewRunsAreNobodys, Finish, Move
  <1>22. ASSUME NEW r \in Runs, FinishFails(r) PROVE BaseInv'
    BY <1>22, Statuses DEF BaseInv, TypeOK, NewRunsAreNobodys, FinishFails, Move
  <1>23. ASSUME NEW r \in Runs, BeginTick(r) PROVE BaseInv'
    BY <1>23, Statuses DEF BaseInv, TypeOK, NewRunsAreNobodys, BeginTick
  <1>24. ASSUME NEW r \in Runs, NEW c \in Runs, ClaimAgent(r, c) PROVE BaseInv'
    BY <1>24, Statuses DEF BaseInv, TypeOK, NewRunsAreNobodys, ClaimAgent
  <1>25. ASSUME NEW r \in Runs, NEW c \in Runs, EndTick(r, c) PROVE BaseInv'
    BY <1>25, Statuses DEF BaseInv, TypeOK, NewRunsAreNobodys, EndTick
  <1>26. ASSUME NEW r \in Runs, NEW c \in Runs, AgentComesFree(r, c) PROVE BaseInv'
    BY <1>26, Statuses DEF BaseInv, TypeOK, NewRunsAreNobodys, AgentComesFree
  <1>27. CASE UNCHANGED vars
    BY <1>27 DEF vars, BaseInv, TypeOK, NewRunsAreNobodys
  <1>28. ASSUME NEW r \in Runs, DeleteAgents(r) PROVE BaseInv'
    BY <1>28, Statuses DEF BaseInv, TypeOK, NewRunsAreNobodys, DeleteAgents, Move
  <1>29. ASSUME NEW r \in Runs, InsertReplyLost(r) PROVE BaseInv'
    BY <1>29, Statuses DEF BaseInv, TypeOK, NewRunsAreNobodys, InsertReplyLost, Insert
  <1> QED
    BY <1>1, <1>2, <1>3, <1>4, <1>5, <1>6, <1>7, <1>8, <1>9, <1>10, <1>11, <1>12, <1>13, <1>14, <1>15, <1>16, <1>17, <1>18, <1>19, <1>20, <1>21, <1>22, <1>23, <1>24, <1>25, <1>26, <1>27, <1>28, <1>29
       DEF Next, Server, Start, Engine, Dialing, Crash, EndShutdown

--------------------------------------------------------------------------------------
(* One instance at a time.                                                              *)

\* A step of a run leaves the other runs where they are, but for their campaigns, which
\* its seed deletes.
Apart(r) ==
  /\ server' = server
  /\ \A s \in Runs \ {r} :
       /\ pc'[s] = pc[s] /\ by'[s] = by[s] /\ record'[s] = record[s]
       /\ ticking'[s] = ticking[s] /\ report'[s] = report[s]
       /\ campaign'[s] = campaign[s] \/ campaign'[s] = NULL

\* So it is with every step of every run.
LEMMA StepsAreApart ==
  ASSUME TypeOK, NEW r \in Runs, Start(r) \/ Engine(r) \/ Dialing(r)
  PROVE  Apart(r)
  <1> USE DEF docs, engine, Apart, TypeOK, Move
  <1>1. ASSUME NEW q \in Processes, CheckRunning(q, r) PROVE Apart(r)
    BY <1>1 DEF CheckRunning
  <1>2. CASE CreateRecord(r)
    BY <1>2 DEF CreateRecord, Insert
  <1>3. CASE StartFails(r)
    BY <1>3 DEF StartFails
  <1>4. CASE DeleteCampaigns(r)
    BY <1>4 DEF DeleteCampaigns
  <1>5. CASE InsertCampaign(r)
    BY <1>5 DEF InsertCampaign
  <1>6. CASE InsertAgents(r)
    BY <1>6 DEF InsertAgents
  <1>7. CASE SeedFails(r)
    BY <1>7 DEF SeedFails
  <1>8. CASE StartWorkers(r)
    BY <1>8 DEF StartWorkers
  <1>9. ASSUME NEW o \in Outcomes, TimelineEnds(r, o) PROVE Apart(r)
    BY <1>9 DEF TimelineEnds
  <1>10. CASE StopWorkers(r)
    BY <1>10 DEF StopWorkers
  <1>11. CASE StopCampaign(r)
    BY <1>11 DEF StopCampaign
  <1>12. CASE Drain(r)
    BY <1>12 DEF Drain
  <1>13. CASE Settle(r)
    BY <1>13 DEF Settle
  <1>14. CASE FinalCheck(r)
    BY <1>14 DEF FinalCheck
  <1>15. CASE CleanupFails(r)
    BY <1>15 DEF CleanupFails
  <1>16. CASE Finish(r)
    BY <1>16 DEF Finish
  <1>17. CASE FinishFails(r)
    BY <1>17 DEF FinishFails
  <1>18. CASE BeginTick(r)
    BY <1>18 DEF BeginTick
  <1>19. ASSUME NEW c \in Runs, ClaimAgent(r, c) PROVE Apart(r)
    BY <1>19 DEF ClaimAgent
  <1>20. ASSUME NEW c \in Runs, EndTick(r, c) PROVE Apart(r)
    BY <1>20 DEF EndTick
  <1>21. ASSUME NEW c \in Runs, AgentComesFree(r, c) PROVE Apart(r)
    BY <1>21 DEF AgentComesFree
  <1>22. CASE DeleteAgents(r)
    BY <1>22 DEF DeleteAgents
  <1>23. CASE InsertReplyLost(r)
    BY <1>23 DEF InsertReplyLost, Insert
  <1> QED
    BY <1>1, <1>2, <1>3, <1>4, <1>5, <1>6, <1>7, <1>8, <1>9, <1>10, <1>11, <1>12, <1>13, <1>14, <1>15, <1>16, <1>17, <1>18, <1>19, <1>20, <1>21, <1>22, <1>23
       DEF Start, Engine, Dialing

\* What does not move lives on.
LEMMA LifeGoesOn ==
  ASSUME NEW s \in Runs, LifeOf(s), pc'[s] = pc[s], by'[s] = by[s], record'[s] = record[s],
         server'[by[s]] = server[by[s]], ticking'[s] = ticking[s], report'[s] = report[s],
         campaign'[s] \in {campaign[s], NULL, "STOPPED"}
  PROVE  LifeOf(s)'
  BY RunsAssumption DEF LifeOf

\* A step of a run leaves that run alive as LifeOf says, with any number of instances.
LEMMA RunLives ==
  ASSUME LifeInv, NEW r \in Runs, Start(r) \/ Engine(r) \/ Dialing(r)
  PROVE  LifeOf(r)'
  <1> USE RunsAssumption, Statuses DEF docs, engine, LifeOf, LifeInv, Move
  <1>1. ASSUME NEW q \in Processes, CheckRunning(q, r) PROVE LifeOf(r)'
    BY <1>1 DEF CheckRunning, TypeOK
  <1>2. CASE CreateRecord(r)
    BY <1>2 DEF CreateRecord, Insert, TypeOK
  <1>3. CASE StartFails(r)
    BY <1>3 DEF StartFails, TypeOK
  <1>4. CASE DeleteCampaigns(r)
    BY <1>4 DEF DeleteCampaigns, TypeOK
  <1>5. CASE InsertCampaign(r)
    BY <1>5 DEF InsertCampaign, TypeOK
  <1>6. CASE InsertAgents(r)
    BY <1>6 DEF InsertAgents, TypeOK
  <1>7. CASE SeedFails(r)
    BY <1>7 DEF SeedFails, TypeOK, Seeding, CleaningUp
  <1>8. CASE StartWorkers(r)
    BY <1>8 DEF StartWorkers, TypeOK
  <1>9. ASSUME NEW o \in Outcomes, TimelineEnds(r, o) PROVE LifeOf(r)'
    BY <1>9 DEF TimelineEnds, TypeOK
  <1>10. CASE StopWorkers(r)
    BY <1>10 DEF StopWorkers, TypeOK
  <1>11. CASE StopCampaign(r)
    BY <1>11 DEF StopCampaign, TypeOK
  <1>12. CASE Drain(r)
    BY <1>12 DEF Drain, TypeOK
  <1>13. CASE Settle(r)
    BY <1>13 DEF Settle, TypeOK
  <1>14. CASE FinalCheck(r)
    BY <1>14 DEF FinalCheck, TypeOK, Seeding, CleaningUp
  <1>15. CASE CleanupFails(r)
    BY <1>15 DEF CleanupFails, TypeOK, Seeding, CleaningUp
  <1>16. CASE Finish(r)
    BY <1>16 DEF Finish, TypeOK
  <1>17. CASE FinishFails(r)
    BY <1>17 DEF FinishFails, TypeOK
  <1>18. CASE BeginTick(r)
    BY <1>18 DEF BeginTick, TypeOK
  <1>19. ASSUME NEW c \in Runs, ClaimAgent(r, c) PROVE LifeOf(r)'
    BY <1>19 DEF ClaimAgent, TypeOK
  <1>20. ASSUME NEW c \in Runs, EndTick(r, c) PROVE LifeOf(r)'
    BY <1>20 DEF EndTick, TypeOK
  <1>21. ASSUME NEW c \in Runs, AgentComesFree(r, c) PROVE LifeOf(r)'
    BY <1>21 DEF AgentComesFree, TypeOK
  <1>22. CASE DeleteAgents(r)
    BY <1>22 DEF DeleteAgents, TypeOK
  <1>23. CASE InsertReplyLost(r)
    BY <1>23 DEF InsertReplyLost, Insert, TypeOK
  <1> QED
    BY <1>1, <1>2, <1>3, <1>4, <1>5, <1>6, <1>7, <1>8, <1>9, <1>10, <1>11, <1>12, <1>13, <1>14, <1>15, <1>16, <1>17, <1>18, <1>19, <1>20, <1>21, <1>22, <1>23
       DEF Start, Engine, Dialing

\* A step of a server, while there is no other.
LEMMA ServerLives ==
  ASSUME NEW p, Processes = {p}, LifeInv, NEW s \in Runs, NEW q \in Processes, Server(q)
  PROVE  LifeOf(s)'
  <1> USE RunsAssumption, Statuses DEF docs, engine
  <1>0. /\ LifeOf(s)
        /\ pc[s] # "new" => by[s] = q
        /\ pc[s] = "new" => by[s] = NULL
        /\ server \in [Processes -> {"down", "reconciling", "stopping_campaigns", "up", "shutting_down"}]
        /\ pc \in [Runs -> Working \cup {"new", "checked", "done", "gone"}]
        /\ report \in [Runs -> Outcomes]
        /\ task[q] \in Runs \cup {NULL}
    BY DEF LifeInv, TypeOK, NewRunsAreNobodys
  <1>1. CASE Boot(q)
    BY <1>0, <1>1 DEF Boot, LifeOf
  <1>2. CASE Reconcile(q)
    BY <1>0, <1>2 DEF Reconcile, Interrupted, LifeOf
  <1>3. CASE StopOrphans(q)
    BY <1>0, <1>3 DEF StopOrphans, LifeOf
  <1>4. CASE BeginShutdown(q)
    BY <1>0, <1>4 DEF BeginShutdown, LifeOf, Seeding, CleaningUp
  <1>5. CASE Die(q)
    BY <1>0, <1>5 DEF Die, LifeOf
  <1> QED BY <1>1, <1>2, <1>3, <1>4, <1>5 DEF Server, Crash, EndShutdown

\* So every step keeps LifeOf for every run.
LEMMA LifeStep ==
  ASSUME NEW p, Processes = {p}, LifeInv, [Next]_vars
  PROVE  LifeInv'
  <1>1. BaseInv'
    BY BaseStep DEF LifeInv, BaseInv
  <1>2. ASSUME NEW s \in Runs PROVE LifeOf(s)'
    <2>1. ASSUME NEW q \in Processes, Server(q) PROVE LifeOf(s)'
      BY <2>1, ServerLives
    <2>2. ASSUME NEW r \in Runs, Start(r) \/ Engine(r) \/ Dialing(r) PROVE LifeOf(s)'
      <3>1. CASE s = r
        BY <2>2, <3>1, RunLives
      <3>2. CASE s # r
        <4>1. Apart(r)
          BY <2>2, StepsAreApart DEF LifeInv
        <4>2. LifeOf(s)
          BY DEF LifeInv
        <4> QED BY <3>2, <4>1, <4>2, LifeGoesOn DEF Apart
      <3> QED BY <3>1, <3>2
    <2>3. CASE UNCHANGED vars
      <3>1. LifeOf(s)
        BY DEF LifeInv
      <3> QED BY <2>3, <3>1, LifeGoesOn DEF vars
    <2> QED BY <2>1, <2>2, <2>3 DEF Next
  <1> QED BY <1>1, <1>2 DEF LifeInv, BaseInv

-------------------------------------------------------------------------------------
(* While no two POSTs have been let through together.                                  *)

\* What every change that matters goes back to.
Causes(s) ==
  /\ record'[s] = "RUNNING" => record[s] = "RUNNING" \/ Insert(s)
  /\ ticking'[s] \subseteq ticking[s] \/ BeginTick(s)
  /\ campaign'[s] = "RUNNING" => campaign[s] = "RUNNING" \/ InsertCampaign(s)
  /\ pc'[s] \in Driving => pc[s] \in Driving \/ DeleteCampaigns(s)
  /\ agents'[s] = "RESERVED" => agents[s] = "RESERVED" \/ \E r \in Runs : ClaimAgent(r, s)
  /\ Passed(s)' => Passed(s) \/ (FinalCheck(s) /\ agents[s] # "RESERVED")

\* A step changes what matters by the named actions only.
LEMMA StepsHaveCauses ==
  ASSUME TypeOK, NEW s \in Runs, [Next]_vars
  PROVE  Causes(s) /\ (raced => raced')
  <1> USE RunsAssumption, Statuses DEF docs, engine, Driving, Passed, Causes, TypeOK, Move
  <1>1. ASSUME NEW q \in Processes, Boot(q) PROVE Causes(s) /\ (raced => raced')
    BY <1>1 DEF Boot
  <1>2. ASSUME NEW q \in Processes, Reconcile(q) PROVE Causes(s) /\ (raced => raced')
    BY <1>2 DEF Reconcile
  <1>3. ASSUME NEW q \in Processes, StopOrphans(q) PROVE Causes(s) /\ (raced => raced')
    BY <1>3 DEF StopOrphans
  <1>4. ASSUME NEW q \in Processes, BeginShutdown(q) PROVE Causes(s) /\ (raced => raced')
    BY <1>4 DEF BeginShutdown, Seeding, CleaningUp
  <1>5. ASSUME NEW q \in Processes, Die(q) PROVE Causes(s) /\ (raced => raced')
    BY <1>5 DEF Die
  <1>6. ASSUME NEW q \in Processes, NEW r \in Runs, CheckRunning(q, r) PROVE Causes(s) /\ (raced => raced')
    BY <1>6 DEF CheckRunning
  <1>7. ASSUME NEW r \in Runs, CreateRecord(r) PROVE Causes(s) /\ (raced => raced')
    <2>1. /\ pc[r] = "checked" /\ pc' = [pc EXCEPT ![r] = "created"]
          /\ record' = [record EXCEPT ![r] = "RUNNING"]
          /\ raced => raced'
          /\ UNCHANGED <<docs, ticking, report>>
      BY <1>7 DEF CreateRecord, Insert
    <2>2. record'[s] = "RUNNING" => record[s] = "RUNNING" \/ Insert(s)
      BY <1>7, <2>1 DEF CreateRecord
    <2>3. /\ pc'[s] \in Driving => pc[s] \in Driving
          /\ Passed(s)' => Passed(s)
      BY <2>1
    <2> QED BY <2>1, <2>2, <2>3
  <1>8. ASSUME NEW r \in Runs, StartFails(r) PROVE Causes(s) /\ (raced => raced')
    BY <1>8 DEF StartFails
  <1>9. ASSUME NEW r \in Runs, DeleteCampaigns(r) PROVE Causes(s) /\ (raced => raced')
    BY <1>9 DEF DeleteCampaigns
  <1>10. ASSUME NEW r \in Runs, InsertCampaign(r) PROVE Causes(s) /\ (raced => raced')
    BY <1>10 DEF InsertCampaign
  <1>11. ASSUME NEW r \in Runs, InsertAgents(r) PROVE Causes(s) /\ (raced => raced')
    BY <1>11 DEF InsertAgents
  <1>12. ASSUME NEW r \in Runs, SeedFails(r) PROVE Causes(s) /\ (raced => raced')
    BY <1>12 DEF SeedFails
  <1>13. ASSUME NEW r \in Runs, StartWorkers(r) PROVE Causes(s) /\ (raced => raced')
    BY <1>13 DEF StartWorkers
  <1>14. ASSUME NEW r \in Runs, NEW o \in Outcomes, TimelineEnds(r, o) PROVE Causes(s) /\ (raced => raced')
    BY <1>14 DEF TimelineEnds
  <1>15. ASSUME NEW r \in Runs, StopWorkers(r) PROVE Causes(s) /\ (raced => raced')
    BY <1>15 DEF StopWorkers
  <1>16. ASSUME NEW r \in Runs, StopCampaign(r) PROVE Causes(s) /\ (raced => raced')
    BY <1>16 DEF StopCampaign
  <1>17. ASSUME NEW r \in Runs, Drain(r) PROVE Causes(s) /\ (raced => raced')
    BY <1>17 DEF Drain
  <1>18. ASSUME NEW r \in Runs, Settle(r) PROVE Causes(s) /\ (raced => raced')
    BY <1>18 DEF Settle
  <1>19. ASSUME NEW r \in Runs, FinalCheck(r) PROVE Causes(s) /\ (raced => raced')
    <2>1. /\ pc' = [pc EXCEPT ![r] = "finishing"] /\ pc[r] = "checking"
          /\ UNCHANGED <<record, docs, ticking, raced>>
      BY <1>19 DEF FinalCheck
    <2>2. CASE s = r
      <3>1. Passed(s)' => Passed(s) \/ agents[s] # "RESERVED"
        BY <1>19, <2>1, <2>2 DEF FinalCheck
      <3> QED BY <1>19, <2>1, <2>2, <3>1
    <2>3. CASE s # r
      <3>1. report'[s] = report[s]
        BY <1>19, <2>3 DEF FinalCheck
      <3> QED BY <2>1, <2>3, <3>1
    <2> QED BY <2>2, <2>3
  <1>20. ASSUME NEW r \in Runs, CleanupFails(r) PROVE Causes(s) /\ (raced => raced')
    BY <1>20 DEF CleanupFails
  <1>21. ASSUME NEW r \in Runs, Finish(r) PROVE Causes(s) /\ (raced => raced')
    BY <1>21 DEF Finish
  <1>22. ASSUME NEW r \in Runs, FinishFails(r) PROVE Causes(s) /\ (raced => raced')
    BY <1>22 DEF FinishFails
  <1>23. ASSUME NEW r \in Runs, BeginTick(r) PROVE Causes(s) /\ (raced => raced')
    BY <1>23 DEF BeginTick
  <1>24. ASSUME NEW r \in Runs, NEW c \in Runs, ClaimAgent(r, c) PROVE Causes(s) /\ (raced => raced')
    <2>1. UNCHANGED <<record, campaign, pc, report, ticking, raced>>
      BY <1>24 DEF ClaimAgent
    <2>2. agents'[s] = "RESERVED" => agents[s] = "RESERVED" \/ \E x \in Runs : ClaimAgent(x, s)
      <3>1. CASE s = c
        <4>1. ClaimAgent(r, s)
          BY <1>24, <3>1
        <4> QED BY <4>1
      <3>2. CASE s # c
        BY <1>24, <3>2 DEF ClaimAgent
      <3> QED BY <3>1, <3>2
    <2>3. Passed(s)' => Passed(s)
      BY <2>1
    <2> QED BY <2>1, <2>2, <2>3
  <1>25. ASSUME NEW r \in Runs, NEW c \in Runs, EndTick(r, c) PROVE Causes(s) /\ (raced => raced')
    BY <1>25 DEF EndTick
  <1>26. ASSUME NEW r \in Runs, NEW c \in Runs, AgentComesFree(r, c) PROVE Causes(s) /\ (raced => raced')
    BY <1>26 DEF AgentComesFree
  <1>27. CASE UNCHANGED vars
    BY <1>27 DEF vars
  <1>28. ASSUME NEW r \in Runs, DeleteAgents(r) PROVE Causes(s) /\ (raced => raced')
    BY <1>28 DEF DeleteAgents
  <1>29. ASSUME NEW r \in Runs, InsertReplyLost(r) PROVE Causes(s) /\ (raced => raced')
    BY <1>29 DEF InsertReplyLost, Insert
  <1> QED
    BY <1>1, <1>2, <1>3, <1>4, <1>5, <1>6, <1>7, <1>8, <1>9, <1>10, <1>11, <1>12, <1>13, <1>14, <1>15, <1>16, <1>17, <1>18, <1>19, <1>20, <1>21, <1>22, <1>23, <1>24, <1>25, <1>26, <1>27, <1>28, <1>29
       DEF Next, Server, Start, Engine, Dialing, Crash, EndShutdown

\* Each cause of what would break OneAtATime needs what OneAtATime excludes.
LEMMA OneStep ==
  ASSUME LifeInv, OneAtATime, [Next]_vars
  PROVE  OneAtATime'
  <1> SUFFICES ASSUME ~raced', NEW r \in Runs
               PROVE  /\ \A s \in Runs : Running(r)' /\ Running(s)' => r = s
                      /\ ticking'[r] \subseteq {r}
                      /\ \A c \in Runs : pc'[r] \in Driving /\ campaign'[c] = "RUNNING" => c = r
                      /\ Passed(r)' => agents'[r] # "RESERVED"
    BY DEF OneAtATime, OneSimulation, OwnCampaignOnly
  <1>1. ASSUME NEW s \in Runs PROVE Causes(s)
    BY StepsHaveCauses DEF LifeInv
  <1>2. ~raced
    BY StepsHaveCauses DEF LifeInv
  <1>3. /\ \A x, y \in Runs : Running(x) /\ Running(y) => x = y
        /\ \A x \in Runs : ticking[x] \subseteq {x}
        /\ \A x, c \in Runs : pc[x] \in Driving /\ campaign[c] = "RUNNING" => c = x
        /\ \A x \in Runs : Passed(x) => agents[x] # "RESERVED"
    BY <1>2 DEF OneAtATime, OneSimulation, OwnCampaignOnly
  <1>4. /\ \A x \in Runs : pc[x] \in Working => Running(x)
        /\ \A x \in Runs : ticking[x] # {} => pc[x] \in {"timeline", "stopping_workers"}
    BY DEF LifeInv, LifeOf, Running
  <1>5. record \in [Runs -> {NULL, "RUNNING", "COMPLETED", "FAILED"}]
        /\ campaign \in [Runs -> {NULL, "RUNNING", "STOPPED"}]
        /\ pc \in [Runs -> Working \cup {"new", "checked", "done", "gone"}]
    BY DEF LifeInv, TypeOK
  <1>6. ASSUME NEW s \in Runs, Running(r)', Running(s)', r # s PROVE FALSE
    <2>1. ASSUME NEW x \in Runs, NEW y \in Runs, x # y, Insert(x) PROVE ~Running(y)'
      BY <1>5, <2>1 DEF Insert, Running
    <2>2. Running(r) /\ Running(s)
      BY <1>1, <1>6, <2>1 DEF Causes, Running
    <2> QED BY <1>3, <1>6, <2>2
  <1>7. ticking'[r] \subseteq {r}
    <2>1. CASE BeginTick(r)
      <3>1. /\ ticking'[r] = ticking[r] \cup { c \in Runs : campaign[c] = "RUNNING" }
            /\ pc[r] \in {"timeline", "stopping_workers"}
        BY <2>1 DEF BeginTick, LifeInv, TypeOK
      <3>2. pc[r] \in Driving
        BY <3>1, Statuses DEF Driving
      <3> QED BY <1>3, <3>1, <3>2
    <2>2. CASE ticking'[r] \subseteq ticking[r]
      BY <1>3, <2>2
    <2> QED BY <1>1, <2>1, <2>2 DEF Causes
  <1>8. ASSUME NEW c \in Runs, pc'[r] \in Driving, campaign'[c] = "RUNNING", c # r PROVE FALSE
    <2>1. CASE DeleteCampaigns(r)
      <3>1. campaign'[c] = NULL
        BY <2>1 DEF DeleteCampaigns
      <3> QED BY <1>8, <3>1, RunsAssumption
    <2>2. CASE InsertCampaign(c)
      <3>1. pc[c] = "seeding" /\ pc'[r] = pc[r]
        BY <1>5, <1>8, <2>2 DEF InsertCampaign, Move
      <3>2. Running(r) /\ Running(c)
        BY <1>4, <1>8, <3>1, Statuses DEF Driving
      <3> QED BY <1>3, <1>8, <3>2
    <2>3. CASE pc[r] \in Driving /\ campaign[c] = "RUNNING"
      BY <1>3, <1>8, <2>3
    <2> QED BY <1>1, <1>8, <2>1, <2>2, <2>3 DEF Causes
  <1>9. ASSUME Passed(r)', agents'[r] = "RESERVED" PROVE FALSE
    <2>1. CASE FinalCheck(r) /\ agents[r] # "RESERVED"
      <3>1. agents' = agents
        BY <2>1 DEF FinalCheck, docs
      <3> QED BY <1>9, <2>1, <3>1
    <2>2. ASSUME Passed(r), NEW q \in Runs, ClaimAgent(q, r) PROVE FALSE
      <3>1. r \in ticking[q]
        BY <2>2 DEF ClaimAgent
      <3>2. pc[r] \in {"timeline", "stopping_workers"}
        BY <1>3, <1>4, <3>1
      <3>3. record[r] = "RUNNING"
        BY <1>4, <3>2, Statuses DEF Running
      <3> QED BY <2>2, <3>2, <3>3 DEF Passed
    <2>3. CASE Passed(r) /\ agents[r] = "RESERVED"
      BY <1>3, <2>3
    <2> QED BY <1>1, <1>9, <2>1, <2>2, <2>3 DEF Causes
  <1> QED BY <1>6, <1>7, <1>8, <1>9

\* An outcome is only written over a record that is RUNNING or not there yet.
LEMMA OutcomesStay ==
  ASSUME LifeInv, NEW s \in Runs, record[s] \in {"COMPLETED", "FAILED"}, [Next]_vars
  PROVE  record'[s] = record[s]
  <1> USE DEF docs, engine
  <1>1. /\ record \in [Runs -> {NULL, "RUNNING", "COMPLETED", "FAILED"}]
        /\ pc[s] \notin Working /\ pc[s] # "checked"
    BY RunsAssumption DEF LifeInv, TypeOK, LifeOf
  <1>2. ASSUME NEW q \in Processes, Reconcile(q) PROVE record'[s] = record[s]
    BY <1>2 DEF Reconcile, Interrupted
  <1>3. ASSUME NEW r \in Runs, Insert(r) PROVE record'[s] = record[s]
    BY <1>1, <1>3 DEF Insert
  <1>4. ASSUME NEW r \in Runs, Finish(r) PROVE record'[s] = record[s]
    BY <1>1, <1>4, Statuses DEF Finish, Move
  <1>5. CASE record' = record
    BY <1>5
  <1>6. \/ record' = record
        \/ \E q \in Processes : Reconcile(q)
        \/ \E r \in Runs : Insert(r) \/ Finish(r)
    BY DEF Next, vars, Server, Start, Engine, Dialing, Crash, EndShutdown, Boot, StopOrphans,
           BeginShutdown, Die, CheckRunning, CreateRecord, InsertReplyLost, StartFails,
           DeleteCampaigns, DeleteAgents, InsertCampaign, InsertAgents, SeedFails, StartWorkers, TimelineEnds, StopWorkers, StopCampaign, Drain, Settle,
           FinalCheck, CleanupFails, FinishFails, BeginTick, ClaimAgent, EndTick, AgentComesFree
  <1> QED BY <1>2, <1>3, <1>4, <1>5, <1>6

-------------------------------------------------------------------------------------
(* The theorems.                                                                        *)

\* At the start there is nothing.
LEMMA RunsStart == Init => BaseInv /\ RunsInv
  <1> SUFFICES ASSUME Init PROVE BaseInv /\ RunsInv
    OBVIOUS
  <1>1. BaseInv
    BY RunsAssumption DEF Init, BaseInv, TypeOK, NewRunsAreNobodys, Outcomes
  <1>2. ASSUME NEW r \in Runs PROVE LifeOf(r)
    BY RunsAssumption, Statuses DEF Init, LifeOf
  <1>3. OneAtATime
    BY RunsAssumption, Statuses
       DEF Init, OneAtATime, OneSimulation, OwnCampaignOnly, Driving, Passed, Running
  <1> QED BY <1>1, <1>2, <1>3 DEF RunsInv, LifeInv, BaseInv

\* The types, and that a process remembers a task of its own only, with any number of
\* server instances.
THEOREM RunTypes == Spec => []TypeOK
  <1>1. Init => BaseInv
    BY RunsStart
  <1>2. BaseInv /\ [Next]_vars => BaseInv'
    BY BaseStep
  <1>3. BaseInv => TypeOK
    BY DEF BaseInv
  <1> QED BY <1>1, <1>2, <1>3, PTL DEF Spec

\* RunsInv is an invariant while there is one instance.
LEMMA RunsInvariant ==
  ASSUME NEW p, Processes = {p}
  PROVE  Spec => []RunsInv
  <1>1. Init => RunsInv
    BY RunsStart
  <1>2. RunsInv /\ [Next]_vars => RunsInv'
    BY LifeStep, OneStep DEF RunsInv
  <1> QED BY <1>1, <1>2, PTL DEF Spec

\* With one instance at a time neither reconcile nor _finish overwrites an outcome,
\* wherever processes die or are shut down.
THEOREM OutcomesAreFinal ==
  ASSUME NEW p, Processes = {p}
  PROVE  Spec => SettledRunsStay
  <1>1. RunsInv /\ [Next]_vars =>
          [\A r \in Runs : record[r] \in {"COMPLETED", "FAILED"} => record'[r] = record[r]]_vars
    BY OutcomesStay DEF RunsInv
  <1>2. Spec => []RunsInv
    BY RunsInvariant
  <1> QED BY <1>1, <1>2, PTL DEF Spec, SettledRunsStay

\* With one instance at a time a run reported COMPLETED is dialled by nobody, whatever the
\* other runs, started together with it perhaps, do.
THEOREM CompletedIsOver ==
  ASSUME NEW p, Processes = {p}
  PROVE  Spec => []CompletedCampaignsAreOff
  <1>1. RunsInv => CompletedCampaignsAreOff
    BY DEF RunsInv, LifeInv, LifeOf, CompletedCampaignsAreOff
  <1>2. Spec => []RunsInv
    BY RunsInvariant
  <1> QED BY <1>1, <1>2, PTL

\* With one instance at a time the workers of a run dial its campaign and no other, unless
\* two POSTs have been let through together.
THEOREM WorkersKeepToTheirCampaign ==
  ASSUME NEW p, Processes = {p}
  PROVE  Spec => []OwnCampaignOnly
  <1>1. RunsInv => OwnCampaignOnly
    BY DEF RunsInv, OneAtATime, OwnCampaignOnly
  <1>2. Spec => []RunsInv
    BY RunsInvariant
  <1> QED BY <1>1, <1>2, PTL

\* ... and then a run reported COMPLETED has left no agent RESERVED, now or later.
THEOREM CompletedLeavesNothing ==
  ASSUME NEW p, Processes = {p}
  PROVE  Spec => []NothingLeftReserved
  <1>1. RunsInv => NothingLeftReserved
    BY DEF RunsInv, OneAtATime, Passed, NothingLeftReserved
  <1>2. Spec => []RunsInv
    BY RunsInvariant
  <1> QED BY <1>1, <1>2, PTL
=========================================================================================
