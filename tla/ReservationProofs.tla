------------------------------- MODULE ReservationProofs -------------------------------
(* Proofs about Reservation: types, and exclusive claims for every number of agents,    *)
(* borrowers, workers and dials, every lease length and every clock.                    *)
EXTENDS Reservation, TLAPS

(* The writes of the agent repository keep the document's type.                         *)
LEMMA ReserveType ==
  ASSUME NEW ag \in AgentDocs, NEW w \in Workers, NEW lease \in Nat
  PROVE  Reserve(ag, w, lease) \in AgentDocs
  <1>1. ag.state_version + 1 \in Nat
    BY DEF AgentDocs, AgentDoc
  <1>2. w \in Workers \cup {NULL} /\ lease \in Nat \cup {NULL} /\ "RESERVED" \in AgentState
    BY DEF AgentState
  <1> QED BY <1>1, <1>2 DEF Reserve, AgentDocs, AgentDoc

LEMMA ReleaseType ==
  ASSUME NEW ag \in AgentDocs, NEW w, NEW target \in AgentState, NEW actor
  PROVE  /\ Release(ag, target) \in AgentDocs
         /\ release_agent(ag, w, target, actor) \in AgentDocs
  BY DEF Release, release_agent, AgentDocs, AgentDoc

LEMMA TransitionType ==
  ASSUME NEW ag \in AgentDocs, NEW from, NEW to \in AgentState, NEW actor, NEW v
  PROVE  transition_agent(ag, from, to, actor, v) \in AgentDocs
  <1>1. ag.state_version + 1 \in Nat
    BY DEF AgentDocs, AgentDoc
  <1>2. [ag EXCEPT !.state = to, !.state_version = @ + 1] \in AgentDocs
    BY <1>1 DEF AgentDocs, AgentDoc
  <1> QED BY <1>2 DEF transition_agent

LEMMA BindType ==
  ASSUME NEW ag \in AgentDocs, NEW w, NEW d \in Dials
  PROVE  bind_call(ag, w, d) \in AgentDocs
  BY DEF bind_call, AgentDocs, AgentDoc

LEMMA ExpiredType ==
  ASSUME NEW ag \in AgentDocs, NEW seen, NEW at
  PROVE  release_expired_agent_lease(ag, seen, at) \in AgentDocs
  BY ReleaseType DEF release_expired_agent_lease, AgentState

(* The writes of the borrower repository keep the document's type, and never leave a     *)
(* borrower dialable who has no attempt left.                                           *)
Remaining(bo) == bo.status \in {"PENDING", "RESERVED"} => bo.attempt_count < MAX_CALL_ATTEMPTS

LEMMA BackToType ==
  ASSUME NEW bo \in BorrowerDocs, NEW status \in BorrowerStatus, NEW n \in Nat, NEW at \in Nat
  PROVE  BackTo(bo, status, n, at) \in BorrowerDocs
  BY DEF BackTo, BorrowerDocs, BorrowerDoc

LEMMA ReserveBorrowerType ==
  ASSUME NEW bo \in BorrowerDocs, Remaining(bo), bo.status = "PENDING",
         NEW w \in Workers, NEW lease \in Nat
  PROVE  ReserveBorrower(bo, w, lease) \in BorrowerDocs /\ Remaining(ReserveBorrower(bo, w, lease))
  <1>1. bo.state_version + 1 \in Nat
    BY DEF BorrowerDocs, BorrowerDoc
  <1>2. ReserveBorrower(bo, w, lease) \in BorrowerDocs
    BY <1>1 DEF ReserveBorrower, BorrowerDocs, BorrowerDoc, BorrowerStatus
  <1>3. Remaining(ReserveBorrower(bo, w, lease))
    BY DEF ReserveBorrower, BorrowerDocs, BorrowerDoc, Remaining
  <1> QED BY <1>2, <1>3

LEMMA RetriedType ==
  ASSUME NEW bo \in BorrowerDocs, Remaining(bo), bo.status = "RESERVED", NEW at \in Nat
  PROVE  Retried(bo, at) \in BorrowerDocs /\ Remaining(Retried(bo, at))
  <1> DEFINE n == bo.attempt_count + 1
             st == IF n >= MAX_CALL_ATTEMPTS THEN "EXHAUSTED" ELSE "PENDING"
  <1>1. n \in 1 .. MAX_CALL_ATTEMPTS
    BY MaxAttemptsAssumption DEF Remaining, BorrowerDocs, BorrowerDoc
  <1>2. at + RetryBackoff[n] \in Nat
    BY <1>1, BackoffAssumption
  <1>3. st \in BorrowerStatus
    BY DEF BorrowerStatus
  <1>4. BackTo(bo, st, n, at + RetryBackoff[n]) \in BorrowerDocs
    BY <1>1, <1>2, <1>3, BackToType, MaxAttemptsAssumption
  <1>5. Remaining(BackTo(bo, st, n, at + RetryBackoff[n]))
    BY <1>1, MaxAttemptsAssumption DEF Remaining, BackTo
  <1> QED BY <1>4, <1>5 DEF Retried

LEMMA ReleaseBorrowerType ==
  ASSUME NEW bo \in BorrowerDocs, Remaining(bo), NEW w,
         NEW outcome \in BorrowerReleaseOutcome, NEW at \in Nat
  PROVE  /\ release_borrower(bo, w, outcome, at) \in BorrowerDocs
         /\ Remaining(release_borrower(bo, w, outcome, at))
  <1>1. CASE ~BorrowerReleaseMatches(bo, w)
    BY <1>1 DEF release_borrower
  <1>2. CASE BorrowerReleaseMatches(bo, w) /\ outcome = "RELEASED"
    <2>1. release_borrower(bo, w, outcome, at)
            = BackTo(bo, "PENDING", bo.attempt_count, bo.next_eligible_at)
      BY <1>2 DEF release_borrower
    <2>2. BackTo(bo, "PENDING", bo.attempt_count, bo.next_eligible_at) \in BorrowerDocs
      BY BackToType DEF BorrowerDocs, BorrowerDoc, BorrowerStatus
    <2>3. Remaining(BackTo(bo, "PENDING", bo.attempt_count, bo.next_eligible_at))
      BY <1>2 DEF Remaining, BackTo, BorrowerReleaseMatches
    <2> QED BY <2>1, <2>2, <2>3
  <1>3. CASE BorrowerReleaseMatches(bo, w) /\ outcome = "CONTACTED"
    <2>1. release_borrower(bo, w, outcome, at)
            = BackTo(bo, "CONTACTED", bo.attempt_count + 1, bo.next_eligible_at)
      BY <1>3 DEF release_borrower
    <2>a. bo.attempt_count + 1 \in Nat /\ bo.next_eligible_at \in Nat
      BY DEF BorrowerDocs, BorrowerDoc
    <2>2. BackTo(bo, "CONTACTED", bo.attempt_count + 1, bo.next_eligible_at) \in BorrowerDocs
      BY <2>a, BackToType DEF BorrowerStatus
    <2>3. Remaining(BackTo(bo, "CONTACTED", bo.attempt_count + 1, bo.next_eligible_at))
      BY DEF Remaining, BackTo
    <2> QED BY <2>1, <2>2, <2>3
  <1>4. CASE BorrowerReleaseMatches(bo, w) /\ outcome = "RETRY"
    <2>1. release_borrower(bo, w, outcome, at) = Retried(bo, at)
      BY <1>4 DEF release_borrower
    <2> QED BY <2>1, <1>4, RetriedType DEF BorrowerReleaseMatches
  <1> QED BY <1>1, <1>2, <1>3, <1>4 DEF BorrowerReleaseOutcome

LEMMA ReclaimType ==
  ASSUME NEW bo \in BorrowerDocs, Remaining(bo), NEW at \in Nat,
         NEW seen, seen.status = "RESERVED"
  PROVE  /\ reclaim_borrower(bo, seen, at) \in BorrowerDocs
         /\ Remaining(reclaim_borrower(bo, seen, at))
  <1>1. bo.attempt_count \in Nat
    BY DEF BorrowerDocs, BorrowerDoc
  <1>2. BackTo(bo, "PENDING", bo.attempt_count, at) \in BorrowerDocs
    BY <1>1, BackToType DEF BorrowerStatus
  <1>3. ReclaimMatches(bo, seen, at) => Remaining(BackTo(bo, "PENDING", bo.attempt_count, at))
    BY DEF Remaining, BackTo, ReclaimMatches
  <1> QED BY <1>2, <1>3 DEF reclaim_borrower

--------------------------------------------------------------------------------------
(* The constants as the proofs use them.                                                *)
LEMMA ConstantFacts ==
  /\ WorkerOf \in [Dials -> Workers]
  /\ RESERVATION_TTL \in Nat
  /\ Leavers \subseteq Agents
  /\ NULL \notin Agents /\ NULL \notin Borrowers /\ NULL \notin Dials
  /\ NULL \notin Nat /\ NULL \notin Workers
  BY WorkerAssumption, BoundsAssumption, LeaversAssumption, NamesAssumption, NullAssumption

LEMMA InitType == Init => TypeOK /\ AttemptsRemain
  <1> SUFFICES ASSUME Init PROVE TypeOK /\ AttemptsRemain
    OBVIOUS
  <1>1. NewAgent("OFFLINE") \in AgentDocs
    BY DEF NewAgent, AgentDocs, AgentDoc, AgentState
  <1>2. NewBorrower \in BorrowerDocs
    BY DEF NewBorrower, BorrowerDocs, BorrowerDoc, BorrowerStatus
  <1>3. NoPair \in Pairs
    BY DEF NoPair, Pairs
  <1>4. NoRelease \in Releases
    BY DEF NoRelease, Releases, TransitionActor, AgentState, BorrowerReleaseOutcome, DialPcs
  <1>5. NoSweep \in RecoveryState
    BY DEF NoSweep, RecoveryState
  <1>6. TypeOK
    BY <1>1, <1>2, <1>3, <1>4, <1>5 DEF Init, TypeOK, DialPcs
  <1>7. AttemptsRemain
    BY MaxAttemptsAssumption DEF Init, AttemptsRemain, NewBorrower
  <1> QED BY <1>6, <1>7

\* Updating one document in place.
LEMMA AgentUpdate ==
  ASSUME TypeOK, NEW a, NEW doc, a \in Agents => doc \in AgentDocs
  PROVE  [agents EXCEPT ![a] = doc] \in [Agents -> AgentDocs]
  BY DEF TypeOK

LEMMA BorrowerUpdate ==
  ASSUME TypeOK, AttemptsRemain, NEW b, NEW doc,
         b \in Borrowers => doc \in BorrowerDocs /\ Remaining(doc),
         borrowers' = [borrowers EXCEPT ![b] = doc]
  PROVE  borrowers' \in [Borrowers -> BorrowerDocs] /\ AttemptsRemain'
  BY DEF TypeOK, AttemptsRemain, Remaining

LEMMA FinishType ==
  ASSUME TypeOK, NEW d \in Dials, Finish(d)
  PROVE  /\ pc' \in [Dials -> DialPcs] /\ pair' \in [Dials -> Pairs]
         /\ held' \in [Dials -> BOOLEAN] /\ rel' \in [Dials -> Releases]
  <1>1. NoPair \in Pairs
    BY DEF NoPair, Pairs
  <1>2. NoRelease \in Releases
    BY DEF NoRelease, Releases, TransitionActor, AgentState, BorrowerReleaseOutcome, DialPcs
  <1> QED BY <1>1, <1>2 DEF TypeOK, Finish, DialPcs

LEMMA AbandonType ==
  ASSUME TypeOK, NEW d \in Dials, Abandon(d)
  PROVE  /\ pc' \in [Dials -> DialPcs] /\ pair' \in [Dials -> Pairs]
         /\ held' \in [Dials -> BOOLEAN] /\ rel' \in [Dials -> Releases]
  <1>1. NoRelease \in Releases
    BY DEF NoRelease, Releases, TransitionActor, AgentState, BorrowerReleaseOutcome, DialPcs
  <1> QED BY <1>1 DEF TypeOK, Abandon, DialPcs

LEMMA ClaimType ==
  ASSUME TypeOK, AttemptsRemain, NEW d \in Dials, Claim(d)
  PROVE  TypeOK' /\ AttemptsRemain'
  <1> USE ConstantFacts
  <1>0. /\ d \in Dials /\ WorkerOf[d] \in Workers /\ now + RESERVATION_TTL \in Nat
        /\ pair[d] \in Pairs
    BY DEF TypeOK
  <1>1. CASE FindAgents(d)
    <2>1. PICK found \in Windows({ a \in Agents : Claimable(agents[a]) }) :
             cand' = [cand EXCEPT ![d] = found]
      BY <1>1 DEF FindAgents
    <2>2. found \subseteq Agents
      BY <2>1 DEF Windows
    <2> QED BY <1>1, <2>1, <2>2 DEF FindAgents, TypeOK, AttemptsRemain, DialPcs, AllocatorPcs
  <1>2. CASE NoAgentLeft(d)
    BY <1>2, FinishType DEF NoAgentLeft, TypeOK, AttemptsRemain
  <1>3. CASE FindBorrowers(d)
    <2>1. PICK found \in Windows({ b \in Borrowers : BorrowerClaimable(borrowers[b], now) }) :
             cand' = [cand EXCEPT ![d] = found]
      BY <1>3 DEF FindBorrowers
    <2>2. found \subseteq Borrowers
      BY <2>1 DEF Windows
    <2> QED BY <1>3, <2>1, <2>2 DEF FindBorrowers, TypeOK, AttemptsRemain, DialPcs, AllocatorPcs
  <1>4. CASE BorrowerClaimFails(d)
    BY <1>4 DEF BorrowerClaimFails, TypeOK, AttemptsRemain, DialPcs, AllocatorPcs
  <1>5. CASE UndoAgent(d)
    <2> DEFINE a == pair[d].agent
               doc == release_agent(agents[a], WorkerOf[d], "AVAILABLE", "ALLOCATOR")
    <2>1. a \in Agents => doc \in AgentDocs
      BY ReleaseType DEF TypeOK, AgentState
    <2>2. [agents EXCEPT ![a] = doc] \in [Agents -> AgentDocs]
      BY <2>1, AgentUpdate
    <2>3. agents' \in [Agents -> AgentDocs]
      BY <1>5, <2>2 DEF UndoAgent
    <2> QED BY <1>5, <2>3, FinishType DEF UndoAgent, TypeOK, AttemptsRemain
  <1>6. CASE \E a \in Agents : TryReserveAgent(d, a) \/ AgentContended(d, a)
    <2> PICK a \in Agents : TryReserveAgent(d, a) \/ AgentContended(d, a)
      BY <1>6
    <2>1. CASE TryReserveAgent(d, a)
      <3>1. agents[a] \in AgentDocs /\ agents[a].state_version + 1 \in Nat
        BY DEF TypeOK, AgentDocs, AgentDoc
      <3>2. agents' \in [Agents -> AgentDocs]
        BY <1>0, <2>1, <3>1, ReserveType, AgentUpdate DEF TryReserveAgent
      <3>3. [NoPair EXCEPT !.agent = a, !.version = agents[a].state_version + 1,
                            !.agentLease = now + RESERVATION_TTL] \in Pairs
        BY <1>0, <3>1 DEF NoPair, Pairs
      <3> QED BY <2>1, <3>2, <3>3
            DEF TryReserveAgent, TypeOK, AttemptsRemain, DialPcs, AllocatorPcs
    <2>2. CASE AgentContended(d, a)
      BY <2>2 DEF AgentContended, TypeOK, AttemptsRemain
    <2> QED BY <2>1, <2>2
  <1>7. CASE \E b \in Borrowers : TryReserveBorrower(d, b) \/ BorrowerContended(d, b)
                                 \/ BorrowerReplyLost(d, b)
    <2> PICK b \in Borrowers : TryReserveBorrower(d, b) \/ BorrowerContended(d, b)
                                 \/ BorrowerReplyLost(d, b)
      BY <1>7
    <2> DEFINE doc == ReserveBorrower(borrowers[b], WorkerOf[d], now + RESERVATION_TTL)
    <2>0. borrowers[b].status = "PENDING" => doc \in BorrowerDocs /\ Remaining(doc)
      BY <1>0, ReserveBorrowerType DEF TypeOK, AttemptsRemain, Remaining
    <2>1. CASE TryReserveBorrower(d, b)
      <3>1. borrowers' = [borrowers EXCEPT ![b] = doc] /\ borrowers[b].status = "PENDING"
        BY <2>1 DEF TryReserveBorrower, BorrowerClaimable
      <3>2. borrowers' \in [Borrowers -> BorrowerDocs] /\ AttemptsRemain'
        BY <2>0, <3>1, BorrowerUpdate
      <3>3. pair' = [pair EXCEPT ![d] = [@ EXCEPT !.borrower = b,
                                          !.borrowerLease = now + RESERVATION_TTL]]
        BY <2>1, <1>0 DEF TryReserveBorrower, TypeOK, Pairs
      <3>4. [pair[d] EXCEPT !.borrower = b, !.borrowerLease = now + RESERVATION_TTL] \in Pairs
        BY <1>0 DEF Pairs
      <3> QED BY <2>1, <3>2, <3>3, <3>4
            DEF TryReserveBorrower, TypeOK, DialPcs, AllocatorPcs
    <2>2. CASE BorrowerContended(d, b)
      BY <2>2 DEF BorrowerContended, TypeOK, AttemptsRemain
    <2>3. CASE BorrowerReplyLost(d, b)
      <3>1. borrowers' = [borrowers EXCEPT ![b] = doc] /\ borrowers[b].status = "PENDING"
        BY <2>3 DEF BorrowerReplyLost, BorrowerClaimable
      <3>2. borrowers' \in [Borrowers -> BorrowerDocs] /\ AttemptsRemain'
        BY <2>0, <3>1, BorrowerUpdate
      <3> QED BY <2>3, <3>2 DEF BorrowerReplyLost, TypeOK, DialPcs, AllocatorPcs
    <2> QED BY <2>1, <2>2, <2>3
  <1> QED BY <1>1, <1>2, <1>3, <1>4, <1>5, <1>6, <1>7 DEF Claim

LEMMA StartReleaseType ==
  ASSUME TypeOK, AttemptsRemain, NEW d \in Dials, NEW actor \in TransitionActor,
         NEW target \in AgentState, NEW outcome \in BorrowerReleaseOutcome,
         NEW next \in DialPcs, StartRelease(d, actor, target, outcome, next)
  PROVE  TypeOK' /\ AttemptsRemain'
  BY DEF StartRelease, TypeOK, AttemptsRemain, DialPcs, Releases

\* An action that writes one agent document and nothing but pc besides.
LEMMA AgentWriteType ==
  ASSUME TypeOK, AttemptsRemain, NEW a, NEW doc, a \in Agents => doc \in AgentDocs,
         agents' = [agents EXCEPT ![a] = doc],
         pc' \in [Dials -> DialPcs], rec' \in RecoveryState,
         UNCHANGED <<borrowers, now, cand, pair, held, rel>>
  PROVE  TypeOK' /\ AttemptsRemain'
  BY AgentUpdate DEF TypeOK, AttemptsRemain

LEMMA DialType ==
  ASSUME TypeOK, AttemptsRemain, NEW d \in Dials, Dial(d)
  PROVE  TypeOK' /\ AttemptsRemain'
  <1> USE ConstantFacts
  <1> DEFINE a == pair[d].agent
             b == pair[d].borrower
  <1>0. /\ WorkerOf[d] \in Workers /\ pair[d] \in Pairs /\ rel[d] \in Releases
        /\ pc \in [Dials -> DialPcs] /\ rec \in RecoveryState /\ now \in Nat
        /\ a \in Agents => agents[a] \in AgentDocs
        /\ b \in Borrowers => borrowers[b] \in BorrowerDocs /\ Remaining(borrowers[b])
    BY DEF TypeOK, AttemptsRemain, Remaining
  <1>1. CASE MarkDialing(d)
    <2> DEFINE doc == transition_agent(agents[a], "RESERVED", "DIALING", "ALLOCATOR",
                                       pair[d].version)
    <2>1. a \in Agents => doc \in AgentDocs
      BY <1>0, TransitionType DEF AgentState
    <2>2. agents' = [agents EXCEPT ![a] = doc]
      BY <1>1 DEF MarkDialing
    <2>3. pc' \in [Dials -> DialPcs]
      BY <1>0, <1>1 DEF MarkDialing, DialPcs, AllocatorPcs
    <2> QED BY <1>0, <1>1, <2>1, <2>2, <2>3, AgentWriteType DEF MarkDialing
  <1>2. CASE BindCall(d)
    <2> DEFINE doc == bind_call(agents[a], WorkerOf[d], d)
    <2>1. a \in Agents => doc \in AgentDocs
      BY <1>0, BindType
    <2>2. agents' = [agents EXCEPT ![a] = doc]
      BY <1>2 DEF BindCall
    <2>3. pc' \in [Dials -> DialPcs]
      BY <1>0, <1>2 DEF BindCall, DialPcs, AllocatorPcs
    <2> QED BY <1>0, <1>2, <2>1, <2>2, <2>3, AgentWriteType DEF BindCall
  <1>3. CASE Originated(d)
    BY <1>3, FinishType DEF Originated, TypeOK, AttemptsRemain, DialPcs
  <1>4. CASE AgentConnects(d)
    <2> DEFINE doc == transition_agent(agents[a], "DIALING", "CONNECTED", "EVENT_PROCESSOR",
                                       agents[a].state_version)
    <2>1. a \in Agents => doc \in AgentDocs
      BY <1>0, TransitionType DEF AgentState
    <2>2. agents' = [agents EXCEPT ![a] = doc]
      BY <1>4 DEF AgentConnects
    <2> QED BY <1>0, <1>4, <2>1, <2>2, AgentWriteType DEF AgentConnects
  <1>5. CASE \/ NotDialled(d) \/ OriginateFails(d) \/ DialCancelled(d)
             \/ CallCompleted(d) \/ CallFailed(d) \/ OrphanReconciled(d)
    <2>1. PICK actor \in TransitionActor, target \in AgentState,
               outcome \in BorrowerReleaseOutcome, next \in DialPcs :
             StartRelease(d, actor, target, outcome, next)
      BY <1>5 DEF NotDialled, OriginateFails, DialCancelled, CallCompleted, CallFailed,
                  OrphanReconciled, TransitionActor, AgentState, BorrowerReleaseOutcome,
                  DialPcs, AllocatorPcs
    <2> QED BY <2>1, StartReleaseType
  <1>6. CASE ReleaseAgentStep(d)
    <2> DEFINE doc == release_agent(agents[a], WorkerOf[d], rel[d].target, rel[d].actor)
    <2>1. a \in Agents => doc \in AgentDocs
      BY <1>0, ReleaseType DEF Releases
    <2>2. agents' = [agents EXCEPT ![a] = doc]
      BY <1>6 DEF ReleaseAgentStep
    <2>3. pc' \in [Dials -> DialPcs]
      BY <1>0, <1>6 DEF ReleaseAgentStep, DialPcs
    <2> QED BY <1>0, <1>6, <2>1, <2>2, <2>3, AgentWriteType DEF ReleaseAgentStep
  <1>7. CASE ReleaseBorrowerStep(d)
    <2> DEFINE doc == release_borrower(borrowers[b], WorkerOf[d], rel[d].outcome, now)
    <2>1. b \in Borrowers => doc \in BorrowerDocs /\ Remaining(doc)
      BY <1>0, ReleaseBorrowerType DEF Releases
    <2>2. borrowers' = [borrowers EXCEPT ![b] = doc]
      BY <1>7 DEF ReleaseBorrowerStep
    <2>3. borrowers' \in [Borrowers -> BorrowerDocs] /\ AttemptsRemain'
      BY <2>1, <2>2, BorrowerUpdate
    <2>4. /\ pc' \in [Dials -> DialPcs] /\ pair' \in [Dials -> Pairs]
          /\ held' \in [Dials -> BOOLEAN] /\ rel' \in [Dials -> Releases]
      BY <1>7, FinishType, AbandonType DEF ReleaseBorrowerStep
    <2> QED BY <1>7, <2>3, <2>4 DEF ReleaseBorrowerStep, TypeOK
  <1>8. CASE Crash(d)
    <2>1. /\ pc' \in [Dials -> DialPcs] /\ pair' \in [Dials -> Pairs]
          /\ held' \in [Dials -> BOOLEAN] /\ rel' \in [Dials -> Releases]
      BY <1>8, FinishType, AbandonType DEF Crash
    <2> QED BY <1>8, <2>1 DEF Crash, TypeOK, AttemptsRemain
  <1>9. CASE Recycle(d)
    BY <1>9 DEF Recycle, TypeOK, AttemptsRemain, DialPcs
  <1> QED BY <1>1, <1>2, <1>3, <1>4, <1>5, <1>6, <1>7, <1>8, <1>9 DEF Dial

LEMMA AgentStepType ==
  ASSUME TypeOK, AttemptsRemain, AgentStep
  PROVE  TypeOK' /\ AttemptsRemain'
  <1> PICK a \in Agents : WrapUpEnds(a) \/ \E target \in AGENT_ACTIONS : AgentActs(a, target)
    BY DEF AgentStep
  <1>0. agents[a] \in AgentDocs /\ pc \in [Dials -> DialPcs] /\ rec \in RecoveryState
    BY DEF TypeOK
  <1>1. CASE WrapUpEnds(a)
    <2> DEFINE doc == transition_agent(agents[a], "WRAP_UP", "AVAILABLE", "WORKER_TIMER",
                                       agents[a].state_version)
    <2>1. doc \in AgentDocs
      BY <1>0, TransitionType DEF AgentState
    <2>2. agents' = [agents EXCEPT ![a] = doc]
      BY <1>1 DEF WrapUpEnds
    <2> QED BY <1>0, <1>1, <2>1, <2>2, AgentWriteType DEF WrapUpEnds
  <1>2. CASE \E target \in AGENT_ACTIONS : AgentActs(a, target)
    <2> PICK target \in AGENT_ACTIONS : AgentActs(a, target)
      BY <1>2
    <2> DEFINE doc == transition_agent(agents[a], agents[a].state, target, "AGENT",
                                       agents[a].state_version)
    <2>1. doc \in AgentDocs
      BY <1>0, TransitionType DEF AgentState, AGENT_ACTIONS
    <2>2. agents' = [agents EXCEPT ![a] = doc]
      BY DEF AgentActs
    <2> QED BY <1>0, <2>1, <2>2, AgentWriteType DEF AgentActs
  <1> QED BY <1>1, <1>2

LEMMA RecoveryType ==
  ASSUME TypeOK, AttemptsRemain, Recovery
  PROVE  TypeOK' /\ AttemptsRemain'
  <1> USE ConstantFacts
  <1>0. /\ rec \in RecoveryState /\ now \in Nat /\ rec.now \in Nat
        /\ pc \in [Dials -> DialPcs]
        /\ \A a \in Agents : agents[a] \in AgentDocs /\ SnapshotOf(a) \in AgentSnapshots
        /\ \A b \in Borrowers : borrowers[b] \in BorrowerDocs /\ Remaining(borrowers[b])
    BY DEF TypeOK, AttemptsRemain, Remaining, RecoveryState, SnapshotOf, AgentSnapshots,
           AgentDocs, AgentDoc
  <1>1. CASE SweepLeases
    <2> DEFINE found == { SnapshotOf(a) :
                            a \in { x \in Agents : LeaseSweepable(agents[x], now) } }
    <2>1. found \in SUBSET AgentSnapshots
      BY <1>0
    <2>2. rec' = [rec EXCEPT !.pc = "agents", !.to = "AVAILABLE", !.now = now,
                    !.agents = found]
      BY <1>1 DEF SweepLeases
    <2> HIDE DEF found
    <2>3. rec' \in RecoveryState
      BY <1>0, <2>1, <2>2 DEF RecoveryState
    <2> QED BY <1>1, <2>3 DEF SweepLeases, TypeOK, AttemptsRemain
  <1>2. CASE ReleaseCancelled
    <2> DEFINE b == rec.borrower
               doc == release_borrower(borrowers[b], WorkerOf[rec.call], "RETRY", now)
    <2>1. b \in Borrowers => doc \in BorrowerDocs /\ Remaining(doc)
      BY <1>0, ReleaseBorrowerType DEF BorrowerReleaseOutcome
    <2>2. borrowers' = [borrowers EXCEPT ![b] = doc]
      BY <1>2 DEF ReleaseCancelled
    <2>3. borrowers' \in [Borrowers -> BorrowerDocs] /\ AttemptsRemain'
      BY <2>1, <2>2, BorrowerUpdate
    <2>4. rec' \in RecoveryState
      BY <1>0, <1>2 DEF ReleaseCancelled, RecoveryState
    <2> QED BY <1>2, <2>3, <2>4 DEF ReleaseCancelled, TypeOK
  <1>3. CASE ReleaseCandidate
    <2> DEFINE a == rec.cur.id
               doc == IF rec.to = "AVAILABLE"
                      THEN release_expired_agent_lease(agents[a], rec.cur, rec.now)
                      ELSE transition_agent(agents[a], rec.cur.state, "OFFLINE", "RECOVERY",
                                            rec.cur.state_version)
    <2>1. a \in Agents => doc \in AgentDocs
      BY <1>0, ExpiredType, TransitionType DEF AgentState
    <2>2. agents' = [agents EXCEPT ![a] = doc]
      BY <1>3 DEF ReleaseCandidate
    <2>3. rec' \in RecoveryState
      BY <1>0, <1>3 DEF ReleaseCandidate, RecoveryState
    <2> QED BY <1>0, <1>3, <2>1, <2>2, <2>3, AgentWriteType DEF ReleaseCandidate
  <1>4. CASE SweepBorrowers
    <2>1. \A b \in Borrowers : BorrowerSweepable(borrowers[b], rec.now) =>
             BorrowerSnapshotOf(b) \in BorrowerSnapshots
      BY <1>0 DEF BorrowerSweepable, BorrowerSnapshotOf, BorrowerSnapshots, BorrowerDocs,
                  BorrowerDoc
    <2> DEFINE found == { BorrowerSnapshotOf(b) :
                  b \in { x \in Borrowers : BorrowerSweepable(borrowers[x], rec.now) } }
    <2>2. found \in SUBSET BorrowerSnapshots
      BY <2>1
    <2>3. rec' = [rec EXCEPT !.pc = "borrowers", !.borrowers = found]
      BY <1>4 DEF SweepBorrowers
    <2> HIDE DEF found
    <2>4. rec' \in RecoveryState
      BY <1>0, <2>2, <2>3 DEF RecoveryState
    <2> QED BY <1>4, <2>4 DEF SweepBorrowers, TypeOK, AttemptsRemain
  <1>5. CASE SweepHeartbeats
    <2> PICK silent \in SUBSET Leavers :
             rec' = [rec EXCEPT !.pc = "agents", !.to = "OFFLINE",
                       !.agents = { SnapshotOf(a) : a \in silent }]
      BY <1>5 DEF SweepHeartbeats
    <2>1. { SnapshotOf(a) : a \in silent } \in SUBSET AgentSnapshots
      BY <1>0
    <2>2. rec' \in RecoveryState
      BY <1>0, <2>1 DEF RecoveryState
    <2> QED BY <1>5, <2>2 DEF SweepHeartbeats, TypeOK, AttemptsRemain
  <1>6. CASE EndSweeps \/ RecoveryStops
    <2>1. NoSweep \in RecoveryState
      BY DEF NoSweep, RecoveryState
    <2> QED BY <1>6, <2>1 DEF EndSweeps, RecoveryStops, TypeOK, AttemptsRemain
  <1>7. CASE \E s \in rec.agents : HandleCandidate(s)
    <2> PICK s \in rec.agents : HandleCandidate(s)
      BY <1>7
    <2> DEFINE c == s.current_call_id
    <2>0. s \in AgentSnapshots /\ c \in Dials \cup {NULL}
      BY <1>0 DEF RecoveryState, AgentSnapshots
    <2>1. CASE c # NULL /\ CallOpen(c)
      <3>1. c \in Dials /\ pair[c] \in Pairs /\ pair[c].borrower \in Borrowers \cup {NULL}
        BY <2>0, <2>1 DEF TypeOK, Pairs
      <3>2. rec' = [rec EXCEPT !.pc = "cancel", !.agents = @ \ {s}, !.cur = s,
                      !.call = c, !.borrower = pair[c].borrower]
        BY <2>1 DEF HandleCandidate
      <3>3. rec' \in RecoveryState
        BY <1>0, <2>0, <3>1, <3>2 DEF RecoveryState
      <3>4. /\ pc' \in [Dials -> DialPcs] /\ pair' \in [Dials -> Pairs]
            /\ held' \in [Dials -> BOOLEAN] /\ rel' \in [Dials -> Releases]
        <4>1. CASE pc[c] \in {"live", "lost"}
          BY <2>1, <3>1, <4>1, FinishType DEF HandleCandidate
        <4>2. CASE pc[c] \notin {"live", "lost"}
          <5>1. rel' = [rel EXCEPT ![c].then = "done"] /\ held' = [held EXCEPT ![c] = FALSE]
                /\ UNCHANGED <<pc, pair>>
            BY <2>1, <4>2 DEF HandleCandidate
          <5>2. rel[c] \in Releases /\ [rel[c] EXCEPT !.then = "done"] \in Releases
            BY <3>1 DEF TypeOK, Releases, DialPcs
          <5> QED BY <5>1, <5>2 DEF TypeOK
        <4> QED BY <4>1, <4>2
      <3> QED BY <3>3, <3>4 DEF HandleCandidate, TypeOK, AttemptsRemain
    <2>2. CASE ~(c # NULL /\ CallOpen(c))
      <3>1. rec' = [rec EXCEPT !.pc = "release", !.agents = @ \ {s}, !.cur = s]
            /\ UNCHANGED <<pc, pair, held, rel>>
        BY <2>2 DEF HandleCandidate
      <3>2. rec' \in RecoveryState
        BY <1>0, <2>0, <3>1 DEF RecoveryState
      <3> QED BY <3>1, <3>2 DEF HandleCandidate, TypeOK, AttemptsRemain
    <2> QED BY <2>1, <2>2
  <1>8. CASE \E s \in rec.borrowers : ReclaimBorrower(s)
    <2> PICK s \in rec.borrowers : ReclaimBorrower(s)
      BY <1>8
    <2> DEFINE doc == reclaim_borrower(borrowers[s.id], s, rec.now)
    <2>0. s \in BorrowerSnapshots /\ s.id \in Borrowers /\ s.status = "RESERVED"
      BY <1>0 DEF RecoveryState, BorrowerSnapshots
    <2>1. doc \in BorrowerDocs /\ Remaining(doc)
      BY <1>0, <2>0, ReclaimType
    <2>2. borrowers' \in [Borrowers -> BorrowerDocs] /\ AttemptsRemain'
      BY <2>1, BorrowerUpdate DEF ReclaimBorrower
    <2>3. rec' \in RecoveryState
      BY <1>0 DEF ReclaimBorrower, RecoveryState
    <2> QED BY <2>2, <2>3 DEF ReclaimBorrower, TypeOK
  <1> QED BY <1>1, <1>2, <1>3, <1>4, <1>5, <1>6, <1>7, <1>8 DEF Recovery

LEMMA TypeStep == TypeOK /\ AttemptsRemain /\ [Next]_vars => TypeOK' /\ AttemptsRemain'
  <1> SUFFICES ASSUME TypeOK, AttemptsRemain, [Next]_vars
               PROVE  TypeOK' /\ AttemptsRemain'
    OBVIOUS
  <1>1. CASE Tick
    BY <1>1 DEF Tick, TypeOK, AttemptsRemain
  <1>2. CASE UNCHANGED vars
    BY <1>2 DEF vars, TypeOK, AttemptsRemain
  <1> QED BY <1>1, <1>2, ClaimType, DialType, AgentStepType, RecoveryType DEF Next

LEMMA TypeInvariant == Spec => [](TypeOK /\ AttemptsRemain)
  <1>1. Init => TypeOK /\ AttemptsRemain
    BY InitType
  <1>2. TypeOK /\ AttemptsRemain /\ [Next]_vars => TypeOK' /\ AttemptsRemain'
    BY TypeStep
  <1> QED BY <1>1, <1>2, PTL DEF Spec

\* The documents, the dials and the recovery worker keep their types.
THEOREM TypeCorrect == Spec => []TypeOK
  BY TypeInvariant, PTL

\* A borrower that can still be dialled has attempts left (release_borrower counts before
\* it tests; a lost reply, a reclaimed lease and a late release give no attempt back).
THEOREM AttemptsNeverRunOut == Spec => []AttemptsRemain
  BY TypeInvariant, PTL

--------------------------------------------------------------------------------------
(* Exclusive claims.  ClaimInv is inductive while NoStaleTwin holds: a running claim is  *)
(* written in its document, so a second one cannot be.                                  *)

Busy == {"RESERVED", "DIALING", "CONNECTED"}

\* No dial gains a claim on an agent in this step.
NoNewAgentClaim ==
  \A e \in Dials : held'[e] => /\ held[e]
                              /\ pair'[e].agent = pair[e].agent
                              /\ pair'[e].agentLease = pair[e].agentLease

NoNewBorrowerClaim ==
  \A e \in Dials : held'[e] => /\ held[e]
                              /\ pair'[e].borrower = pair[e].borrower
                              /\ pair'[e].borrowerLease = pair[e].borrowerLease

\* An agent write that is harmless to every running claim on that agent.
LEMMA AgentKept ==
  ASSUME ClaimInv, NoNewAgentClaim, now \in Nat, now' \in Nat, now <= now', NEW a, NEW doc,
         agents' = [agents EXCEPT ![a] = doc],
         \A e \in Dials : AgentClaimRuns(e) /\ pair[e].agent = a /\ a \notin Leavers =>
            /\ doc.reserved_by = agents[a].reserved_by
            /\ doc.lease_expires_at = agents[a].lease_expires_at
            /\ doc.state \in Busy
  PROVE  AgentClaimStands'
  <1> SUFFICES ASSUME NEW e \in Dials, AgentClaimRuns(e)', pair'[e].agent \notin Leavers
               PROVE  /\ agents'[pair'[e].agent].reserved_by = WorkerOf[e]
                      /\ agents'[pair'[e].agent].lease_expires_at = pair'[e].agentLease
                      /\ agents'[pair'[e].agent].state \in Busy
    BY DEF AgentClaimStands, Busy
  <1>1. pair[e] \in Pairs
    BY DEF ClaimInv, TypeOK
  <1>2. AgentClaimRuns(e) /\ pair'[e].agent = pair[e].agent
        /\ pair'[e].agentLease = pair[e].agentLease /\ pair[e].agent \notin Leavers
    BY <1>1 DEF AgentClaimRuns, NoNewAgentClaim, Pairs
  <1>3. pair[e].agent \in Agents
    BY <1>1, <1>2 DEF AgentClaimRuns, Pairs
  <1>4. /\ agents[pair[e].agent].reserved_by = WorkerOf[e]
        /\ agents[pair[e].agent].lease_expires_at = pair[e].agentLease
        /\ agents[pair[e].agent].state \in Busy
    BY <1>2 DEF ClaimInv, AgentClaimStands, Busy
  <1>5. CASE pair[e].agent = a
    BY <1>2, <1>3, <1>4, <1>5 DEF ClaimInv, TypeOK
  <1>6. CASE pair[e].agent # a
    BY <1>2, <1>3, <1>4, <1>6 DEF ClaimInv, TypeOK
  <1> QED BY <1>5, <1>6

LEMMA AgentsUntouched ==
  ASSUME ClaimInv, NoNewAgentClaim, now \in Nat, now' \in Nat, now <= now', agents' = agents
  PROVE  AgentClaimStands'
  <1> SUFFICES ASSUME NEW e \in Dials, AgentClaimRuns(e)', pair'[e].agent \notin Leavers
               PROVE  /\ agents'[pair'[e].agent].reserved_by = WorkerOf[e]
                      /\ agents'[pair'[e].agent].lease_expires_at = pair'[e].agentLease
                      /\ agents'[pair'[e].agent].state \in Busy
    BY DEF AgentClaimStands, Busy
  <1>1. pair[e] \in Pairs
    BY DEF ClaimInv, TypeOK
  <1>2. AgentClaimRuns(e) /\ pair'[e].agent = pair[e].agent
        /\ pair'[e].agentLease = pair[e].agentLease /\ pair[e].agent \notin Leavers
    BY <1>1 DEF AgentClaimRuns, NoNewAgentClaim, Pairs
  <1> QED BY <1>2 DEF ClaimInv, AgentClaimStands, Busy

\* The same two facts for borrowers.
LEMMA BorrowerKept ==
  ASSUME ClaimInv, NoNewBorrowerClaim, now \in Nat, now' \in Nat, now <= now', NEW b, NEW doc,
         borrowers' = [borrowers EXCEPT ![b] = doc],
         \A e \in Dials : BorrowerClaimRuns(e) /\ pair[e].borrower = b => doc = borrowers[b]
  PROVE  BorrowerClaimStands'
  <1> SUFFICES ASSUME NEW e \in Dials, BorrowerClaimRuns(e)'
               PROVE  /\ borrowers'[pair'[e].borrower].reserved_by = WorkerOf[e]
                      /\ borrowers'[pair'[e].borrower].lease_expires_at = pair'[e].borrowerLease
                      /\ borrowers'[pair'[e].borrower].status = "RESERVED"
    BY DEF BorrowerClaimStands
  <1>1. pair[e] \in Pairs
    BY DEF ClaimInv, TypeOK
  <1>2. BorrowerClaimRuns(e) /\ pair'[e].borrower = pair[e].borrower
        /\ pair'[e].borrowerLease = pair[e].borrowerLease
    BY <1>1 DEF BorrowerClaimRuns, NoNewBorrowerClaim, Pairs
  <1>3. pair[e].borrower \in Borrowers
    BY <1>1, <1>2 DEF BorrowerClaimRuns, Pairs
  <1>4. borrowers'[pair[e].borrower] = borrowers[pair[e].borrower]
    BY <1>2, <1>3 DEF ClaimInv, TypeOK
  <1> QED BY <1>2, <1>4 DEF ClaimInv, BorrowerClaimStands

LEMMA BorrowersUntouched ==
  ASSUME ClaimInv, NoNewBorrowerClaim, now \in Nat, now' \in Nat, now <= now',
         borrowers' = borrowers
  PROVE  BorrowerClaimStands'
  <1> SUFFICES ASSUME NEW e \in Dials, BorrowerClaimRuns(e)'
               PROVE  /\ borrowers'[pair'[e].borrower].reserved_by = WorkerOf[e]
                      /\ borrowers'[pair'[e].borrower].lease_expires_at = pair'[e].borrowerLease
                      /\ borrowers'[pair'[e].borrower].status = "RESERVED"
    BY DEF BorrowerClaimStands
  <1>1. pair[e] \in Pairs
    BY DEF ClaimInv, TypeOK
  <1>2. BorrowerClaimRuns(e) /\ pair'[e].borrower = pair[e].borrower
        /\ pair'[e].borrowerLease = pair[e].borrowerLease
    BY <1>1 DEF BorrowerClaimRuns, NoNewBorrowerClaim, Pairs
  <1> QED BY <1>2 DEF ClaimInv, BorrowerClaimStands

\* A release by a dial that no longer holds its pair matches no running claim's document.
LEMMA ForeignRelease ==
  ASSUME ClaimInv, NoStaleTwin, NEW d \in Dials, ~held[d]
  PROVE  /\ \A e \in Dials : \A target, actor :
              AgentClaimRuns(e) /\ pair[e].agent = pair[d].agent /\ pair[e].agent \notin Leavers =>
              release_agent(agents[pair[e].agent], WorkerOf[d], target, actor)
                = agents[pair[e].agent]
         /\ \A e \in Dials : \A outcome, at :
              BorrowerClaimRuns(e) /\ pair[e].borrower = pair[d].borrower =>
              release_borrower(borrowers[pair[e].borrower], WorkerOf[d], outcome, at)
                = borrowers[pair[e].borrower]
  <1>1. \A e \in Dials : AgentClaimRuns(e) /\ pair[e].agent = pair[d].agent =>
          WorkerOf[e] # WorkerOf[d]
    BY DEF NoStaleTwin, StaleTwin, AgentClaimRuns
  <1>2. \A e \in Dials : BorrowerClaimRuns(e) /\ pair[e].borrower = pair[d].borrower =>
          WorkerOf[e] # WorkerOf[d]
    BY DEF NoStaleTwin, StaleTwin, BorrowerClaimRuns
  <1>3. \A e \in Dials :
          AgentClaimRuns(e) /\ pair[e].agent = pair[d].agent /\ pair[e].agent \notin Leavers =>
          agents[pair[e].agent].reserved_by # WorkerOf[d]
    BY <1>1 DEF ClaimInv, AgentClaimStands
  <1>4. \A e \in Dials : BorrowerClaimRuns(e) /\ pair[e].borrower = pair[d].borrower =>
          borrowers[pair[e].borrower].reserved_by # WorkerOf[d]
    BY <1>2 DEF ClaimInv, BorrowerClaimStands
  <1> QED BY <1>3, <1>4 DEF release_agent, ReleaseMatches, release_borrower,
                            BorrowerReleaseMatches

\* What the claiming steps do to the claims that run.
LEMMA ClaimKeeps ==
  ASSUME ClaimInv, NoStaleTwin, NEW d \in Dials, Claim(d)
  PROVE  AgentClaimStands' /\ BorrowerClaimStands' /\ HeldWhileDialling' /\ SweepIsSound'
  <1> USE ConstantFacts
  <1>0. /\ now \in Nat /\ pc \in [Dials -> DialPcs] /\ held \in [Dials -> BOOLEAN]
        /\ pair \in [Dials -> Pairs] /\ agents \in [Agents -> AgentDocs]
        /\ borrowers \in [Borrowers -> BorrowerDocs] /\ rel \in [Dials -> Releases]
        /\ pair[d] \in Pairs
        /\ TypeOK
    BY DEF ClaimInv, TypeOK
  <1>h. HeldWhileDialling /\ SweepIsSound
    BY DEF ClaimInv
  <1>1. CASE FindAgents(d) \/ FindBorrowers(d) \/ NoAgentLeft(d) \/ BorrowerClaimFails(d)
             \/ (\E a \in Agents : AgentContended(d, a))
             \/ (\E b \in Borrowers : BorrowerContended(d, b))
    <2>1. NoNewAgentClaim /\ NoNewBorrowerClaim /\ agents' = agents /\ borrowers' = borrowers
          /\ now' = now /\ rec' = rec
      BY <1>0, <1>1 DEF NoNewAgentClaim, NoNewBorrowerClaim, FindAgents, FindBorrowers,
         NoAgentLeft, BorrowerClaimFails, AgentContended, BorrowerContended, Finish
    <2>2. AgentClaimStands' /\ BorrowerClaimStands'
      BY <1>0, <2>1, AgentsUntouched, BorrowersUntouched
    <2>3. HeldWhileDialling'
      BY <1>0, <1>1, <1>h DEF HeldWhileDialling, FindAgents, FindBorrowers, NoAgentLeft,
         BorrowerClaimFails, AgentContended, BorrowerContended, Finish
    <2>4. SweepIsSound'
      BY <1>0, <1>1, <1>h, <2>1 DEF SweepIsSound, FindAgents, FindBorrowers, NoAgentLeft,
         BorrowerClaimFails, AgentContended, BorrowerContended, Finish
    <2> QED BY <2>2, <2>3, <2>4
  <1>2. CASE UndoAgent(d)
    <2> DEFINE a == pair[d].agent
               doc == release_agent(agents[a], WorkerOf[d], "AVAILABLE", "ALLOCATOR")
    <2>1. NoNewAgentClaim /\ NoNewBorrowerClaim /\ borrowers' = borrowers
          /\ now' = now /\ rec' = rec
      BY <1>0, <1>2 DEF NoNewAgentClaim, NoNewBorrowerClaim, UndoAgent, Finish
    <2>2. ~held[d]
      BY <1>2, <1>h DEF HeldWhileDialling, UndoAgent
    <2>3. \A e \in Dials : AgentClaimRuns(e) /\ pair[e].agent = a /\ a \notin Leavers =>
            doc = agents[a] /\ doc.state \in Busy
      BY <2>2, ForeignRelease DEF ClaimInv, AgentClaimStands, Busy
    <2>4. agents' = [agents EXCEPT ![a] = doc]
      BY <1>2 DEF UndoAgent
    <2> HIDE DEF doc
    <2>5. AgentClaimStands'
      <3>1. \A e \in Dials : AgentClaimRuns(e) /\ pair[e].agent = a /\ a \notin Leavers =>
              /\ doc.reserved_by = agents[a].reserved_by
              /\ doc.lease_expires_at = agents[a].lease_expires_at
              /\ doc.state \in Busy
        BY <2>3
      <3>2. NoNewAgentClaim /\ now' \in Nat /\ now <= now'
        BY <1>0, <2>1
      <3> HIDE DEF a
      <3> QED BY <1>0, <2>4, <3>1, <3>2, AgentKept
    <2>b. BorrowerClaimStands'
      BY <1>0, <2>1, BorrowersUntouched
    <2>6. HeldWhileDialling'
      BY <1>0, <1>2, <1>h DEF HeldWhileDialling, UndoAgent, Finish
    <2>7. SweepIsSound'
      BY <1>0, <1>2, <1>h, <2>1 DEF SweepIsSound, UndoAgent, Finish
    <2> QED BY <2>5, <2>b, <2>6, <2>7
  <1>3. CASE \E a \in Agents : TryReserveAgent(d, a)
    <2> PICK a \in Agents : TryReserveAgent(d, a)
      BY <1>3
    <2> DEFINE lease == now + RESERVATION_TTL
    <2>1. lease \in Nat /\ ~held[d]
      BY <1>0, <1>h DEF HeldWhileDialling, TryReserveAgent
    <2>2. /\ \A e \in Dials \ {d} : pair'[e] = pair[e]
          /\ pair'[d].agent = a /\ pair'[d].agentLease = lease /\ pair'[d].borrower = NULL
          /\ held' = [held EXCEPT ![d] = TRUE]
          /\ agents' = [agents EXCEPT ![a] = Reserve(@, WorkerOf[d], lease)]
          /\ borrowers' = borrowers /\ now' = now /\ rec' = rec
      BY <1>0 DEF TryReserveAgent, NoPair
    <2>3. AgentClaimStands'
      <3> SUFFICES ASSUME NEW e \in Dials, AgentClaimRuns(e)', pair'[e].agent \notin Leavers
                   PROVE  /\ agents'[pair'[e].agent].reserved_by = WorkerOf[e]
                          /\ agents'[pair'[e].agent].lease_expires_at = pair'[e].agentLease
                          /\ agents'[pair'[e].agent].state \in Busy
        BY DEF AgentClaimStands, Busy
      <3>1. CASE e = d
        BY <1>0, <2>1, <2>2, <3>1 DEF Reserve, AgentDocs, AgentDoc, Busy
      <3>2. CASE e # d
        <4>1. AgentClaimRuns(e) /\ pair'[e] = pair[e] /\ pair[e].agent \in Agents
          BY <1>0, <2>2, <3>2 DEF AgentClaimRuns, Pairs
        <4>2. /\ agents[pair[e].agent].reserved_by = WorkerOf[e]
              /\ agents[pair[e].agent].lease_expires_at = pair[e].agentLease
              /\ agents[pair[e].agent].state \in Busy
          BY <4>1 DEF ClaimInv, AgentClaimStands, Busy
        <4>3. pair[e].agent # a
          BY <4>2 DEF TryReserveAgent, Claimable, Busy
        <4> QED BY <1>0, <2>2, <4>1, <4>2, <4>3
      <3> QED BY <3>1, <3>2
    <2>4. BorrowerClaimStands'
      <3>1. \A e \in Dials : BorrowerClaimRuns(e)' => BorrowerClaimRuns(e) /\ pair'[e] = pair[e]
        BY <1>0, <2>1, <2>2 DEF BorrowerClaimRuns
      <3> QED BY <2>2, <3>1 DEF ClaimInv, BorrowerClaimStands
    <2>5. HeldWhileDialling'
      BY <1>0, <1>h DEF HeldWhileDialling, TryReserveAgent
    <2>6. SweepIsSound'
      BY <1>0, <1>h, <2>2 DEF SweepIsSound, TryReserveAgent
    <2> QED BY <2>3, <2>4, <2>5, <2>6
  <1>4. CASE \E b \in Borrowers : TryReserveBorrower(d, b)
    <2> PICK b \in Borrowers : TryReserveBorrower(d, b)
      BY <1>4
    <2> DEFINE lease == now + RESERVATION_TTL
    <2>1. lease \in Nat /\ pair[d] \in Pairs
      BY <1>0
    <2>2. /\ pair' = [pair EXCEPT ![d] = [@ EXCEPT !.borrower = b, !.borrowerLease = lease]]
          /\ borrowers' = [borrowers EXCEPT ![b] = ReserveBorrower(@, WorkerOf[d], lease)]
          /\ agents' = agents /\ now' = now /\ rec' = rec /\ held' = held
      BY <1>0 DEF TryReserveBorrower, Pairs
    <2>3. AgentClaimStands'
      <3>1. NoNewAgentClaim
        BY <1>0, <2>1, <2>2 DEF NoNewAgentClaim, Pairs
      <3> QED BY <1>0, <2>2, <3>1, AgentsUntouched
    <2>4. BorrowerClaimStands'
      <3> SUFFICES ASSUME NEW e \in Dials, BorrowerClaimRuns(e)'
                   PROVE  /\ borrowers'[pair'[e].borrower].reserved_by = WorkerOf[e]
                          /\ borrowers'[pair'[e].borrower].lease_expires_at
                               = pair'[e].borrowerLease
                          /\ borrowers'[pair'[e].borrower].status = "RESERVED"
        BY DEF BorrowerClaimStands
      <3>1. CASE e = d
        <4>1. pair'[d].borrower = b /\ pair'[d].borrowerLease = lease
          BY <1>0, <2>1, <2>2 DEF Pairs
        <4>2. borrowers'[b] = ReserveBorrower(borrowers[b], WorkerOf[d], lease)
          BY <1>0, <2>2
        <4> QED BY <1>0, <3>1, <4>1, <4>2 DEF ReserveBorrower, BorrowerDocs, BorrowerDoc
      <3>2. CASE e # d
        <4>1. BorrowerClaimRuns(e) /\ pair'[e] = pair[e] /\ pair[e].borrower \in Borrowers
          BY <1>0, <2>2, <3>2 DEF BorrowerClaimRuns, Pairs
        <4>2. /\ borrowers[pair[e].borrower].reserved_by = WorkerOf[e]
              /\ borrowers[pair[e].borrower].lease_expires_at = pair[e].borrowerLease
              /\ borrowers[pair[e].borrower].status = "RESERVED"
          BY <4>1 DEF ClaimInv, BorrowerClaimStands
        <4>3. pair[e].borrower # b
          BY <4>2 DEF TryReserveBorrower, BorrowerClaimable
        <4> QED BY <1>0, <2>2, <4>1, <4>2, <4>3
      <3> QED BY <3>1, <3>2
    <2>5. HeldWhileDialling'
      BY <1>0, <1>h DEF HeldWhileDialling, TryReserveBorrower
    <2>6. SweepIsSound'
      BY <1>0, <1>h, <2>2 DEF SweepIsSound, TryReserveBorrower
    <2> QED BY <2>3, <2>4, <2>5, <2>6
  <1>5. CASE \E b \in Borrowers : BorrowerReplyLost(d, b)
    <2> PICK b \in Borrowers : BorrowerReplyLost(d, b)
      BY <1>5
    <2> DEFINE doc == ReserveBorrower(borrowers[b], WorkerOf[d], now + RESERVATION_TTL)
    <2>1. NoNewAgentClaim /\ NoNewBorrowerClaim /\ agents' = agents
          /\ now' = now /\ rec' = rec /\ borrowers' = [borrowers EXCEPT ![b] = doc]
      BY <1>0 DEF NoNewAgentClaim, NoNewBorrowerClaim, BorrowerReplyLost
    <2>2. \A e \in Dials : BorrowerClaimRuns(e) /\ pair[e].borrower = b => doc = borrowers[b]
      BY DEF ClaimInv, BorrowerClaimStands, BorrowerReplyLost, BorrowerClaimable
    <2> HIDE DEF doc
    <2>3. AgentClaimStands'
      BY <1>0, <2>1, AgentsUntouched
    <2>b. BorrowerClaimStands'
      <3>1. NoNewBorrowerClaim /\ now' \in Nat /\ now <= now'
        BY <1>0, <2>1
      <3> QED BY <1>0, <2>1, <2>2, <3>1, BorrowerKept
    <2>4. HeldWhileDialling'
      BY <1>0, <1>h DEF HeldWhileDialling, BorrowerReplyLost
    <2>5. SweepIsSound'
      BY <1>0, <1>h, <2>1 DEF SweepIsSound, BorrowerReplyLost
    <2> QED BY <2>3, <2>b, <2>4, <2>5
  <1> QED BY <1>1, <1>2, <1>3, <1>4, <1>5 DEF Claim

\* Starting to give a pair back ends its claims and touches no document.
LEMMA StartReleaseKeeps ==
  ASSUME ClaimInv, NEW d \in Dials, pc[d] \notin {"idle", "claim_agent"},
         NEW actor, NEW target, NEW outcome, NEW next,
         StartRelease(d, actor, target, outcome, next)
  PROVE  AgentClaimStands' /\ BorrowerClaimStands' /\ HeldWhileDialling' /\ SweepIsSound'
  <1>0. /\ now \in Nat /\ pc \in [Dials -> DialPcs] /\ held \in [Dials -> BOOLEAN]
        /\ HeldWhileDialling /\ SweepIsSound
    BY DEF ClaimInv, TypeOK
  <1>1. /\ NoNewAgentClaim /\ NoNewBorrowerClaim /\ agents' = agents
        /\ borrowers' = borrowers /\ now' = now
    BY <1>0 DEF NoNewAgentClaim, NoNewBorrowerClaim, StartRelease
  <1>2. AgentClaimStands' /\ BorrowerClaimStands'
    BY <1>0, <1>1, AgentsUntouched, BorrowersUntouched
  <1>3. HeldWhileDialling'
    BY <1>0 DEF HeldWhileDialling, StartRelease
  <1>4. SweepIsSound'
    BY <1>0 DEF SweepIsSound, StartRelease
  <1> QED BY <1>2, <1>3, <1>4

LEMMA DialKeeps ==
  ASSUME ClaimInv, NoStaleTwin, NEW d \in Dials, Dial(d)
  PROVE  AgentClaimStands' /\ BorrowerClaimStands' /\ HeldWhileDialling' /\ SweepIsSound'
  <1> USE ConstantFacts
  <1> DEFINE a == pair[d].agent
             b == pair[d].borrower
             w == WorkerOf[d]
  <1>0. /\ now \in Nat /\ pc \in [Dials -> DialPcs] /\ held \in [Dials -> BOOLEAN]
        /\ pair \in [Dials -> Pairs] /\ HeldWhileDialling /\ SweepIsSound
        /\ pair[d] \in Pairs
        /\ a \in Agents => agents[a] \in AgentDocs
    BY DEF ClaimInv, TypeOK
  <1>a. \A e \in Dials : AgentClaimRuns(e) /\ pair[e].agent = a /\ a \notin Leavers =>
          a \in Agents /\ agents[a].state \in Busy
    BY <1>0 DEF ClaimInv, AgentClaimStands, Busy, AgentClaimRuns, TypeOK, Pairs
  <1>1. CASE MarkDialing(d) \/ BindCall(d) \/ AgentConnects(d)
    <2>1. NoNewAgentClaim /\ NoNewBorrowerClaim /\ borrowers' = borrowers /\ now' = now
          /\ rec' = rec /\ held' = held
      BY <1>0, <1>1 DEF NoNewAgentClaim, NoNewBorrowerClaim, MarkDialing, BindCall, AgentConnects
    <2>2. PICK doc : /\ agents' = [agents EXCEPT ![a] = doc]
                     /\ \/ \E from \in Busy, to \in Busy : \E actor, v :
                            doc = transition_agent(agents[a], from, to, actor, v)
                        \/ doc = bind_call(agents[a], w, d)
      BY <1>1 DEF MarkDialing, BindCall, AgentConnects, Busy
    <2>3. a \in Agents /\ agents[a].state \in Busy =>
            /\ doc.reserved_by = agents[a].reserved_by
            /\ doc.lease_expires_at = agents[a].lease_expires_at
            /\ doc.state \in Busy
      BY <1>0, <2>2 DEF transition_agent, bind_call, AgentDocs, AgentDoc
    <2>4. \A e \in Dials : AgentClaimRuns(e) /\ pair[e].agent = a /\ a \notin Leavers =>
            /\ doc.reserved_by = agents[a].reserved_by
            /\ doc.lease_expires_at = agents[a].lease_expires_at
            /\ doc.state \in Busy
      BY <1>a, <2>3
    <2>5. AgentClaimStands'
      <3>1. NoNewAgentClaim /\ now' \in Nat /\ now <= now'
        BY <1>0, <2>1
      <3> HIDE DEF a
      <3> QED BY <1>0, <2>2, <2>4, <3>1, AgentKept
    <2>6. BorrowerClaimStands'
      BY <1>0, <2>1, BorrowersUntouched
    <2>7. HeldWhileDialling'
      BY <1>0, <1>1, <2>1 DEF HeldWhileDialling, MarkDialing, BindCall, AgentConnects
    <2>8. SweepIsSound'
      BY <1>0, <1>1, <2>1 DEF SweepIsSound, MarkDialing, BindCall, AgentConnects
    <2> QED BY <2>5, <2>6, <2>7, <2>8
  <1>2. CASE Originated(d) \/ Crash(d) \/ Recycle(d)
    <2>1. NoNewAgentClaim /\ NoNewBorrowerClaim /\ agents' = agents /\ borrowers' = borrowers
          /\ now' = now /\ rec' = rec
      BY <1>0, <1>2 DEF NoNewAgentClaim, NoNewBorrowerClaim, Originated, Crash, Recycle,
         Finish, Abandon
    <2>2. AgentClaimStands' /\ BorrowerClaimStands'
      BY <1>0, <2>1, AgentsUntouched, BorrowersUntouched
    <2>3. HeldWhileDialling'
      BY <1>0, <1>2 DEF HeldWhileDialling, Originated, Crash, Recycle, Finish, Abandon
    <2>4. SweepIsSound'
      BY <1>0, <1>2, <2>1 DEF SweepIsSound, Originated, Crash, Recycle, Finish, Abandon
    <2> QED BY <2>2, <2>3, <2>4
  <1>3. CASE NotDialled(d) \/ OriginateFails(d) \/ DialCancelled(d)
             \/ CallCompleted(d) \/ CallFailed(d) \/ OrphanReconciled(d)
    <2>1. pc[d] \notin {"idle", "claim_agent"}
      BY <1>3 DEF NotDialled, OriginateFails, DialCancelled, CallCompleted, CallFailed,
         OrphanReconciled
    <2>2. \E actor, target, outcome, next : StartRelease(d, actor, target, outcome, next)
      BY <1>3 DEF NotDialled, OriginateFails, DialCancelled, CallCompleted, CallFailed,
         OrphanReconciled
    <2> QED BY <2>1, <2>2, StartReleaseKeeps
  <1>4. CASE ReleaseAgentStep(d)
    <2> DEFINE doc == release_agent(agents[a], w, rel[d].target, rel[d].actor)
    <2>1. NoNewAgentClaim /\ NoNewBorrowerClaim /\ borrowers' = borrowers
          /\ now' = now /\ rec' = rec
      BY <1>0, <1>4 DEF NoNewAgentClaim, NoNewBorrowerClaim, ReleaseAgentStep
    <2>2. ~held[d]
      BY <1>0, <1>4 DEF HeldWhileDialling, ReleaseAgentStep
    <2>3. \A e \in Dials : AgentClaimRuns(e) /\ pair[e].agent = a /\ a \notin Leavers =>
            doc = agents[a]
      BY <2>2, ForeignRelease
    <2>4. agents' = [agents EXCEPT ![a] = doc]
      BY <1>4 DEF ReleaseAgentStep
    <2> HIDE DEF doc
    <2>5. AgentClaimStands'
      <3>1. \A e \in Dials : AgentClaimRuns(e) /\ pair[e].agent = a /\ a \notin Leavers =>
              /\ doc.reserved_by = agents[a].reserved_by
              /\ doc.lease_expires_at = agents[a].lease_expires_at
              /\ doc.state \in Busy
        BY <1>a, <2>3
      <3>2. NoNewAgentClaim /\ now' \in Nat /\ now <= now'
        BY <1>0, <2>1
      <3> HIDE DEF a
      <3> QED BY <1>0, <2>4, <3>1, <3>2, AgentKept
    <2>6. BorrowerClaimStands'
      BY <1>0, <2>1, BorrowersUntouched
    <2>7. HeldWhileDialling'
      BY <1>0, <1>4 DEF HeldWhileDialling, ReleaseAgentStep
    <2>8. SweepIsSound'
      BY <1>0, <1>4, <2>1 DEF SweepIsSound, ReleaseAgentStep
    <2> QED BY <2>5, <2>6, <2>7, <2>8
  <1>5. CASE ReleaseBorrowerStep(d)
    <2> DEFINE doc == release_borrower(borrowers[b], w, rel[d].outcome, now)
    <2>1. NoNewAgentClaim /\ NoNewBorrowerClaim /\ agents' = agents
          /\ now' = now /\ rec' = rec
      BY <1>0, <1>5 DEF NoNewAgentClaim, NoNewBorrowerClaim, ReleaseBorrowerStep, Finish,
         Abandon
    <2>2. ~held[d]
      BY <1>0, <1>5 DEF HeldWhileDialling, ReleaseBorrowerStep
    <2>3. \A e \in Dials : BorrowerClaimRuns(e) /\ pair[e].borrower = b => doc = borrowers[b]
      BY <2>2, ForeignRelease
    <2>4. borrowers' = [borrowers EXCEPT ![b] = doc]
      BY <1>5 DEF ReleaseBorrowerStep
    <2> HIDE DEF doc
    <2>5. AgentClaimStands'
      BY <1>0, <2>1, AgentsUntouched
    <2>6. BorrowerClaimStands'
      <3>1. NoNewBorrowerClaim /\ now' \in Nat /\ now <= now'
        BY <1>0, <2>1
      <3> HIDE DEF b
      <3> QED BY <1>0, <2>3, <2>4, <3>1, BorrowerKept
    <2>7. HeldWhileDialling'
      BY <1>0, <1>5, <2>2 DEF HeldWhileDialling, ReleaseBorrowerStep, Finish, Abandon
    <2>8. SweepIsSound'
      BY <1>0, <1>5, <2>1 DEF SweepIsSound, ReleaseBorrowerStep, Finish, Abandon
    <2> QED BY <2>5, <2>6, <2>7, <2>8
  <1> QED BY <1>1, <1>2, <1>3, <1>4, <1>5 DEF Dial

\* An agent that stays, and the wrap-up timer, move no agent a claim runs on.
LEMMA AgentStepKeeps ==
  ASSUME ClaimInv, AgentStep
  PROVE  AgentClaimStands' /\ BorrowerClaimStands' /\ HeldWhileDialling' /\ SweepIsSound'
  <1>0. now \in Nat /\ HeldWhileDialling /\ SweepIsSound
    BY DEF ClaimInv, TypeOK
  <1>1. PICK a \in Agents : WrapUpEnds(a) \/ \E target \in AGENT_ACTIONS : AgentActs(a, target)
    BY DEF AgentStep
  <1>2. PICK doc : agents' = [agents EXCEPT ![a] = doc]
    BY <1>1 DEF WrapUpEnds, AgentActs
  <1>3. a \in Leavers \/ agents[a].state \notin Busy
    BY <1>1 DEF WrapUpEnds, AgentActs, Busy
  <1>4. UNCHANGED <<borrowers, now, pc, cand, pair, held, rel, rec>>
    BY <1>1 DEF WrapUpEnds, AgentActs
  <1>5. \A e \in Dials : ~(AgentClaimRuns(e) /\ pair[e].agent = a /\ a \notin Leavers)
    BY <1>3 DEF ClaimInv, AgentClaimStands, Busy
  <1>6. NoNewAgentClaim /\ NoNewBorrowerClaim /\ now' \in Nat /\ now <= now'
    BY <1>0, <1>4 DEF NoNewAgentClaim, NoNewBorrowerClaim
  <1>7. AgentClaimStands'
    BY <1>0, <1>2, <1>5, <1>6, AgentKept
  <1>8. BorrowerClaimStands'
    BY <1>0, <1>4, <1>6, BorrowersUntouched
  <1>9. HeldWhileDialling' /\ SweepIsSound'
    BY <1>0, <1>4 DEF HeldWhileDialling, SweepIsSound
  <1> QED BY <1>7, <1>8, <1>9

\* A sweep takes back only what its lease, compared with an instant that has passed, allows.
LEMMA RecoveryKeeps ==
  ASSUME ClaimInv, NoStaleTwin, Recovery
  PROVE  AgentClaimStands' /\ BorrowerClaimStands' /\ HeldWhileDialling' /\ SweepIsSound'
  <1> USE ConstantFacts
  <1>0. /\ now \in Nat /\ HeldWhileDialling /\ SweepIsSound /\ rec \in RecoveryState
        /\ rec.now \in Nat /\ rec.now <= now /\ held \in [Dials -> BOOLEAN]
        /\ pc \in [Dials -> DialPcs] /\ pair \in [Dials -> Pairs]
    BY DEF ClaimInv, TypeOK, RecoveryState, SweepIsSound
  <1>1. CASE SweepLeases \/ SweepBorrowers \/ EndSweeps \/ RecoveryStops
    <2>1. UNCHANGED <<agents, borrowers, now, pc, pair, held>>
      BY <1>1 DEF SweepLeases, SweepBorrowers, EndSweeps, RecoveryStops
    <2>2. NoNewAgentClaim /\ NoNewBorrowerClaim
      BY <2>1 DEF NoNewAgentClaim, NoNewBorrowerClaim
    <2>3. AgentClaimStands' /\ BorrowerClaimStands'
      BY <1>0, <2>1, <2>2, AgentsUntouched, BorrowersUntouched
    <2>4. HeldWhileDialling'
      BY <1>0, <2>1 DEF HeldWhileDialling
    <2>5. rec'.now <= now /\ (rec'.to = "AVAILABLE") /\ rec'.pc # "cancel"
      <3>1. CASE SweepLeases
        <4> DEFINE found == { SnapshotOf(x) :
                                x \in { y \in Agents : LeaseSweepable(agents[y], now) } }
        <4>1. rec' = [rec EXCEPT !.pc = "agents", !.to = "AVAILABLE", !.now = now,
                        !.agents = found]
          BY <3>1 DEF SweepLeases
        <4> HIDE DEF found
        <4> QED BY <1>0, <4>1 DEF RecoveryState
      <3>2. CASE SweepBorrowers
        <4> DEFINE found == { BorrowerSnapshotOf(x) :
                      x \in { y \in Borrowers : BorrowerSweepable(borrowers[y], rec.now) } }
        <4>1. rec' = [rec EXCEPT !.pc = "borrowers", !.borrowers = found]
              /\ rec.to = "AVAILABLE"
          BY <3>2 DEF SweepBorrowers
        <4> HIDE DEF found
        <4> QED BY <1>0, <4>1 DEF RecoveryState
      <3>3. CASE EndSweeps \/ RecoveryStops
        BY <1>0, <3>3 DEF EndSweeps, RecoveryStops, NoSweep
      <3> QED BY <1>1, <3>1, <3>2, <3>3
    <2>6. SweepIsSound'
      BY <2>1, <2>5 DEF SweepIsSound
    <2> QED BY <2>3, <2>4, <2>6
  <1>2. CASE SweepHeartbeats
    <2>1. UNCHANGED <<agents, borrowers, now, pc, pair, held>>
      BY <1>2 DEF SweepHeartbeats
    <2>2. NoNewAgentClaim /\ NoNewBorrowerClaim
      BY <2>1 DEF NoNewAgentClaim, NoNewBorrowerClaim
    <2>3. AgentClaimStands' /\ BorrowerClaimStands'
      BY <1>0, <2>1, <2>2, AgentsUntouched, BorrowersUntouched
    <2>4. HeldWhileDialling'
      BY <1>0, <2>1 DEF HeldWhileDialling
    <2>5. PICK silent \in SUBSET Leavers :
             rec' = [rec EXCEPT !.pc = "agents", !.to = "OFFLINE",
                       !.agents = { SnapshotOf(a) : a \in silent }]
      BY <1>2 DEF SweepHeartbeats
    <2> DEFINE found == { SnapshotOf(a) : a \in silent }
    <2>6. \A s \in found : s.id \in Leavers
      BY DEF SnapshotOf
    <2> HIDE DEF found
    <2>7. rec'.now = rec.now /\ rec'.pc = "agents" /\ rec'.agents = found
      BY <1>0, <2>5 DEF RecoveryState, found
    <2>8. SweepIsSound'
      BY <1>0, <2>1, <2>6, <2>7 DEF SweepIsSound
    <2> QED BY <2>3, <2>4, <2>8
  <1>3. CASE ReleaseCancelled
    <2> DEFINE b == rec.borrower
               doc == release_borrower(borrowers[b], WorkerOf[rec.call], "RETRY", now)
    <2>1. UNCHANGED <<agents, now, pc, pair, held>> /\ borrowers' = [borrowers EXCEPT ![b] = doc]
          /\ rec' = [rec EXCEPT !.pc = "release", !.call = NULL, !.borrower = NULL]
          /\ rec.pc = "cancel"
      BY <1>3 DEF ReleaseCancelled
    <2>2. NoNewAgentClaim /\ NoNewBorrowerClaim
      BY <2>1 DEF NoNewAgentClaim, NoNewBorrowerClaim
    <2>3. rec.call \in Dials /\ ~held[rec.call]
      BY <1>0, <2>1 DEF SweepIsSound
    <2>4. \A e \in Dials : BorrowerClaimRuns(e) /\ pair[e].borrower = b =>
             WorkerOf[e] # WorkerOf[rec.call]
      BY <2>1, <2>3 DEF NoStaleTwin, StaleTwin, BorrowerClaimRuns
    <2>5. \A e \in Dials : BorrowerClaimRuns(e) /\ pair[e].borrower = b => doc = borrowers[b]
      BY <2>4 DEF ClaimInv, BorrowerClaimStands, release_borrower, BorrowerReleaseMatches
    <2>6. AgentClaimStands'
      BY <1>0, <2>1, <2>2, AgentsUntouched
    <2>7. BorrowerClaimStands'
      <3>1. now' \in Nat /\ now <= now'
        BY <1>0, <2>1
      <3> HIDE DEF b, doc
      <3> QED BY <1>0, <2>1, <2>2, <2>5, <3>1, BorrowerKept
    <2>8. HeldWhileDialling'
      BY <1>0, <2>1 DEF HeldWhileDialling
    <2>9. SweepIsSound'
      <3>1. /\ rec'.now = rec.now /\ rec'.to = rec.to /\ rec'.agents = rec.agents
            /\ rec'.cur = rec.cur /\ rec'.pc = "release"
        BY <1>0, <2>1 DEF RecoveryState
      <3> QED BY <1>0, <2>1, <3>1 DEF SweepIsSound
    <2> QED BY <2>6, <2>7, <2>8, <2>9
  <1>4. CASE ReleaseCandidate
    <2> DEFINE a == rec.cur.id
               doc == IF rec.to = "AVAILABLE"
                      THEN release_expired_agent_lease(agents[a], rec.cur, rec.now)
                      ELSE transition_agent(agents[a], rec.cur.state, "OFFLINE", "RECOVERY",
                                            rec.cur.state_version)
    <2>1. UNCHANGED <<borrowers, now, pc, pair, held>> /\ agents' = [agents EXCEPT ![a] = doc]
          /\ rec' = [rec EXCEPT !.pc = "agents", !.cur = NULL] /\ rec.pc = "release"
      BY <1>4 DEF ReleaseCandidate
    <2>2. NoNewAgentClaim /\ NoNewBorrowerClaim /\ now' \in Nat /\ now <= now'
      BY <1>0, <2>1 DEF NoNewAgentClaim, NoNewBorrowerClaim
    <2>3. \A e \in Dials : AgentClaimRuns(e) /\ pair[e].agent = a /\ a \notin Leavers =>
            doc = agents[a]
      <3> SUFFICES ASSUME NEW e \in Dials, AgentClaimRuns(e), pair[e].agent = a, a \notin Leavers
                   PROVE  doc = agents[a]
        OBVIOUS
      <3>1. rec.to = "AVAILABLE"
        BY <1>0, <2>1 DEF SweepIsSound, RecoveryState
      <3>2. pair[e].agentLease \in Nat /\ now <= pair[e].agentLease
            /\ agents[a].lease_expires_at = pair[e].agentLease
        BY <1>0 DEF ClaimInv, AgentClaimStands, AgentClaimRuns, Pairs
      <3>3. ~LeaseOver(agents[a].lease_expires_at, rec.now)
        BY <1>0, <3>2 DEF LeaseOver
      <3> QED BY <3>1, <3>3 DEF release_expired_agent_lease, ExpiredMatches
    <2>4. \A e \in Dials : AgentClaimRuns(e) /\ pair[e].agent = a /\ a \notin Leavers =>
            /\ doc.reserved_by = agents[a].reserved_by
            /\ doc.lease_expires_at = agents[a].lease_expires_at
            /\ doc.state \in Busy
      BY <2>3 DEF ClaimInv, AgentClaimStands, Busy
    <2>5. AgentClaimStands'
      <3> HIDE DEF a, doc
      <3> QED BY <1>0, <2>1, <2>2, <2>4, AgentKept
    <2>6. BorrowerClaimStands'
      BY <1>0, <2>1, <2>2, BorrowersUntouched
    <2>7. HeldWhileDialling'
      BY <1>0, <2>1 DEF HeldWhileDialling
    <2>8. SweepIsSound'
      <3>1. /\ rec'.now = rec.now /\ rec'.to = rec.to /\ rec'.agents = rec.agents
            /\ rec'.pc = "agents"
        BY <1>0, <2>1 DEF RecoveryState
      <3> QED BY <1>0, <2>1, <3>1 DEF SweepIsSound
    <2> QED BY <2>5, <2>6, <2>7, <2>8
  <1>5. CASE \E s \in rec.agents : HandleCandidate(s)
    <2> PICK s \in rec.agents : HandleCandidate(s)
      BY <1>5
    <2> DEFINE c == s.current_call_id
               open == c # NULL /\ CallOpen(c)
    <2>0. s \in AgentSnapshots /\ c \in Dials \cup {NULL} /\ rec.pc = "agents"
          /\ UNCHANGED <<agents, borrowers, now>>
      BY <1>0 DEF RecoveryState, AgentSnapshots, HandleCandidate
    <2>1. open => c \in Dials /\ pc[c] \notin {"idle", "claim_agent"}
      BY <2>0 DEF CallOpen
    <2>2. /\ \A e \in Dials : held'[e] => held[e] /\ pair'[e] = pair[e]
          /\ \A e \in Dials : held'[e] => pc'[e] = pc[e]
          /\ open => ~held'[c] /\ pc'[c] \notin {"idle", "claim_agent"}
      <3>1. CASE open /\ pc[c] \in {"live", "lost"}
        BY <1>0, <2>0, <2>1, <3>1 DEF HandleCandidate, Finish
      <3>2. CASE open /\ pc[c] \notin {"live", "lost"}
        BY <1>0, <2>0, <2>1, <3>2 DEF HandleCandidate
      <3>3. CASE ~open
        BY <3>3 DEF HandleCandidate
      <3> QED BY <3>1, <3>2, <3>3
    <2>3. NoNewAgentClaim /\ NoNewBorrowerClaim /\ now' \in Nat /\ now <= now'
      BY <1>0, <2>0, <2>2 DEF NoNewAgentClaim, NoNewBorrowerClaim
    <2>4. AgentClaimStands' /\ BorrowerClaimStands'
      BY <1>0, <2>0, <2>3, AgentsUntouched, BorrowersUntouched
    <2>5. HeldWhileDialling'
      BY <1>0, <2>2 DEF HeldWhileDialling
    <2>6. /\ rec'.now = rec.now /\ rec'.to = rec.to /\ rec'.agents \subseteq rec.agents
          /\ rec'.cur = s
          /\ rec'.pc = "cancel" => open /\ rec'.call = c
      <3> DEFINE b == pair[c].borrower
      <3>1. CASE open
        <4>1. rec' = [rec EXCEPT !.pc = "cancel", !.agents = @ \ {s}, !.cur = s,
                        !.call = c, !.borrower = b]
          BY <3>1 DEF HandleCandidate
        <4> HIDE DEF c, open, b
        <4> QED BY <1>0, <3>1, <4>1 DEF RecoveryState
      <3>2. CASE ~open
        <4>1. rec' = [rec EXCEPT !.pc = "release", !.agents = @ \ {s}, !.cur = s]
          BY <3>2 DEF HandleCandidate
        <4> QED BY <1>0, <4>1 DEF RecoveryState
      <3> QED BY <3>1, <3>2
    <2>7. SweepIsSound'
      BY <1>0, <2>0, <2>1, <2>2, <2>6 DEF SweepIsSound
    <2> QED BY <2>4, <2>5, <2>7
  <1>6. CASE \E s \in rec.borrowers : ReclaimBorrower(s)
    <2> PICK s \in rec.borrowers : ReclaimBorrower(s)
      BY <1>6
    <2> DEFINE doc == reclaim_borrower(borrowers[s.id], s, rec.now)
    <2>1. UNCHANGED <<agents, now, pc, pair, held>>
          /\ borrowers' = [borrowers EXCEPT ![s.id] = doc]
          /\ rec' = [rec EXCEPT !.borrowers = @ \ {s}] /\ rec.pc = "borrowers"
      BY DEF ReclaimBorrower
    <2>2. NoNewAgentClaim /\ NoNewBorrowerClaim /\ now' \in Nat /\ now <= now'
      BY <1>0, <2>1 DEF NoNewAgentClaim, NoNewBorrowerClaim
    <2>3. \A e \in Dials : BorrowerClaimRuns(e) /\ pair[e].borrower = s.id =>
            doc = borrowers[s.id]
      <3> SUFFICES ASSUME NEW e \in Dials, BorrowerClaimRuns(e), pair[e].borrower = s.id
                   PROVE  doc = borrowers[s.id]
        OBVIOUS
      <3>1. pair[e].borrowerLease \in Nat /\ now <= pair[e].borrowerLease
            /\ borrowers[s.id].lease_expires_at = pair[e].borrowerLease
        BY <1>0 DEF ClaimInv, BorrowerClaimStands, BorrowerClaimRuns, Pairs
      <3>2. ~LeaseOver(borrowers[s.id].lease_expires_at, rec.now)
        BY <1>0, <3>1 DEF LeaseOver
      <3> QED BY <3>2 DEF reclaim_borrower, ReclaimMatches
    <2>4. AgentClaimStands'
      BY <1>0, <2>1, <2>2, AgentsUntouched
    <2>5. BorrowerClaimStands'
      <3> HIDE DEF doc
      <3> QED BY <1>0, <2>1, <2>2, <2>3, BorrowerKept
    <2>6. HeldWhileDialling'
      BY <1>0, <2>1 DEF HeldWhileDialling
    <2>7. SweepIsSound'
      <3>1. rec'.now = rec.now /\ rec'.to = rec.to /\ rec'.agents = rec.agents
            /\ rec'.pc = "borrowers"
        BY <1>0, <2>1 DEF RecoveryState
      <3> QED BY <1>0, <2>1, <3>1 DEF SweepIsSound
    <2> QED BY <2>4, <2>5, <2>6, <2>7
  <1> QED BY <1>1, <1>2, <1>3, <1>4, <1>5, <1>6 DEF Recovery

LEMMA ClaimStep == ClaimInv /\ NoStaleTwin /\ [Next]_vars => ClaimInv'
  <1> SUFFICES ASSUME ClaimInv, NoStaleTwin, [Next]_vars
               PROVE  ClaimInv'
    OBVIOUS
  <1>0. now \in Nat /\ HeldWhileDialling /\ SweepIsSound /\ TypeOK /\ AttemptsRemain
        /\ rec.now \in Nat
    BY DEF ClaimInv, TypeOK, RecoveryState
  <1>1. TypeOK' /\ AttemptsRemain'
    BY <1>0, TypeStep
  <1>2. CASE Tick \/ UNCHANGED vars
    <2>1. UNCHANGED <<agents, borrowers, pc, pair, held, rec>> /\ now' \in Nat /\ now <= now'
      BY <1>0, <1>2 DEF Tick, vars
    <2>2. NoNewAgentClaim /\ NoNewBorrowerClaim
      BY <2>1 DEF NoNewAgentClaim, NoNewBorrowerClaim
    <2>3. AgentClaimStands' /\ BorrowerClaimStands'
      BY <1>0, <2>1, <2>2, AgentsUntouched, BorrowersUntouched
    <2>4. HeldWhileDialling' /\ SweepIsSound'
      BY <1>0, <2>1 DEF HeldWhileDialling, SweepIsSound
    <2> QED BY <1>1, <2>3, <2>4 DEF ClaimInv
  <1>3. CASE (\E d \in Dials : Claim(d) \/ Dial(d)) \/ AgentStep \/ Recovery
    BY <1>1, <1>3, ClaimKeeps, DialKeeps, AgentStepKeeps, RecoveryKeeps DEF ClaimInv
  <1> QED BY <1>2, <1>3 DEF Next

LEMMA ClaimInit == Init => ClaimInv
  <1>1. Init => /\ AgentClaimStands /\ BorrowerClaimStands /\ HeldWhileDialling
                /\ SweepIsSound
    BY DEF Init, AgentClaimStands, BorrowerClaimStands, AgentClaimRuns, BorrowerClaimRuns,
       HeldWhileDialling, SweepIsSound, NoSweep
  <1> QED BY <1>1, InitType DEF ClaimInv

\* Only a successful claim makes a dial rely on an agent or a borrower.
LEMMA WhoClaims ==
  ASSUME ClaimInv, [Next]_vars
  PROVE  /\ NoNewAgentClaim \/ \E d \in Dials, a \in Agents : TryReserveAgent(d, a)
         /\ NoNewBorrowerClaim \/ \E d \in Dials :
              \/ \E a \in Agents : TryReserveAgent(d, a)
              \/ \E b \in Borrowers : TryReserveBorrower(d, b)
  <1>0. /\ pc \in [Dials -> DialPcs] /\ held \in [Dials -> BOOLEAN]
        /\ pair \in [Dials -> Pairs] /\ rec \in RecoveryState
    BY DEF ClaimInv, TypeOK
  <1>1. CASE Tick \/ AgentStep \/ UNCHANGED vars
    <2>1. held' = held /\ pair' = pair
      BY <1>1 DEF Tick, AgentStep, AgentActs, WrapUpEnds, vars
    <2> QED BY <2>1 DEF NoNewAgentClaim, NoNewBorrowerClaim
  <1>2. CASE Recovery
    <2>1. CASE \E s \in rec.agents : HandleCandidate(s)
      <3> PICK s \in rec.agents : HandleCandidate(s)
        BY <2>1
      <3>1. s.current_call_id \in Dials \cup {NULL}
        BY <1>0 DEF RecoveryState, AgentSnapshots
      <3>2. \A e \in Dials : held'[e] => held[e] /\ pair'[e] = pair[e]
        BY <1>0, <3>1 DEF HandleCandidate, Finish
      <3> QED BY <3>2 DEF NoNewAgentClaim, NoNewBorrowerClaim
    <2>2. CASE ~ \E s \in rec.agents : HandleCandidate(s)
      <3>1. held' = held /\ pair' = pair
        BY <1>2, <2>2 DEF Recovery, SweepLeases, ReleaseCancelled, ReleaseCandidate,
           SweepBorrowers, SweepHeartbeats, EndSweeps, RecoveryStops, ReclaimBorrower
      <3> QED BY <3>1 DEF NoNewAgentClaim, NoNewBorrowerClaim
    <2> QED BY <2>1, <2>2
  <1>3. CASE \E d \in Dials : Dial(d)
    <2> PICK d \in Dials : Dial(d)
      BY <1>3
    <2>1. \A e \in Dials : held'[e] => held[e] /\ pair'[e] = pair[e]
      BY <1>0 DEF Dial, MarkDialing, BindCall, Originated, AgentConnects, NotDialled,
         OriginateFails, DialCancelled, CallCompleted, CallFailed, OrphanReconciled,
         StartRelease, ReleaseAgentStep, ReleaseBorrowerStep, Crash, Recycle, Finish, Abandon
    <2> QED BY <2>1 DEF NoNewAgentClaim, NoNewBorrowerClaim
  <1>4. CASE \E d \in Dials : Claim(d)
    <2> PICK d \in Dials : Claim(d)
      BY <1>4
    <2>1. CASE \E a \in Agents : TryReserveAgent(d, a)
      BY <2>1
    <2>2. CASE \E b \in Borrowers : TryReserveBorrower(d, b)
      <3> PICK b \in Borrowers : TryReserveBorrower(d, b)
        BY <2>2
      <3>1. pair[d] \in Pairs /\ held' = held
        BY <1>0 DEF TryReserveBorrower
      <3>2. NoNewAgentClaim
        BY <1>0, <3>1 DEF TryReserveBorrower, NoNewAgentClaim, Pairs
      <3> QED BY <3>2, <2>2
    <2>3. CASE ~(\E a \in Agents : TryReserveAgent(d, a))
               /\ ~(\E b \in Borrowers : TryReserveBorrower(d, b))
      <3>1. \A e \in Dials : held'[e] => held[e] /\ pair'[e] = pair[e]
        BY <1>0, <2>3 DEF Claim, FindAgents, NoAgentLeft, FindBorrowers, BorrowerClaimFails,
           UndoAgent, AgentContended, BorrowerContended, BorrowerReplyLost, Finish
      <3> QED BY <3>1 DEF NoNewAgentClaim, NoNewBorrowerClaim
    <2> QED BY <2>1, <2>2, <2>3
  <1> QED BY <1>1, <1>2, <1>3, <1>4 DEF Next

LEMMA ClockStep ==
  ASSUME TypeOK, [Next]_vars
  PROVE  now \in Nat /\ now' \in Nat /\ now <= now'
  <1>0. now \in Nat
    BY DEF TypeOK
  <1>1. Tick => now' = now + 1
    BY DEF Tick
  <1>2. AgentStep \/ UNCHANGED vars => now' = now
    BY DEF AgentStep, AgentActs, WrapUpEnds, vars
  <1>3. Recovery => now' = now
    BY DEF Recovery, SweepLeases, ReleaseCancelled, ReleaseCandidate, SweepBorrowers,
       SweepHeartbeats, EndSweeps, RecoveryStops, HandleCandidate, ReclaimBorrower
  <1>4. \A d \in Dials : Dial(d) => now' = now
    BY DEF Dial, MarkDialing, BindCall, Originated, AgentConnects, NotDialled,
       OriginateFails, DialCancelled, CallCompleted, CallFailed, OrphanReconciled,
       StartRelease, ReleaseAgentStep, ReleaseBorrowerStep, Crash, Recycle
  <1>5. \A d \in Dials : Claim(d) => now' = now
    BY DEF Claim, FindAgents, NoAgentLeft, FindBorrowers, BorrowerClaimFails, UndoAgent,
       TryReserveAgent, TryReserveBorrower, AgentContended, BorrowerContended,
       BorrowerReplyLost
  <1> QED BY <1>0, <1>1, <1>2, <1>3, <1>4, <1>5 DEF Next

\* A document that carries a running claim is not claimable, so no second one starts.
LEMMA ExclusiveStep ==
  ASSUME ClaimInv, ClaimInv', AgentExclusive, BorrowerExclusive, [Next]_vars
  PROVE  AgentExclusive' /\ BorrowerExclusive'
  <1> USE ConstantFacts
  <1>0. /\ now \in Nat /\ now' \in Nat /\ pair \in [Dials -> Pairs]
        /\ held \in [Dials -> BOOLEAN] /\ pair' \in [Dials -> Pairs] /\ HeldWhileDialling
    BY DEF ClaimInv, TypeOK
  <1>1. now <= now'
    BY ClockStep DEF ClaimInv
  <1>2. AgentExclusive'
    <2>1. CASE NoNewAgentClaim
      <3>1. \A e \in Dials : AgentClaimRuns(e)' =>
              AgentClaimRuns(e) /\ pair'[e].agent = pair[e].agent
        BY <1>0, <1>1, <2>1 DEF NoNewAgentClaim, AgentClaimRuns, Pairs
      <3> QED BY <3>1 DEF AgentExclusive
    <2>2. CASE \E d \in Dials, a \in Agents : TryReserveAgent(d, a)
      <3> PICK d \in Dials, a \in Agents : TryReserveAgent(d, a)
        BY <2>2
      <3>1. /\ \A e \in Dials \ {d} : pair'[e] = pair[e] /\ held'[e] = held[e]
            /\ pair'[d].agent = a
        BY <1>0 DEF TryReserveAgent, NoPair
      <3>2. \A e \in Dials \ {d} : AgentClaimRuns(e)' => AgentClaimRuns(e)
        BY <1>0, <1>1, <3>1 DEF AgentClaimRuns, Pairs
      <3>3. \A e \in Dials \ {d} : AgentClaimRuns(e) /\ pair[e].agent \notin Leavers =>
              pair[e].agent # a
        BY DEF ClaimInv, AgentClaimStands, TryReserveAgent, Claimable
      <3> QED BY <3>1, <3>2, <3>3 DEF AgentExclusive
    <2> QED BY <2>1, <2>2, WhoClaims
  <1>3. BorrowerExclusive'
    <2>1. CASE NoNewBorrowerClaim
      <3>1. \A e \in Dials : BorrowerClaimRuns(e)' =>
              BorrowerClaimRuns(e) /\ pair'[e].borrower = pair[e].borrower
        BY <1>0, <1>1, <2>1 DEF NoNewBorrowerClaim, BorrowerClaimRuns, Pairs
      <3> QED BY <3>1 DEF BorrowerExclusive
    <2>2. CASE \E d \in Dials, a \in Agents : TryReserveAgent(d, a)
      <3> PICK d \in Dials, a \in Agents : TryReserveAgent(d, a)
        BY <2>2
      <3>1. /\ \A e \in Dials \ {d} : pair'[e] = pair[e] /\ held'[e] = held[e]
            /\ pair'[d].borrower = NULL
        BY <1>0 DEF TryReserveAgent, NoPair
      <3>2. \A e \in Dials : BorrowerClaimRuns(e)' => BorrowerClaimRuns(e) /\ pair'[e] = pair[e]
        BY <1>0, <1>1, <3>1 DEF BorrowerClaimRuns, Pairs
      <3> QED BY <3>2 DEF BorrowerExclusive
    <2>3. CASE \E d \in Dials, b \in Borrowers : TryReserveBorrower(d, b)
      <3> PICK d \in Dials, b \in Borrowers : TryReserveBorrower(d, b)
        BY <2>3
      <3>1. /\ \A e \in Dials \ {d} : pair'[e] = pair[e]
            /\ pair'[d].borrower = b /\ held' = held
        BY <1>0 DEF TryReserveBorrower, Pairs
      <3>2. \A e \in Dials \ {d} : BorrowerClaimRuns(e)' => BorrowerClaimRuns(e)
        BY <1>0, <1>1, <3>1 DEF BorrowerClaimRuns, Pairs
      <3>3. \A e \in Dials \ {d} : BorrowerClaimRuns(e) => pair[e].borrower # b
        BY DEF ClaimInv, BorrowerClaimStands, TryReserveBorrower, BorrowerClaimable
      <3> QED BY <3>1, <3>2, <3>3 DEF BorrowerExclusive
    <2> QED BY <2>1, <2>2, <2>3, WhoClaims
  <1> QED BY <1>2, <1>3

LEMMA ClaimInvariant == Spec /\ []NoStaleTwin => []ClaimInv
  BY ClaimInit, ClaimStep, PTL DEF Spec

LEMMA Exclusion == Spec /\ []NoStaleTwin => [](AgentExclusive /\ BorrowerExclusive)
  <1>1. Init => AgentExclusive /\ BorrowerExclusive
    BY DEF Init, AgentExclusive, BorrowerExclusive, AgentClaimRuns, BorrowerClaimRuns
  <1>2. ClaimInv /\ ClaimInv' /\ AgentExclusive /\ BorrowerExclusive /\ [Next]_vars =>
          AgentExclusive' /\ BorrowerExclusive'
    BY ExclusiveStep
  <1> QED BY <1>1, <1>2, ClaimInit, ClaimStep, PTL DEF Spec

\* A running claim stands in the agent's document: no release of another worker, no stale
\* sweep candidate and no event takes the agent from a dial whose lease is not over, as long
\* as no worker gives back through a pair it has lost what it has claimed anew.
THEOREM AgentClaimsStand == Spec /\ []NoStaleTwin => []AgentClaimStands
  <1>1. ClaimInv => AgentClaimStands
    BY DEF ClaimInv
  <1> QED BY <1>1, ClaimInvariant, PTL

\* The same for the borrower's document (release_borrower, reclaim_expired_borrower_leases).
THEOREM BorrowerClaimsStand == Spec /\ []NoStaleTwin => []BorrowerClaimStands
  <1>1. ClaimInv => BorrowerClaimStands
    BY DEF ClaimInv
  <1> QED BY <1>1, ClaimInvariant, PTL

\* Under the same condition no agent is claimed by two dials at once: try_reserve_agent is
\* guarded by the state it leaves.
THEOREM AgentsAreExclusive == Spec /\ []NoStaleTwin => []AgentExclusive
  BY Exclusion, PTL

\* Nor is a borrower (try_reserve_borrower): two workers never dial the same person at once.
THEOREM BorrowersAreExclusive == Spec /\ []NoStaleTwin => []BorrowerExclusive
  BY Exclusion, PTL

--------------------------------------------------------------------------------------
(* What needs no assumption on who dials for whom: a document that is kept busy carries  *)
(* the lease its sweep looks for, and a settled borrower stays settled.                  *)

AgentCovered(ag) ==
  ag.state \in Busy => ag.reserved_by # NULL /\ ag.lease_expires_at # NULL

BorrowerCovered(bo) ==
  bo.status = "RESERVED" => bo.reserved_by # NULL /\ bo.lease_expires_at # NULL

Settled == {"CONTACTED", "EXHAUSTED"}

\* A release clears the lease, so it must not leave the agent busy.
ReleasesFree == \A d \in Dials : rel[d].target \notin Busy

LeaseInv == TypeOK /\ AttemptsRemain /\ LeaseCoversBusy /\ ReleasesFree

--------------------------------------------------------------------------------------
(* Single writes.                                                                      *)

LEMMA ReservedIsCovered ==
  ASSUME NEW ag \in AgentDocs, NEW w, w # NULL, NEW lease, lease # NULL
  PROVE  AgentCovered(Reserve(ag, w, lease))
  BY DEF AgentCovered, Reserve, AgentDocs, AgentDoc

LEMMA ReleasedIsCovered ==
  ASSUME NEW ag, AgentCovered(ag), NEW w, NEW target, target \notin Busy, NEW actor
  PROVE  AgentCovered(release_agent(ag, w, target, actor))
  BY DEF AgentCovered, release_agent, Release

LEMMA ExpiredIsCovered ==
  ASSUME NEW ag, AgentCovered(ag), NEW seen, NEW at
  PROVE  AgentCovered(release_expired_agent_lease(ag, seen, at))
  BY DEF AgentCovered, release_expired_agent_lease, Release, Busy

LEMMA MovedIsCovered ==
  ASSUME NEW ag \in AgentDocs, AgentCovered(ag), NEW from, NEW to, NEW actor, NEW v,
         to \in Busy => from \in Busy
  PROVE  AgentCovered(transition_agent(ag, from, to, actor, v))
  BY DEF AgentCovered, transition_agent, TransitionMatches, AgentDocs, AgentDoc

LEMMA BoundIsCovered ==
  ASSUME NEW ag \in AgentDocs, AgentCovered(ag), NEW w, NEW d
  PROVE  AgentCovered(bind_call(ag, w, d))
  BY DEF AgentCovered, bind_call, AgentDocs, AgentDoc

LEMMA BorrowerReserved ==
  ASSUME NEW bo \in BorrowerDocs, NEW at, BorrowerClaimable(bo, at),
         NEW w, w # NULL, NEW lease, lease # NULL
  PROVE  BorrowerCovered(ReserveBorrower(bo, w, lease)) /\ bo.status \notin Settled
  BY DEF BorrowerCovered, ReserveBorrower, BorrowerClaimable, BorrowerDocs, BorrowerDoc, Settled

LEMMA BorrowerReleased ==
  ASSUME NEW bo, BorrowerCovered(bo), NEW w, NEW outcome \in BorrowerReleaseOutcome, NEW at
  PROVE  /\ BorrowerCovered(release_borrower(bo, w, outcome, at))
         /\ bo.status \in Settled => release_borrower(bo, w, outcome, at) = bo
  BY DEF BorrowerCovered, release_borrower, BorrowerReleaseMatches, BackTo, Retried, Settled,
     BorrowerReleaseOutcome

LEMMA BorrowerReclaimed ==
  ASSUME NEW bo, BorrowerCovered(bo), NEW seen, seen.status = "RESERVED", NEW at
  PROVE  /\ BorrowerCovered(reclaim_borrower(bo, seen, at))
         /\ bo.status \in Settled => reclaim_borrower(bo, seen, at) = bo
  BY DEF BorrowerCovered, reclaim_borrower, ReclaimMatches, BackTo, Settled

--------------------------------------------------------------------------------------
(* Steps.  Each writes at most one agent and one borrower.                             *)

AgentsCovered == \A a \in Agents : AgentCovered(agents[a])

BorrowersKept ==
  \A b \in Borrowers : /\ BorrowerCovered(borrowers'[b])
                       /\ borrowers[b].status \in Settled => borrowers'[b] = borrowers[b]

LEMMA Covered == LeaseCoversBusy <=> /\ AgentsCovered
                                     /\ \A b \in Borrowers : BorrowerCovered(borrowers[b])
  BY DEF LeaseCoversBusy, AgentsCovered, AgentCovered, BorrowerCovered, Busy

LEMMA AgentWritten ==
  ASSUME LeaseInv, NEW x, NEW doc, x \in Agents => AgentCovered(doc),
         agents' = [agents EXCEPT ![x] = doc]
  PROVE  AgentsCovered'
  BY Covered DEF LeaseInv, TypeOK, AgentsCovered

LEMMA BorrowerWritten ==
  ASSUME LeaseInv, NEW x, NEW doc,
         x \in Borrowers => /\ BorrowerCovered(doc)
                            /\ borrowers[x].status \in Settled => doc = borrowers[x],
         borrowers' = [borrowers EXCEPT ![x] = doc]
  PROVE  BorrowersKept
  BY Covered DEF LeaseInv, TypeOK, BorrowersKept

LEMMA NothingWritten ==
  ASSUME LeaseInv
  PROVE  (agents' = agents => AgentsCovered') /\ (borrowers' = borrowers => BorrowersKept)
  BY Covered DEF LeaseInv, AgentsCovered, BorrowersKept

LEMMA TypedDocuments ==
  ASSUME LeaseInv
  PROVE  /\ \A a \in Agents : agents[a] \in AgentDocs /\ AgentCovered(agents[a])
         /\ \A b \in Borrowers : borrowers[b] \in BorrowerDocs /\ BorrowerCovered(borrowers[b])
         /\ \A d \in Dials : /\ WorkerOf[d] # NULL /\ now + RESERVATION_TTL # NULL
                             /\ rel[d].target \notin Busy
                             /\ rel[d].outcome \in BorrowerReleaseOutcome
  BY Covered, ConstantFacts DEF LeaseInv, TypeOK, AgentsCovered, ReleasesFree, Releases

LEMMA ClaimWrites ==
  ASSUME LeaseInv, NEW d \in Dials, Claim(d)
  PROVE  AgentsCovered' /\ BorrowersKept /\ ReleasesFree'
  <1> USE TypedDocuments
  <1>1. ReleasesFree'
    <2>1. rel' = rel \/ rel' = [rel EXCEPT ![d] = NoRelease]
      BY DEF Claim, FindAgents, NoAgentLeft, FindBorrowers, BorrowerClaimFails, UndoAgent,
         TryReserveAgent, TryReserveBorrower, AgentContended, BorrowerContended,
         BorrowerReplyLost, Finish
    <2> QED BY <2>1 DEF LeaseInv, TypeOK, ReleasesFree, NoRelease, Busy
  <1>2. CASE UndoAgent(d)
    <2> DEFINE doc == release_agent(agents[pair[d].agent], WorkerOf[d], "AVAILABLE", "ALLOCATOR")
    <2>1. agents' = [agents EXCEPT ![pair[d].agent] = doc] /\ borrowers' = borrowers
      BY <1>2 DEF UndoAgent
    <2>2. pair[d].agent \in Agents => AgentCovered(doc)
      BY ReleasedIsCovered DEF Busy
    <2> HIDE DEF doc
    <2> QED BY <1>1, <2>1, <2>2, AgentWritten, NothingWritten
  <1>3. CASE \E a \in Agents : TryReserveAgent(d, a)
    <2> PICK a \in Agents : TryReserveAgent(d, a)
      BY <1>3
    <2> DEFINE doc == Reserve(agents[a], WorkerOf[d], now + RESERVATION_TTL)
    <2>1. agents' = [agents EXCEPT ![a] = doc] /\ borrowers' = borrowers
      BY DEF TryReserveAgent
    <2>2. AgentCovered(doc)
      BY ReservedIsCovered
    <2> HIDE DEF doc
    <2> QED BY <1>1, <2>1, <2>2, AgentWritten, NothingWritten
  <1>4. CASE \E b \in Borrowers : TryReserveBorrower(d, b) \/ BorrowerReplyLost(d, b)
    <2> PICK b \in Borrowers : TryReserveBorrower(d, b) \/ BorrowerReplyLost(d, b)
      BY <1>4
    <2> DEFINE doc == ReserveBorrower(borrowers[b], WorkerOf[d], now + RESERVATION_TTL)
    <2>1. borrowers' = [borrowers EXCEPT ![b] = doc] /\ agents' = agents
          /\ BorrowerClaimable(borrowers[b], now)
      BY DEF TryReserveBorrower, BorrowerReplyLost
    <2>2. BorrowerCovered(doc) /\ borrowers[b].status \notin Settled
      BY <2>1, BorrowerReserved
    <2> HIDE DEF doc
    <2> QED BY <1>1, <2>1, <2>2, BorrowerWritten, NothingWritten
  <1>5. CASE \/ FindAgents(d) \/ NoAgentLeft(d) \/ FindBorrowers(d) \/ BorrowerClaimFails(d)
             \/ \E a \in Agents : AgentContended(d, a)
             \/ \E b \in Borrowers : BorrowerContended(d, b)
    <2>1. agents' = agents /\ borrowers' = borrowers
      BY <1>5 DEF FindAgents, NoAgentLeft, FindBorrowers, BorrowerClaimFails, AgentContended,
         BorrowerContended
    <2> QED BY <1>1, <2>1, NothingWritten
  <1> QED BY <1>2, <1>3, <1>4, <1>5 DEF Claim

LEMMA DialWrites ==
  ASSUME LeaseInv, NEW d \in Dials, Dial(d)
  PROVE  AgentsCovered' /\ BorrowersKept /\ ReleasesFree'
  <1> USE TypedDocuments
  <1> DEFINE x == pair[d].agent
  <1>1. ReleasesFree'
    <2>1. \A e \in Dials : rel'[e].target \in {rel[e].target, "AVAILABLE", "WRAP_UP"}
      BY DEF LeaseInv, TypeOK, Dial, MarkDialing, BindCall, Originated, AgentConnects,
         NotDialled, OriginateFails, DialCancelled, CallCompleted, CallFailed,
         OrphanReconciled, StartRelease, ReleaseAgentStep, ReleaseBorrowerStep, Crash, Recycle,
         Finish, Abandon, NoRelease
    <2> QED BY <2>1 DEF LeaseInv, ReleasesFree, Busy
  <1>2. CASE MarkDialing(d)
    <2> DEFINE doc == transition_agent(agents[x], "RESERVED", "DIALING", "ALLOCATOR",
                                       pair[d].version)
    <2>1. agents' = [agents EXCEPT ![x] = doc] /\ borrowers' = borrowers
      BY <1>2 DEF MarkDialing
    <2>2. x \in Agents => AgentCovered(doc)
      BY MovedIsCovered DEF Busy
    <2> HIDE DEF doc
    <2> QED BY <1>1, <2>1, <2>2, AgentWritten, NothingWritten
  <1>3. CASE BindCall(d)
    <2> DEFINE doc == bind_call(agents[x], WorkerOf[d], d)
    <2>1. agents' = [agents EXCEPT ![x] = doc] /\ borrowers' = borrowers
      BY <1>3 DEF BindCall
    <2>2. x \in Agents => AgentCovered(doc)
      BY BoundIsCovered
    <2> HIDE DEF doc
    <2> QED BY <1>1, <2>1, <2>2, AgentWritten, NothingWritten
  <1>4. CASE AgentConnects(d)
    <2> DEFINE doc == transition_agent(agents[x], "DIALING", "CONNECTED", "EVENT_PROCESSOR",
                                       agents[x].state_version)
    <2>1. agents' = [agents EXCEPT ![x] = doc] /\ borrowers' = borrowers
      BY <1>4 DEF AgentConnects
    <2>2. x \in Agents => AgentCovered(doc)
      BY MovedIsCovered DEF Busy
    <2> HIDE DEF doc
    <2> QED BY <1>1, <2>1, <2>2, AgentWritten, NothingWritten
  <1>5. CASE ReleaseAgentStep(d)
    <2> DEFINE doc == release_agent(agents[x], WorkerOf[d], rel[d].target, rel[d].actor)
    <2>1. agents' = [agents EXCEPT ![x] = doc] /\ borrowers' = borrowers
      BY <1>5 DEF ReleaseAgentStep
    <2>2. x \in Agents => AgentCovered(doc)
      BY ReleasedIsCovered
    <2> HIDE DEF doc
    <2> QED BY <1>1, <2>1, <2>2, AgentWritten, NothingWritten
  <1>6. CASE ReleaseBorrowerStep(d)
    <2> DEFINE b == pair[d].borrower
               doc == release_borrower(borrowers[b], WorkerOf[d], rel[d].outcome, now)
    <2>1. borrowers' = [borrowers EXCEPT ![b] = doc] /\ agents' = agents
      BY <1>6 DEF ReleaseBorrowerStep
    <2>2. b \in Borrowers => /\ BorrowerCovered(doc)
                             /\ borrowers[b].status \in Settled => doc = borrowers[b]
      BY BorrowerReleased
    <2> HIDE DEF doc
    <2> QED BY <1>1, <2>1, <2>2, BorrowerWritten, NothingWritten
  <1>7. CASE \/ Originated(d) \/ NotDialled(d) \/ OriginateFails(d) \/ DialCancelled(d)
             \/ CallCompleted(d) \/ CallFailed(d) \/ OrphanReconciled(d) \/ Crash(d)
             \/ Recycle(d)
    <2>1. agents' = agents /\ borrowers' = borrowers
      BY <1>7 DEF Originated, NotDialled, OriginateFails, DialCancelled, CallCompleted,
         CallFailed, OrphanReconciled, StartRelease, Crash, Recycle
    <2> QED BY <1>1, <2>1, NothingWritten
  <1> QED BY <1>2, <1>3, <1>4, <1>5, <1>6, <1>7 DEF Dial

LEMMA AgentStepWrites ==
  ASSUME LeaseInv, AgentStep
  PROVE  AgentsCovered' /\ BorrowersKept /\ ReleasesFree'
  <1> USE TypedDocuments
  <1>1. borrowers' = borrowers /\ rel' = rel
    BY DEF AgentStep, AgentActs, WrapUpEnds
  <1>2. PICK a \in Agents : WrapUpEnds(a) \/ \E target \in AGENT_ACTIONS : AgentActs(a, target)
    BY DEF AgentStep
  <1>3. \E from, to, actor : to \notin Busy /\ agents' = [agents EXCEPT ![a] =
          transition_agent(agents[a], from, to, actor, agents[a].state_version)]
    BY <1>2 DEF AgentActs, WrapUpEnds, AGENT_ACTIONS, Busy
  <1>4. PICK from, to, actor : to \notin Busy /\ agents' = [agents EXCEPT ![a] =
          transition_agent(agents[a], from, to, actor, agents[a].state_version)]
    BY <1>3
  <1> DEFINE doc == transition_agent(agents[a], from, to, actor, agents[a].state_version)
  <1>5. AgentCovered(doc)
    BY <1>4, MovedIsCovered
  <1>6. agents' = [agents EXCEPT ![a] = doc]
    BY <1>4
  <1>7. ReleasesFree'
    BY <1>1 DEF LeaseInv, ReleasesFree
  <1> HIDE DEF doc
  <1> QED BY <1>1, <1>5, <1>6, <1>7, AgentWritten, NothingWritten

LEMMA RecoveryWrites ==
  ASSUME LeaseInv, Recovery
  PROVE  AgentsCovered' /\ BorrowersKept /\ ReleasesFree'
  <1> USE TypedDocuments
  <1>0. rec \in RecoveryState /\ rel \in [Dials -> Releases]
    BY DEF LeaseInv, TypeOK
  <1>1. ReleasesFree'
    <2>1. CASE \E s \in rec.agents : HandleCandidate(s)
      <3> PICK s \in rec.agents : HandleCandidate(s)
        BY <2>1
      <3>1. \A e \in Dials : rel'[e].target \in {rel[e].target, "AVAILABLE"}
        BY <1>0 DEF HandleCandidate, Finish, NoRelease, Releases
      <3> QED BY <3>1 DEF LeaseInv, ReleasesFree, Busy
    <2>2. CASE rel' = rel
      BY <2>2 DEF LeaseInv, ReleasesFree
    <2> QED BY <2>1, <2>2 DEF Recovery, SweepLeases, ReleaseCancelled, ReleaseCandidate,
              SweepBorrowers, SweepHeartbeats, EndSweeps, RecoveryStops, ReclaimBorrower
  <1>2. CASE ReleaseCandidate
    <2> DEFINE a == rec.cur.id
               doc == IF rec.to = "AVAILABLE"
                      THEN release_expired_agent_lease(agents[a], rec.cur, rec.now)
                      ELSE transition_agent(agents[a], rec.cur.state, "OFFLINE", "RECOVERY",
                                            rec.cur.state_version)
    <2>1. agents' = [agents EXCEPT ![a] = doc] /\ borrowers' = borrowers
      BY <1>2 DEF ReleaseCandidate
    <2>2. a \in Agents => AgentCovered(doc)
      BY ExpiredIsCovered, MovedIsCovered DEF Busy
    <2> HIDE DEF doc
    <2> QED BY <1>1, <2>1, <2>2, AgentWritten, NothingWritten
  <1>3. CASE ReleaseCancelled
    <2> DEFINE b == rec.borrower
               doc == release_borrower(borrowers[b], WorkerOf[rec.call], "RETRY", now)
    <2>1. borrowers' = [borrowers EXCEPT ![b] = doc] /\ agents' = agents
      BY <1>3 DEF ReleaseCancelled
    <2>0. "RETRY" \in BorrowerReleaseOutcome
      BY DEF BorrowerReleaseOutcome
    <2>2. b \in Borrowers => /\ BorrowerCovered(doc)
                             /\ borrowers[b].status \in Settled => doc = borrowers[b]
      BY <2>0, BorrowerReleased
    <2> HIDE DEF doc
    <2> QED BY <1>1, <2>1, <2>2, BorrowerWritten, NothingWritten
  <1>4. CASE \E s \in rec.borrowers : ReclaimBorrower(s)
    <2> PICK s \in rec.borrowers : ReclaimBorrower(s)
      BY <1>4
    <2> DEFINE doc == reclaim_borrower(borrowers[s.id], s, rec.now)
    <2>1. borrowers' = [borrowers EXCEPT ![s.id] = doc] /\ agents' = agents
      BY DEF ReclaimBorrower
    <2>2. s.status = "RESERVED"
      BY <1>0 DEF RecoveryState, BorrowerSnapshots
    <2>3. s.id \in Borrowers => /\ BorrowerCovered(doc)
                                /\ borrowers[s.id].status \in Settled => doc = borrowers[s.id]
      BY <2>2, BorrowerReclaimed
    <2> HIDE DEF doc
    <2> QED BY <1>1, <2>1, <2>3, BorrowerWritten, NothingWritten
  <1>5. CASE \/ SweepLeases \/ SweepBorrowers \/ SweepHeartbeats \/ EndSweeps \/ RecoveryStops
             \/ \E s \in rec.agents : HandleCandidate(s)
    <2>1. agents' = agents /\ borrowers' = borrowers
      BY <1>5 DEF SweepLeases, SweepBorrowers, SweepHeartbeats, EndSweeps, RecoveryStops,
         HandleCandidate
    <2> QED BY <1>1, <2>1, NothingWritten
  <1> QED BY <1>2, <1>3, <1>4, <1>5 DEF Recovery

LEMMA LeaseStep ==
  ASSUME LeaseInv, [Next]_vars
  PROVE  LeaseInv' /\ BorrowersKept
  <1>1. AgentsCovered' /\ BorrowersKept /\ ReleasesFree'
    <2>1. CASE Tick \/ UNCHANGED vars
      <3>1. agents' = agents /\ borrowers' = borrowers /\ rel' = rel
        BY <2>1 DEF Tick, vars
      <3> QED BY <3>1, NothingWritten DEF LeaseInv, ReleasesFree
    <2> QED BY <2>1, ClaimWrites, DialWrites, AgentStepWrites, RecoveryWrites DEF Next
  <1>2. LeaseCoversBusy'
    <2>1. \A b \in Borrowers : BorrowerCovered(borrowers[b])'
      BY <1>1 DEF BorrowersKept, BorrowerCovered
    <2> QED BY <1>1, <2>1 DEF LeaseCoversBusy, AgentsCovered, AgentCovered, BorrowerCovered, Busy
  <1> QED BY <1>1, <1>2, TypeStep DEF LeaseInv

LEMMA LeaseInit == Init => LeaseInv
  <1>1. Init => LeaseCoversBusy /\ ReleasesFree
    BY DEF Init, LeaseCoversBusy, ReleasesFree, NewAgent, NewBorrower, NoRelease, Busy
  <1> QED BY <1>1, InitType DEF LeaseInv

\* Whoever crashes, leaves or gives back late: an agent in RESERVED, DIALING or CONNECTED and
\* a RESERVED borrower always carry the lease find_expired_agent_leases and
\* reclaim_expired_borrower_leases look for, so nothing is out of recovery's sight.
THEOREM LeasesCoverWhatIsBusy == Spec => []LeaseCoversBusy
  <1>1. LeaseInv => LeaseCoversBusy
    BY DEF LeaseInv
  <1>2. LeaseInv /\ [Next]_vars => LeaseInv'
    BY LeaseStep
  <1> QED BY <1>1, <1>2, LeaseInit, PTL DEF Spec

\* No release, however late, no stale sweep candidate and no claim ever changes a borrower
\* that was contacted or is exhausted: every write of the repository is guarded by the status.
THEOREM SettledForGood == Spec => SettledStaysSettled
  <1> DEFINE Kept == \A b \in Borrowers : borrowers[b].status \in {"CONTACTED", "EXHAUSTED"} =>
                       borrowers'[b] = borrowers[b]
  <1>1. LeaseInv /\ [Next]_vars => LeaseInv'
    BY LeaseStep
  <1>2. LeaseInv /\ [Next]_vars => [Kept]_vars
    BY LeaseStep DEF BorrowersKept, Settled
  <1> QED BY <1>1, <1>2, LeaseInit, PTL DEF Spec, SettledStaysSettled

--------------------------------------------------------------------------------------
(* Who may end a running claim, however many dials share a worker id.                   *)

\* The part of SweepIsSound that does not depend on NoStaleTwin.
SweepInTime ==
  /\ rec.now <= now
  /\ rec.to = "OFFLINE" =>
       /\ \A s \in rec.agents : s.id \in Leavers
       /\ rec.pc \in {"cancel", "release"} => rec.cur.id \in Leavers

EndInv == TypeOK /\ AttemptsRemain /\ SweepInTime

AgentEnds(ag, doc) ==
  /\ ag.state \in LeasedStates
  /\ doc.state \notin LeasedStates \/ doc.reserved_by # ag.reserved_by

BorrowerEnds(bo, doc) ==
  /\ bo.status = "RESERVED"
  /\ doc.status # "RESERVED" \/ doc.reserved_by # bo.reserved_by

OwnerGivesAgentBack(a) ==
  \E d \in Dials : /\ WorkerOf[d] = agents[a].reserved_by /\ pair[d].agent = a
                  /\ pc[d] \in {"undo_agent", "release_agent"}

OwnerGivesBorrowerBack(b) ==
  \/ \E d \in Dials : /\ WorkerOf[d] = borrowers[b].reserved_by
                     /\ pair[d].borrower = b /\ pc[d] = "release_borrower"
  \/ /\ rec.pc = "cancel" /\ rec.borrower = b
     /\ WorkerOf[rec.call] = borrowers[b].reserved_by

OwnAgents ==
  \A a \in Agents \ Leavers :
    AgentEnds(agents[a], agents'[a]) /\ ~LeaseOver(agents[a].lease_expires_at, now) =>
      OwnerGivesAgentBack(a)

OwnBorrowers ==
  \A b \in Borrowers :
    BorrowerEnds(borrowers[b], borrowers'[b]) /\ ~LeaseOver(borrowers[b].lease_expires_at, now) =>
      OwnerGivesBorrowerBack(b)

LEMMA LeaseOverLater ==
  ASSUME NEW lease \in Nat \cup {NULL}, NEW at \in Nat, NEW later \in Nat, at <= later,
         LeaseOver(lease, at)
  PROVE  LeaseOver(lease, later)
  BY ConstantFacts DEF LeaseOver

LEMMA ReleaseEnds ==
  ASSUME NEW ag, NEW w, NEW target, NEW actor, AgentEnds(ag, release_agent(ag, w, target, actor))
  PROVE  w = ag.reserved_by
  BY DEF AgentEnds, release_agent, ReleaseMatches

LEMMA ExpiryEnds ==
  ASSUME NEW ag, NEW seen, NEW at, AgentEnds(ag, release_expired_agent_lease(ag, seen, at))
  PROVE  LeaseOver(ag.lease_expires_at, at)
  BY DEF AgentEnds, release_expired_agent_lease, ExpiredMatches

LEMMA TransitionKeeps ==
  ASSUME NEW ag \in AgentDocs, NEW from, NEW to, NEW actor, NEW v,
         to \in LeasedStates \/ ag.state \notin LeasedStates
  PROVE  ~AgentEnds(ag, transition_agent(ag, from, to, actor, v))
  BY DEF AgentEnds, transition_agent, AgentDocs, AgentDoc

LEMMA BindKeeps ==
  ASSUME NEW ag \in AgentDocs, NEW w, NEW d
  PROVE  ~AgentEnds(ag, bind_call(ag, w, d))
  BY DEF AgentEnds, bind_call, AgentDocs, AgentDoc

LEMMA BorrowerReleaseEnds ==
  ASSUME NEW bo, NEW w, NEW outcome, NEW at, BorrowerEnds(bo, release_borrower(bo, w, outcome, at))
  PROVE  w = bo.reserved_by
  BY DEF BorrowerEnds, release_borrower, BorrowerReleaseMatches

LEMMA BorrowerReclaimEnds ==
  ASSUME NEW bo, NEW seen, NEW at, BorrowerEnds(bo, reclaim_borrower(bo, seen, at))
  PROVE  LeaseOver(bo.lease_expires_at, at)
  BY DEF BorrowerEnds, reclaim_borrower, ReclaimMatches

\* Each step writes at most one agent and one borrower.
LEMMA OneAgentWritten ==
  ASSUME TypeOK, NEW x, NEW doc, agents' = [agents EXCEPT ![x] = doc],
         /\ x \in Agents \ Leavers
         /\ AgentEnds(agents[x], doc)
         /\ ~LeaseOver(agents[x].lease_expires_at, now)
         => OwnerGivesAgentBack(x)
  PROVE  OwnAgents
  BY DEF OwnAgents, AgentEnds, TypeOK

LEMMA OneBorrowerWritten ==
  ASSUME TypeOK, NEW x, NEW doc, borrowers' = [borrowers EXCEPT ![x] = doc],
         /\ x \in Borrowers
         /\ BorrowerEnds(borrowers[x], doc)
         /\ ~LeaseOver(borrowers[x].lease_expires_at, now)
         => OwnerGivesBorrowerBack(x)
  PROVE  OwnBorrowers
  BY DEF OwnBorrowers, BorrowerEnds, TypeOK

LEMMA NoneWritten ==
  (agents' = agents => OwnAgents) /\ (borrowers' = borrowers => OwnBorrowers)
  BY DEF OwnAgents, OwnBorrowers, AgentEnds, BorrowerEnds

LEMMA DocumentTypes ==
  ASSUME TypeOK
  PROVE  /\ \A a \in Agents : agents[a] \in AgentDocs
         /\ \A a \in Agents : agents[a].lease_expires_at \in Nat \cup {NULL}
         /\ \A b \in Borrowers : borrowers[b].lease_expires_at \in Nat \cup {NULL}
  BY DEF TypeOK, AgentDocs, AgentDoc, BorrowerDocs, BorrowerDoc

LEMMA ClaimEnds ==
  ASSUME EndInv, NEW d \in Dials, Claim(d)
  PROVE  OwnAgents /\ OwnBorrowers
  <1> USE DEF EndInv
  <1>1. CASE UndoAgent(d)
    <2> DEFINE x == pair[d].agent
               doc == release_agent(agents[x], WorkerOf[d], "AVAILABLE", "ALLOCATOR")
    <2>1. agents' = [agents EXCEPT ![x] = doc] /\ borrowers' = borrowers /\ pc[d] = "undo_agent"
      BY <1>1 DEF UndoAgent
    <2>2. AgentEnds(agents[x], doc) => OwnerGivesAgentBack(x)
      BY <2>1, ReleaseEnds DEF OwnerGivesAgentBack
    <2> HIDE DEF doc
    <2> QED BY <2>1, <2>2, OneAgentWritten, NoneWritten
  <1>2. CASE \E a \in Agents : TryReserveAgent(d, a)
    <2> PICK a \in Agents : TryReserveAgent(d, a)
      BY <1>2
    <2> DEFINE doc == Reserve(agents[a], WorkerOf[d], now + RESERVATION_TTL)
    <2>1. agents' = [agents EXCEPT ![a] = doc] /\ borrowers' = borrowers
      BY DEF TryReserveAgent
    <2>2. ~AgentEnds(agents[a], doc)
      BY DEF TryReserveAgent, Claimable, AgentEnds, LeasedStates
    <2> HIDE DEF doc
    <2> QED BY <2>1, <2>2, OneAgentWritten, NoneWritten
  <1>3. CASE \E b \in Borrowers : TryReserveBorrower(d, b) \/ BorrowerReplyLost(d, b)
    <2> PICK b \in Borrowers : TryReserveBorrower(d, b) \/ BorrowerReplyLost(d, b)
      BY <1>3
    <2> DEFINE doc == ReserveBorrower(borrowers[b], WorkerOf[d], now + RESERVATION_TTL)
    <2>1. borrowers' = [borrowers EXCEPT ![b] = doc] /\ agents' = agents
      BY DEF TryReserveBorrower, BorrowerReplyLost
    <2>2. ~BorrowerEnds(borrowers[b], doc)
      BY DEF TryReserveBorrower, BorrowerReplyLost, BorrowerClaimable, BorrowerEnds
    <2> HIDE DEF doc
    <2> QED BY <2>1, <2>2, OneBorrowerWritten, NoneWritten
  <1>4. CASE agents' = agents /\ borrowers' = borrowers
    BY <1>4, NoneWritten
  <1> QED BY <1>1, <1>2, <1>3, <1>4 DEF Claim, FindAgents, NoAgentLeft, FindBorrowers,
             BorrowerClaimFails, AgentContended, BorrowerContended

LEMMA DialEnds ==
  ASSUME EndInv, NEW d \in Dials, Dial(d)
  PROVE  OwnAgents /\ OwnBorrowers
  <1> USE DocumentTypes DEF EndInv
  <1> DEFINE x == pair[d].agent
  <1>1. CASE MarkDialing(d)
    <2> DEFINE doc == transition_agent(agents[x], "RESERVED", "DIALING", "ALLOCATOR",
                                       pair[d].version)
    <2>1. agents' = [agents EXCEPT ![x] = doc] /\ borrowers' = borrowers
      BY <1>1 DEF MarkDialing
    <2>2. x \in Agents => ~AgentEnds(agents[x], doc)
      BY TransitionKeeps DEF LeasedStates
    <2> HIDE DEF doc
    <2> QED BY <2>1, <2>2, OneAgentWritten, NoneWritten
  <1>2. CASE BindCall(d)
    <2> DEFINE doc == bind_call(agents[x], WorkerOf[d], d)
    <2>1. agents' = [agents EXCEPT ![x] = doc] /\ borrowers' = borrowers
      BY <1>2 DEF BindCall
    <2>2. x \in Agents => ~AgentEnds(agents[x], doc)
      BY BindKeeps
    <2> HIDE DEF doc
    <2> QED BY <2>1, <2>2, OneAgentWritten, NoneWritten
  <1>3. CASE AgentConnects(d)
    <2> DEFINE doc == transition_agent(agents[x], "DIALING", "CONNECTED", "EVENT_PROCESSOR",
                                       agents[x].state_version)
    <2>1. agents' = [agents EXCEPT ![x] = doc] /\ borrowers' = borrowers
      BY <1>3 DEF AgentConnects
    <2>2. x \in Agents => ~AgentEnds(agents[x], doc)
      BY TransitionKeeps DEF LeasedStates
    <2> HIDE DEF doc
    <2> QED BY <2>1, <2>2, OneAgentWritten, NoneWritten
  <1>4. CASE ReleaseAgentStep(d)
    <2> DEFINE doc == release_agent(agents[x], WorkerOf[d], rel[d].target, rel[d].actor)
    <2>1. agents' = [agents EXCEPT ![x] = doc] /\ borrowers' = borrowers
          /\ pc[d] = "release_agent"
      BY <1>4 DEF ReleaseAgentStep
    <2>2. AgentEnds(agents[x], doc) => OwnerGivesAgentBack(x)
      BY <2>1, ReleaseEnds DEF OwnerGivesAgentBack
    <2> HIDE DEF doc
    <2> QED BY <2>1, <2>2, OneAgentWritten, NoneWritten
  <1>5. CASE ReleaseBorrowerStep(d)
    <2> DEFINE b == pair[d].borrower
               doc == release_borrower(borrowers[b], WorkerOf[d], rel[d].outcome, now)
    <2>1. borrowers' = [borrowers EXCEPT ![b] = doc] /\ agents' = agents
          /\ pc[d] = "release_borrower"
      BY <1>5 DEF ReleaseBorrowerStep
    <2>2. BorrowerEnds(borrowers[b], doc) => OwnerGivesBorrowerBack(b)
      BY <2>1, BorrowerReleaseEnds DEF OwnerGivesBorrowerBack
    <2> HIDE DEF doc
    <2> QED BY <2>1, <2>2, OneBorrowerWritten, NoneWritten
  <1>6. CASE agents' = agents /\ borrowers' = borrowers
    BY <1>6, NoneWritten
  <1> QED BY <1>1, <1>2, <1>3, <1>4, <1>5, <1>6 DEF Dial, Originated, NotDialled,
             OriginateFails, DialCancelled, CallCompleted, CallFailed, OrphanReconciled,
             StartRelease, Crash, Recycle

LEMMA AgentStepEnds ==
  ASSUME EndInv, AgentStep
  PROVE  OwnAgents /\ OwnBorrowers
  <1> USE DocumentTypes DEF EndInv
  <1>1. borrowers' = borrowers
    BY DEF AgentStep, AgentActs, WrapUpEnds
  <1>2. PICK a \in Agents : WrapUpEnds(a) \/ \E target \in AGENT_ACTIONS : AgentActs(a, target)
    BY DEF AgentStep
  <1>3. PICK from, to, actor :
          /\ a \in Leavers \/ agents[a].state \notin LeasedStates
          /\ agents' = [agents EXCEPT ![a] =
               transition_agent(agents[a], from, to, actor, agents[a].state_version)]
    BY <1>2 DEF AgentActs, WrapUpEnds, LeasedStates
  <1> DEFINE doc == transition_agent(agents[a], from, to, actor, agents[a].state_version)
  <1>4. a \notin Leavers => ~AgentEnds(agents[a], doc)
    BY <1>3, TransitionKeeps
  <1>5. agents' = [agents EXCEPT ![a] = doc]
    BY <1>3
  <1> HIDE DEF doc
  <1> QED BY <1>1, <1>4, <1>5, OneAgentWritten, NoneWritten

LEMMA RecoveryEnds ==
  ASSUME EndInv, Recovery
  PROVE  OwnAgents /\ OwnBorrowers
  <1> USE DocumentTypes DEF EndInv
  <1>0. rec \in RecoveryState /\ rec.now \in Nat /\ now \in Nat /\ rec.now <= now
    BY DEF TypeOK, RecoveryState, SweepInTime
  <1>1. CASE ReleaseCandidate
    <2> DEFINE a == rec.cur.id
               doc == IF rec.to = "AVAILABLE"
                      THEN release_expired_agent_lease(agents[a], rec.cur, rec.now)
                      ELSE transition_agent(agents[a], rec.cur.state, "OFFLINE", "RECOVERY",
                                            rec.cur.state_version)
    <2>1. agents' = [agents EXCEPT ![a] = doc] /\ borrowers' = borrowers
      BY <1>1 DEF ReleaseCandidate
    <2>2. a \in Agents \ Leavers /\ AgentEnds(agents[a], doc) =>
            LeaseOver(agents[a].lease_expires_at, now)
      <3>1. rec.to = "OFFLINE" => a \in Leavers
        BY <1>1 DEF ReleaseCandidate, SweepInTime
      <3>2. rec.to \in {"AVAILABLE", "OFFLINE"}
        BY <1>0 DEF RecoveryState
      <3>3. AgentEnds(agents[a], release_expired_agent_lease(agents[a], rec.cur, rec.now)) =>
              LeaseOver(agents[a].lease_expires_at, rec.now)
        BY ExpiryEnds
      <3> QED BY <1>0, <3>1, <3>2, <3>3, LeaseOverLater
    <2> HIDE DEF doc
    <2> QED BY <2>1, <2>2, OneAgentWritten, NoneWritten
  <1>2. CASE ReleaseCancelled
    <2> DEFINE b == rec.borrower
               doc == release_borrower(borrowers[b], WorkerOf[rec.call], "RETRY", now)
    <2>1. borrowers' = [borrowers EXCEPT ![b] = doc] /\ agents' = agents /\ rec.pc = "cancel"
      BY <1>2 DEF ReleaseCancelled
    <2>2. BorrowerEnds(borrowers[b], doc) => OwnerGivesBorrowerBack(b)
      BY <2>1, BorrowerReleaseEnds DEF OwnerGivesBorrowerBack
    <2> HIDE DEF doc
    <2> QED BY <2>1, <2>2, OneBorrowerWritten, NoneWritten
  <1>3. CASE \E s \in rec.borrowers : ReclaimBorrower(s)
    <2> PICK s \in rec.borrowers : ReclaimBorrower(s)
      BY <1>3
    <2> DEFINE doc == reclaim_borrower(borrowers[s.id], s, rec.now)
    <2>1. borrowers' = [borrowers EXCEPT ![s.id] = doc] /\ agents' = agents
      BY DEF ReclaimBorrower
    <2>2. s.id \in Borrowers /\ BorrowerEnds(borrowers[s.id], doc) =>
            LeaseOver(borrowers[s.id].lease_expires_at, now)
      BY <1>0, BorrowerReclaimEnds, LeaseOverLater
    <2> HIDE DEF doc
    <2> QED BY <2>1, <2>2, OneBorrowerWritten, NoneWritten
  <1>4. CASE agents' = agents /\ borrowers' = borrowers
    BY <1>4, NoneWritten
  <1> QED BY <1>1, <1>2, <1>3, <1>4 DEF Recovery, SweepLeases, SweepBorrowers, SweepHeartbeats,
             EndSweeps, RecoveryStops, HandleCandidate

LEMMA SweepInTimeStep ==
  ASSUME EndInv, [Next]_vars
  PROVE  SweepInTime'
  <1>0. /\ rec \in RecoveryState /\ now \in Nat /\ now' \in Nat /\ now <= now'
        /\ rec.now \in Nat /\ SweepInTime
    BY ClockStep DEF EndInv, TypeOK, RecoveryState
  <1>1. CASE rec' = rec
    BY <1>0, <1>1 DEF SweepInTime
  <1>2. CASE Recovery
    <2>1. now' = now
      BY <1>2 DEF Recovery, SweepLeases, ReleaseCancelled, ReleaseCandidate, SweepBorrowers,
         SweepHeartbeats, EndSweeps, RecoveryStops, HandleCandidate, ReclaimBorrower
    <2>2. CASE \E s \in rec.agents : HandleCandidate(s)
      <3> PICK s \in rec.agents : HandleCandidate(s)
        BY <2>2
      <3>1. /\ rec'.now = rec.now /\ rec'.to = rec.to /\ rec'.agents = rec.agents \ {s}
            /\ rec'.cur = s
        BY <1>0 DEF HandleCandidate, RecoveryState
      <3> QED BY <1>0, <2>1, <3>1 DEF SweepInTime
    <2>3. CASE SweepLeases \/ EndSweeps \/ RecoveryStops
      <3>1. rec'.now \in {now, 0} /\ rec'.to = "AVAILABLE"
        <4>1. CASE SweepLeases
          BY <1>0, <4>1 DEF SweepLeases, RecoveryState
        <4>2. CASE rec' = NoSweep
          BY <4>2 DEF NoSweep
        <4> QED BY <2>3, <4>1, <4>2 DEF EndSweeps, RecoveryStops
      <3> QED BY <1>0, <2>1, <3>1 DEF SweepInTime
    <2>4. CASE SweepHeartbeats
      <3>1. PICK silent \in SUBSET { a \in Leavers : agents[a].state # "OFFLINE" } :
              rec' = [rec EXCEPT !.pc = "agents", !.to = "OFFLINE",
                        !.agents = { SnapshotOf(a) : a \in silent }]
        BY <2>4 DEF SweepHeartbeats
      <3>2. /\ rec'.now = rec.now /\ rec'.pc = "agents"
            /\ rec'.agents = { SnapshotOf(a) : a \in silent }
        BY <1>0, <3>1 DEF RecoveryState
      <3> QED BY <1>0, <2>1, <3>1, <3>2 DEF SweepInTime, SnapshotOf
    <2>5. CASE \/ ReleaseCancelled \/ ReleaseCandidate \/ SweepBorrowers
               \/ \E s \in rec.borrowers : ReclaimBorrower(s)
      <3>1. /\ rec'.now = rec.now /\ rec'.to = rec.to /\ rec'.agents = rec.agents
            /\ rec'.pc \in {"cancel", "release"} =>
                 rec.pc \in {"cancel", "release"} /\ rec'.cur = rec.cur
        BY <1>0, <2>5 DEF ReleaseCancelled, ReleaseCandidate, SweepBorrowers, ReclaimBorrower,
           RecoveryState
      <3> QED BY <1>0, <2>1, <3>1 DEF SweepInTime
    <2> QED BY <1>2, <2>2, <2>3, <2>4, <2>5 DEF Recovery
  <1>3. \A d \in Dials : Claim(d) => rec' = rec
    BY DEF Claim, FindAgents, NoAgentLeft, FindBorrowers, BorrowerClaimFails, UndoAgent,
       TryReserveAgent, TryReserveBorrower, AgentContended, BorrowerContended,
       BorrowerReplyLost
  <1>4. \A d \in Dials : Dial(d) => rec' = rec
    BY DEF Dial, MarkDialing, BindCall, Originated, AgentConnects, NotDialled, OriginateFails,
       DialCancelled, CallCompleted, CallFailed, OrphanReconciled, StartRelease,
       ReleaseAgentStep, ReleaseBorrowerStep, Crash, Recycle
  <1>5. AgentStep \/ Tick \/ UNCHANGED vars => rec' = rec
    BY DEF AgentStep, AgentActs, WrapUpEnds, Tick, vars
  <1> QED BY <1>1, <1>2, <1>3, <1>4, <1>5 DEF Next

LEMMA EndStep ==
  ASSUME EndInv, [Next]_vars
  PROVE  EndInv' /\ OwnAgents /\ OwnBorrowers
  <1>1. OwnAgents /\ OwnBorrowers
    <2>1. Tick \/ UNCHANGED vars => agents' = agents /\ borrowers' = borrowers
      BY DEF Tick, vars
    <2> QED BY <2>1, NoneWritten, ClaimEnds, DialEnds, AgentStepEnds, RecoveryEnds DEF Next
  <1> QED BY <1>1, TypeStep, SweepInTimeStep DEF EndInv

\* With any number of dials behind one worker id, a lease that runs is ended only by a dial
\* of that worker that had been paired with the agent or borrower and gives its pair back, or
\* by the sweep that has just ended such a dial's call: release_agent, release_borrower and
\* the sweeps' writes let nobody else through.  What NoStaleTwin excludes above is therefore
\* the only way in which a running claim is lost.
THEOREM ClaimsEndInTheirOwnName == Spec => OnlyItsWorkerEndsAClaim
  <1> DEFINE Own ==
        /\ \A a \in Agents \ Leavers :
             /\ agents[a].state \in LeasedStates /\ ~LeaseOver(agents[a].lease_expires_at, now)
             /\ \/ agents'[a].state \notin LeasedStates
                \/ agents'[a].reserved_by # agents[a].reserved_by
             => \E d \in Dials : /\ WorkerOf[d] = agents[a].reserved_by /\ pair[d].agent = a
                                 /\ pc[d] \in {"undo_agent", "release_agent"}
        /\ \A b \in Borrowers :
             /\ borrowers[b].status = "RESERVED" /\ ~LeaseOver(borrowers[b].lease_expires_at, now)
             /\ \/ borrowers'[b].status # "RESERVED"
                \/ borrowers'[b].reserved_by # borrowers[b].reserved_by
             => \/ \E d \in Dials : /\ WorkerOf[d] = borrowers[b].reserved_by
                                    /\ pair[d].borrower = b /\ pc[d] = "release_borrower"
                \/ /\ rec.pc = "cancel" /\ rec.borrower = b
                   /\ WorkerOf[rec.call] = borrowers[b].reserved_by
  <1>1. OwnAgents /\ OwnBorrowers => Own
    BY DEF OwnAgents, OwnBorrowers, AgentEnds, BorrowerEnds, OwnerGivesAgentBack,
       OwnerGivesBorrowerBack
  <1>2. Init => EndInv
    BY InitType DEF Init, EndInv, SweepInTime, NoSweep
  <1>3. EndInv /\ [Next]_vars => EndInv' /\ [Own]_vars
    BY <1>1, EndStep
  <1> QED BY <1>2, <1>3, PTL DEF Spec, OnlyItsWorkerEndsAClaim
========================================================================================
