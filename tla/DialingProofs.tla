--------------------------------- MODULE DialingProofs ---------------------------------
(* Proofs about Dialing, for every number of agents, borrowers, worker processes, attempts *)
(* and faults: types, one originate per call document, the lifecycle of the calls, and     *)
(* who is at work on a reserved borrower.                                                  *)
EXTENDS Dialing, FiniteSetTheorems, SequenceTheorems, WellFoundedInduction, TLAPS

AgentDocs == AgentDoc(Workers, Keys)
BorrowerDocs == BorrowerDoc(Workers)
CallDocs == CallDoc(Workers)

\* How far a worker is: it holds an agent, a borrower too, a call document, has marked it
\* INITIATED.
Sending == {"initiated", "binding", "originating", "accepted"}
Prepared == Sending \cup {"created", "reserved"}
Paired == Prepared \cup {"paired", "release_agent", "release_borrower"}
Begun == Paired \cup {"has_agent", "undo_agent"}

\* A call has been INITIATED: from here on every move to a higher rank is in CALL_TRANSITIONS.
Dialled(call) == call # NULL /\ call.state \notin {"QUEUED", "RESERVED"}

--------------------------------------------------------------------------------------
(* The inductive invariant, part by part.                                              *)

\* What a worker needs for its next step it has: a pair, and an attempt left for its call.
HandsFull ==
  \A w \in Workers :
    /\ worker[w].pc \in Begun => worker[w].agent \in Agents
    /\ worker[w].pc \in Paired =>
         worker[w].borrower \in Borrowers /\ worker[w].attempt < MAX_CALL_ATTEMPTS
    /\ worker[w].pc \notin Paired => worker[w].borrower = NULL

Dialable(bo) ==
  /\ bo.status \in {"PENDING", "RESERVED"} => bo.attempt_count < MAX_CALL_ATTEMPTS
  /\ bo.status = "RESERVED" => bo.reserved_by \in Workers

AttemptsLeft == \A b \in Borrowers : Dialable(borrowers[b])

\* The recovery worker has what its next write is about.
SweepFull ==
  /\ rec.pc \in {"cancel", "give", "take"} => rec.agent \in Agents
  /\ rec.pc \in {"give", "settle", "orphan_agent", "orphan"} => rec.call \in Keys
  /\ rec.pc = "settle" => rec.target \in TERMINAL_CALL_STATES

HandlersFull ==
  \A k \in Keys :
    /\ handler[k].pc # "idle" => handler[k].event \in EventTypes /\ provider[k] # NULL
    /\ handler[k].pc \in {"agent", "borrower"} => is_terminal(handler[k].event)

\* Whoever names a call names one that exists, and the provider knows of no call before it
\* was INITIATED.
NamedCallsExist ==
  /\ \A w \in Workers : worker[w].pc \in Prepared => calls[KeyOf(w)] # NULL
  /\ \A a \in Agents : agents[a].current_call_id # NULL =>
                         calls[agents[a].current_call_id] # NULL
  /\ rec.call # NULL => calls[rec.call] # NULL

ProviderIsLast ==
  /\ \A k \in Keys : provider[k] # NULL => Dialled(calls[k])
  /\ \A k \in Keys : calls[k] # NULL /\ calls[k].attached => provider[k] # NULL
  /\ \A w \in Workers : worker[w].pc \in Sending => Dialled(calls[KeyOf(w)])
  /\ \A w \in Workers : worker[w].pc = "accepted" => provider[KeyOf(w)] # NULL
  /\ rec.pc = "settle" /\ rec.target = "COMPLETED" => provider[rec.call] # NULL

DialInv ==
  /\ TypeOK /\ HandsFull /\ AttemptsLeft /\ SweepFull /\ HandlersFull
  /\ NamedCallsExist /\ ProviderIsLast /\ OneOriginatePerCall

--------------------------------------------------------------------------------------
(* The versions: a changed document gets a number.                                     *)

\* Min of FiniteSetsExt is what its name says, for every set of numbers.
LEMMA LeastNumber ==
  ASSUME NEW S, S \subseteq Nat, S # {}
  PROVE  Min(S) \in S
<1>1. PICK m \in S : \A n \in S : ~(<<n, m>> \in OpToRel(<, Nat))
  BY NatLessThanWellFounded, WFMin, Zenon
<1>2. \A n \in S : ~(n < m)
  BY <1>1, Zenon DEF OpToRel
<1>3. \A n \in S : m <= n
  BY <1>2
<1> QED
  BY <1>3 DEF Min

LEMMA FreshNumber ==
  ASSUME NEW R, IsFiniteSet(R)
  PROVE  Min(0 .. Cardinality(R) \ R) \in Nat
<1>1. Cardinality(R) \in Nat
  BY FS_CardinalityType
<1>2. Cardinality(0 .. Cardinality(R)) = Cardinality(R) + 1
  BY <1>1, FS_Interval
<1>3. ~(0 .. Cardinality(R) \subseteq R)
  <2>1. SUFFICES ASSUME 0 .. Cardinality(R) \subseteq R PROVE FALSE
    OBVIOUS
  <2>2. Cardinality(0 .. Cardinality(R)) <= Cardinality(R)
    BY <2>1, FS_Subset
  <2> QED BY <1>1, <1>2, <2>2
<1>4. 0 .. Cardinality(R) \ R \subseteq Nat /\ 0 .. Cardinality(R) \ R # {}
  BY <1>1, <1>3
<1> QED BY <1>4, LeastNumber

LEMMA KeysAreFinite == IsFiniteSet(Keys)
<1> DEFINE Triples == Agents \X (Borrowers \X (1 .. MAX_CALL_ATTEMPTS))
           key == [t \in Triples |->
                     [agent |-> t[1], borrower |-> t[2][1], attempt |-> t[2][2]]]
<1>1. IsFiniteSet(1 .. MAX_CALL_ATTEMPTS)
  BY FS_Interval, MaxAttemptsAssumption
<1>2. IsFiniteSet(Borrowers \X (1 .. MAX_CALL_ATTEMPTS))
  BY <1>1, FS_Product, DialingAssumption
<1>3. IsFiniteSet(Triples)
  BY <1>2, FS_Product, DialingAssumption
<1>4. key \in [Triples -> Keys]
  BY DEF Keys
<1>5. ASSUME NEW k \in Keys PROVE \E t \in Triples : key[t] = k
  <2> DEFINE t == <<k.agent, <<k.borrower, k.attempt>>>>
  <2>1. t \in Triples
    BY DEF Keys
  <2>2. key[t] = [agent |-> k.agent, borrower |-> k.borrower, attempt |-> k.attempt]
    BY <2>1
  <2>3. key[t] = k
    BY <2>2 DEF Keys
  <2> QED BY <2>1, <2>3
<1>6. key \in Surjection(Triples, Keys)
  <2> HIDE DEF key, Triples
  <2> QED BY <1>4, <1>5 DEF Surjection
<1> QED BY <1>3, <1>6, FS_Surjection

LEMMA VersionsAreFinite ==
  ASSUME NEW S, IsFiniteSet(S), NEW f
  PROVE  IsFiniteSet({ f[x].version : x \in S })
<1> DEFINE V == { f[x].version : x \in S }
           g == [x \in S |-> f[x].version]
<1>1. g \in Surjection(S, V)
  <2>1. g \in [S -> V] /\ \A v \in V : \E x \in S : g[x] = v
    OBVIOUS
  <2> QED BY <2>1 DEF Surjection
<1> QED BY <1>1, FS_Surjection

LEMMA RememberedIsFinite ==
  ASSUME NEW a
  PROVE  IsFiniteSet(RememberedVersions(a))
<1> DEFINE W == { v \in Workers : worker[v].agent = a }
           K == { h \in Keys : h.agent = a /\ handler[h].pc = "cas" }
<1>1. IsFiniteSet(W) /\ IsFiniteSet(K)
  <2>1. W \in SUBSET Workers /\ K \in SUBSET Keys
    OBVIOUS
  <2> QED BY <2>1, KeysAreFinite, DialingAssumption, FS_Subset
<1>2. IsFiniteSet({ worker[w].version : w \in W })
  BY <1>1, VersionsAreFinite
<1>3. IsFiniteSet({ handler[k].version : k \in K })
  BY <1>1, VersionsAreFinite
<1>4. IsFiniteSet(IF rec.agent = a THEN {rec.version} ELSE {})
  BY FS_EmptySet, FS_Singleton
<1>5. IsFiniteSet({ worker[w].version : w \in W } \cup { handler[k].version : k \in K })
  BY <1>2, <1>3, FS_Union
<1> QED BY <1>4, <1>5, FS_Union DEF RememberedVersions

--------------------------------------------------------------------------------------
(* Single writes keep the documents in order: an agent's write binds no other call, a     *)
(* borrower that can still be dialled has an attempt left.                               *)

\* What doc may be made of ag by any write but bind_call.
Follows(doc, ag) == doc \in AgentDocs /\ doc.current_call_id \in {ag.current_call_id, NULL}

LEMMA ReserveFollows ==
  ASSUME NEW ag \in AgentDocs, NEW w \in Workers, NEW lease \in Nat
  PROVE  Follows(Reserve(ag, w, lease), ag)
<1>1. ag.state_version + 1 \in Nat
  BY DEF AgentDocs, AgentDoc
<1>2. w \in Workers \cup {NULL} /\ lease \in Nat \cup {NULL} /\ "RESERVED" \in AgentState
  BY DEF AgentState
<1>3. Reserve(ag, w, lease) \in AgentDocs
  BY <1>1, <1>2 DEF Reserve, AgentDocs, AgentDoc
<1>4. Reserve(ag, w, lease).current_call_id = ag.current_call_id
  BY DEF Reserve, AgentDocs, AgentDoc
<1> QED BY <1>3, <1>4 DEF Follows

LEMMA ReleaseFollows ==
  ASSUME NEW ag \in AgentDocs, NEW w, NEW target \in AgentState, NEW actor
  PROVE  Follows(Release(ag, target), ag) /\ Follows(release_agent(ag, w, target, actor), ag)
<1>1. Release(ag, target) \in AgentDocs
  BY DEF Release, AgentDocs, AgentDoc
<1>2. Release(ag, target).current_call_id = NULL
  BY DEF Release
<1> QED BY <1>1, <1>2 DEF release_agent, Follows

LEMMA TransitionFollows ==
  ASSUME NEW ag \in AgentDocs, NEW from, NEW to \in AgentState, NEW actor, NEW v
  PROVE  Follows(transition_agent(ag, from, to, actor, v), ag)
<1> DEFINE moved == [ag EXCEPT !.state = to, !.state_version = @ + 1]
<1>1. ag.state_version + 1 \in Nat
  BY DEF AgentDocs, AgentDoc
<1>2. moved \in AgentDocs /\ moved.current_call_id = ag.current_call_id
  BY <1>1 DEF AgentDocs, AgentDoc
<1> QED BY <1>2 DEF transition_agent, Follows

LEMMA ExpiredFollows ==
  ASSUME NEW ag \in AgentDocs, NEW seen, NEW at
  PROVE  Follows(release_expired_agent_lease(ag, seen, at), ag)
  BY ReleaseFollows DEF release_expired_agent_lease, AgentState, Follows

LEMMA BindBinds ==
  ASSUME NEW ag \in AgentDocs, NEW w, NEW k \in Keys
  PROVE  /\ bind_call(ag, w, k) \in AgentDocs
         /\ bind_call(ag, w, k).current_call_id \in {ag.current_call_id, k}
  BY DEF bind_call, AgentDocs, AgentDoc

LEMMA AgentWritten ==
  ASSUME TypeOK, NEW a \in Agents, NEW doc \in AgentDocs, AgentBecomes(a, doc)
  PROVE  /\ agents' \in [Agents -> AgentDocs]
         /\ agents'[a].current_call_id = doc.current_call_id
         /\ \A x \in Agents \ {a} : agents'[x] = agents[x]
<1> DEFINE fresh == Min(0 .. Cardinality(RememberedVersions(a)) \ RememberedVersions(a))
           kept == [doc EXCEPT !.state_version = fresh]
           new == IF doc.state_version = agents[a].state_version THEN doc ELSE kept
<1>1. fresh \in Nat
  BY FreshNumber, RememberedIsFinite
<1>2. kept \in AgentDocs /\ kept.current_call_id = doc.current_call_id
  <2> HIDE DEF fresh
  <2> QED BY <1>1 DEF AgentDocs, AgentDoc
<1>3. new \in AgentDocs /\ new.current_call_id = doc.current_call_id
  <2> HIDE DEF kept
  <2> QED BY <1>2
<1>4. agents' = [agents EXCEPT ![a] = new]
  BY DEF AgentBecomes
<1>5. agents \in [Agents -> AgentDocs]
  BY DEF TypeOK, AgentDocs
<1> HIDE DEF new
<1> QED BY <1>3, <1>4, <1>5

LEMMA BorrowerReserved ==
  ASSUME NEW bo \in BorrowerDocs, Dialable(bo), bo.status = "PENDING",
         NEW w \in Workers, NEW lease \in Nat
  PROVE  LET doc == ReserveBorrower(bo, w, lease) IN doc \in BorrowerDocs /\ Dialable(doc)
<1> DEFINE doc == ReserveBorrower(bo, w, lease)
<1>1. bo.state_version + 1 \in Nat
  BY DEF BorrowerDocs, BorrowerDoc
<1>2. doc \in BorrowerDocs
  BY <1>1 DEF ReserveBorrower, BorrowerDocs, BorrowerDoc, BorrowerStatus
<1>3. Dialable(doc)
  BY DEF ReserveBorrower, BorrowerDocs, BorrowerDoc, Dialable
<1> QED BY <1>2, <1>3

LEMMA BackToType ==
  ASSUME NEW bo \in BorrowerDocs, NEW status \in BorrowerStatus \ {"RESERVED"}, NEW n \in Nat,
         NEW at \in Nat, status = "PENDING" => n < MAX_CALL_ATTEMPTS
  PROVE  BackTo(bo, status, n, at) \in BorrowerDocs /\ Dialable(BackTo(bo, status, n, at))
<1>1. BackTo(bo, status, n, at) \in BorrowerDocs
  BY DEF BackTo, BorrowerDocs, BorrowerDoc
<1>2. Dialable(BackTo(bo, status, n, at))
  BY DEF BackTo, Dialable
<1> QED BY <1>1, <1>2

\* A release that matches takes the borrower out of RESERVED, any other changes nothing.
LEMMA BorrowerReleased ==
  ASSUME NEW bo \in BorrowerDocs, Dialable(bo), NEW w, NEW outcome \in BorrowerReleaseOutcome
  PROVE  LET doc == release_borrower(bo, w, outcome, NOW) IN
         /\ doc \in BorrowerDocs /\ Dialable(doc)
         /\ doc.status = "RESERVED" => doc = bo /\ bo.reserved_by # w
<1> DEFINE doc == release_borrower(bo, w, outcome, NOW)
           n == bo.attempt_count + 1
<1>1. CASE ~BorrowerReleaseMatches(bo, w)
  BY <1>1 DEF release_borrower, BorrowerReleaseMatches
<1>2. ASSUME BorrowerReleaseMatches(bo, w)
      PROVE  \E status \in BorrowerStatus \ {"RESERVED"}, m \in Nat, at \in Nat :
               /\ status = "PENDING" => m < MAX_CALL_ATTEMPTS
               /\ doc = BackTo(bo, status, m, at)
  <2>1. /\ bo.attempt_count \in Nat /\ n \in Nat /\ bo.next_eligible_at \in Nat
        /\ n \in 1 .. MAX_CALL_ATTEMPTS
    BY <1>2, MaxAttemptsAssumption DEF BorrowerReleaseMatches, Dialable, BorrowerDocs, BorrowerDoc
  <2>2. CASE outcome = "RELEASED"
    <3>1. doc = BackTo(bo, "PENDING", bo.attempt_count, bo.next_eligible_at)
      BY <1>2, <2>2 DEF release_borrower
    <3>2. bo.attempt_count < MAX_CALL_ATTEMPTS
      BY <2>1, MaxAttemptsAssumption
    <3> QED BY <2>1, <3>1, <3>2 DEF BorrowerStatus
  <2>3. CASE outcome = "CONTACTED"
    <3>1. doc = BackTo(bo, "CONTACTED", n, bo.next_eligible_at)
      BY <1>2, <2>3 DEF release_borrower
    <3> QED BY <2>1, <3>1 DEF BorrowerStatus
  <2>4. CASE outcome = "RETRY"
    <3> DEFINE st == IF n >= MAX_CALL_ATTEMPTS THEN "EXHAUSTED" ELSE "PENDING"
    <3>1. doc = BackTo(bo, st, n, NOW + RetryBackoff[n])
      BY <1>2, <2>4 DEF release_borrower, Retried
    <3>2. NOW + RetryBackoff[n] \in Nat
      BY <2>1, BackoffAssumption DEF NOW
    <3>3. st \in BorrowerStatus \ {"RESERVED"} /\ (st = "PENDING" => n < MAX_CALL_ATTEMPTS)
      BY <2>1, MaxAttemptsAssumption DEF BorrowerStatus
    <3> HIDE DEF st, n
    <3> QED BY <2>1, <3>1, <3>2, <3>3
  <2> QED BY <2>2, <2>3, <2>4 DEF BorrowerReleaseOutcome
<1>3. CASE BorrowerReleaseMatches(bo, w)
  <2>1. PICK status \in BorrowerStatus \ {"RESERVED"}, m \in Nat, at \in Nat :
           /\ status = "PENDING" => m < MAX_CALL_ATTEMPTS
           /\ doc = BackTo(bo, status, m, at)
    BY <1>2, <1>3
  <2>2. doc \in BorrowerDocs /\ Dialable(doc)
    BY <2>1, BackToType
  <2>3. doc.status = status
    BY <2>1 DEF BackTo
  <2> QED BY <2>2, <2>3
<1> QED BY <1>1, <1>3

LEMMA BorrowerReclaimed ==
  ASSUME NEW bo \in BorrowerDocs, Dialable(bo), BorrowerSweepable(bo, NOW)
  PROVE  LET doc == reclaim_borrower(bo, bo, NOW) IN
         doc \in BorrowerDocs /\ Dialable(doc) /\ doc.status = "PENDING"
<1> DEFINE doc == reclaim_borrower(bo, bo, NOW)
<1>1. doc = BackTo(bo, "PENDING", bo.attempt_count, NOW)
  BY DEF reclaim_borrower, ReclaimMatches, BorrowerSweepable
<1>2. bo.attempt_count \in Nat /\ bo.attempt_count < MAX_CALL_ATTEMPTS
  BY DEF BorrowerSweepable, Dialable, BorrowerDocs, BorrowerDoc
<1>3. doc \in BorrowerDocs /\ Dialable(doc)
  BY <1>1, <1>2, BackToType DEF BorrowerStatus, NOW
<1>4. doc.status = "PENDING"
  BY <1>1 DEF BackTo
<1> QED BY <1>3, <1>4

LEMMA BorrowerWritten ==
  ASSUME TypeOK, AttemptsLeft, NEW b \in Borrowers, NEW doc \in BorrowerDocs, Dialable(doc),
         BorrowerBecomes(b, doc)
  PROVE  /\ borrowers' \in [Borrowers -> BorrowerDocs]
         /\ AttemptsLeft'
         /\ borrowers'[b].status = doc.status /\ borrowers'[b].reserved_by = doc.reserved_by
         /\ \A x \in Borrowers \ {b} : borrowers'[x] = borrowers[x]
<1> DEFINE new == [doc EXCEPT !.state_version = 0, !.next_eligible_at = 0]
<1>1. /\ new \in BorrowerDocs
      /\ new.status = doc.status /\ new.reserved_by = doc.reserved_by
      /\ new.attempt_count = doc.attempt_count
  BY DEF BorrowerDocs, BorrowerDoc
<1>2. borrowers' = [borrowers EXCEPT ![b] = new] /\ borrowers \in [Borrowers -> BorrowerDocs]
  BY DEF BorrowerBecomes, TypeOK, BorrowerDocs
<1> HIDE DEF new
<1>3. /\ borrowers' \in [Borrowers -> BorrowerDocs] /\ borrowers'[b] = new
      /\ \A x \in Borrowers \ {b} : borrowers'[x] = borrowers[x]
  BY <1>1, <1>2
<1>4. Dialable(new)
  BY <1>1 DEF Dialable
<1>5. AttemptsLeft'
  BY <1>3, <1>4 DEF AttemptsLeft, Dialable
<1> QED BY <1>1, <1>3, <1>5

(* Calls: transition_call knows ranks alone, yet once a call has been INITIATED every       *)
(* move to a higher rank is a move of the lifecycle.                                        *)
LEMMA CallMoves ==
  ASSUME NEW call \in CallDocs, NEW target \in CallState
  PROVE  LET doc == transition_call(call, target) IN
         /\ doc \in CallDocs
         /\ doc.attached = call.attached /\ doc.created_by_worker = call.created_by_worker
         /\ doc.state = IF CallTransitionMatches(call, target) THEN target ELSE call.state
         /\ ~CallTransitionMatches(call, target) => doc = call
<1> DEFINE moved == [call EXCEPT !.state = target, !.answered = @ \/ target = "ANSWERED"]
<1>1. call.answered \in BOOLEAN
  BY DEF CallDocs, CallDoc
<1>2. (call.answered \/ target = "ANSWERED") \in BOOLEAN
  BY <1>1
<1>3. /\ moved \in CallDocs /\ moved.state = target
      /\ moved.attached = call.attached /\ moved.created_by_worker = call.created_by_worker
  BY <1>2 DEF CallDocs, CallDoc
<1> HIDE DEF moved
<1>4. transition_call(call, target) = IF CallTransitionMatches(call, target) THEN moved ELSE call
  BY DEF transition_call, moved
<1> QED BY <1>3, <1>4

LEMMA CallMovesAlong ==
  ASSUME NEW call \in CallDocs, NEW target \in CallState, CallTransitionMatches(call, target)
  PROVE  /\ ~is_terminal(call.state)
         /\ call.state \notin {"QUEUED", "RESERVED"} =>
              target \notin {"QUEUED", "RESERVED", "INITIATED"}
         /\ call.state = "RESERVED" => target # "QUEUED"
         /\ call.state \notin {"QUEUED", "RESERVED"} \/ target \in {"RESERVED", "INITIATED", "FAILED", "CANCELLED"}
              => can_transition_call(call.state, target)
<1>1. call.state \in CallState
  BY DEF CallDocs, CallDoc
<1>2. CallState = {"QUEUED", "RESERVED", "INITIATED", "RINGING", "ANSWERED", "CONNECTED",
                   "COMPLETED", "FAILED", "CANCELLED"}
  BY DEF CallState, CALL_STATE_RANK
<1> QED
  BY <1>1, <1>2 DEF CallTransitionMatches, rank, CALL_STATE_RANK, is_terminal,
     TERMINAL_CALL_STATES, can_transition_call, CALL_TRANSITIONS

--------------------------------------------------------------------------------------
(* What a step does to each variable.  Every step does no more than this to any of them.  *)

\* Whoever comes nearer to the provider with a pair has what that takes.
WorkersKeep ==
  /\ worker' \in [Workers -> Dial]
  /\ HandsFull'
  /\ \A w \in Workers :
       /\ worker'[w].pc \in Prepared =>
            \/ worker[w].pc \in Prepared /\ KeyOf(w)' = KeyOf(w)
            \/ calls'[KeyOf(w)'] # NULL
       /\ worker'[w].pc \in Sending =>
            \/ worker[w].pc \in Sending /\ KeyOf(w)' = KeyOf(w)
            \/ Dialled(calls'[KeyOf(w)'])
       /\ worker'[w].pc = "accepted" =>
            \/ worker[w].pc = "accepted" /\ KeyOf(w)' = KeyOf(w)
            \/ provider'[KeyOf(w)'] # NULL

AgentsKeep ==
  /\ agents' \in [Agents -> AgentDocs]
  /\ \A a \in Agents :
       \/ agents'[a].current_call_id \in {agents[a].current_call_id, NULL}
       \/ calls'[agents'[a].current_call_id] # NULL

BorrowersKeep ==
  /\ borrowers' \in [Borrowers -> BorrowerDocs]
  /\ AttemptsLeft'

\* No call is lost or goes back, and the id of a provider's call alone is attached.
CallsKeep ==
  /\ calls' \in [Keys -> CallDocs \cup {NULL}]
  /\ \A k \in Keys :
       /\ calls[k] # NULL => calls'[k] # NULL
       /\ Dialled(calls[k]) => Dialled(calls'[k])
       /\ calls'[k] # NULL /\ calls'[k].attached =>
            \/ calls[k] # NULL /\ calls[k].attached
            \/ provider[k] # NULL

\* The provider forgets no call; one that is new to it has been INITIATED.
ProviderKeeps ==
  /\ provider' \in [Keys -> ProviderCall \cup {NULL}]
  /\ \A k \in Keys :
       /\ provider[k] # NULL => provider'[k] # NULL
       /\ provider'[k] # NULL => provider[k] # NULL \/ Dialled(calls[k])

HandlersKeep ==
  /\ handler' \in [Keys -> EventInHand]
  /\ HandlersFull'

SweepKeeps ==
  /\ rec' \in Sweep
  /\ SweepFull'
  /\ rec'.call \in {rec.call, NULL} \/ calls'[rec'.call] # NULL
  /\ \/ rec'.pc # "settle" \/ rec' = rec
     \/ rec'.target = "COMPLETED" => provider'[rec'.call] # NULL

RestKeeps ==
  /\ recorded' \in [Keys -> SUBSET EventTypes]
  /\ faults' \in 0 .. MaxFaults
  /\ claims' \in Nat \cup {NULL}

AllKeep ==
  /\ WorkersKeep /\ AgentsKeep /\ BorrowersKeep /\ CallsKeep /\ ProviderKeeps
  /\ HandlersKeep /\ SweepKeeps /\ RestKeeps

\* Nobody is about to dial who was not already, ...
NobodyNearer ==
  \A w \in Workers : worker'[w].pc \in Sending \ {"accepted"} =>
                        worker[w].pc \in Sending \ {"accepted"} /\ KeyOf(w)' = KeyOf(w)

\* ... and the provider has no new call.
NoNewCall == \A k \in Keys : provider'[k] # NULL => provider[k] # NULL

LEMMA Untouched ==
  ASSUME DialInv
  PROVE  /\ UNCHANGED worker => WorkersKeep /\ NobodyNearer
         /\ UNCHANGED agents => AgentsKeep
         /\ UNCHANGED borrowers => BorrowersKeep
         /\ UNCHANGED calls => CallsKeep
         /\ UNCHANGED provider => ProviderKeeps /\ NoNewCall
         /\ UNCHANGED handler /\ ProviderKeeps => HandlersKeep
         /\ UNCHANGED rec => SweepKeeps
         /\ UNCHANGED recorded /\ UNCHANGED faults /\ UNCHANGED claims => RestKeeps
         /\ UNCHANGED recorded /\ Fault /\ UNCHANGED claims => RestKeeps
<1>1. UNCHANGED worker => WorkersKeep /\ NobodyNearer
  BY DEF DialInv, TypeOK, HandsFull, WorkersKeep, NobodyNearer, KeyOf
<1>2. UNCHANGED agents => AgentsKeep
  BY DEF DialInv, TypeOK, AgentsKeep, AgentDocs
<1>3. UNCHANGED borrowers => BorrowersKeep
  BY DEF DialInv, TypeOK, AttemptsLeft, BorrowersKeep, BorrowerDocs
<1>4. UNCHANGED calls => CallsKeep
  BY DEF DialInv, TypeOK, CallsKeep, CallDocs
<1>5. UNCHANGED provider => ProviderKeeps /\ NoNewCall
  BY DEF DialInv, TypeOK, ProviderKeeps, NoNewCall
<1>6. UNCHANGED handler /\ ProviderKeeps => HandlersKeep
  BY DEF DialInv, TypeOK, ProviderKeeps, HandlersKeep, HandlersFull
<1>7. UNCHANGED rec => SweepKeeps
  BY DEF DialInv, TypeOK, SweepFull, SweepKeeps
<1>8. UNCHANGED recorded /\ UNCHANGED faults /\ UNCHANGED claims => RestKeeps
  BY DEF DialInv, TypeOK, RestKeeps
<1>9. UNCHANGED recorded /\ Fault /\ UNCHANGED claims => RestKeeps
  <2>1. ASSUME Fault PROVE faults' \in 0 .. MaxFaults
    BY <2>1, DialingAssumption DEF Fault, DialInv, TypeOK
  <2> QED BY <2>1 DEF DialInv, TypeOK, RestKeeps
<1> QED BY <1>1, <1>2, <1>3, <1>4, <1>5, <1>6, <1>7, <1>8, <1>9

\* What a worker reads its key from is in order as soon as it has a pair.
LEMMA KeyIsKey ==
  ASSUME DialInv, NEW w \in Workers, worker[w].pc \in Paired
  PROVE  KeyOf(w) \in Keys /\ KeyOf(w).agent = worker[w].agent
         /\ KeyOf(w).borrower = worker[w].borrower
<1>1. /\ worker[w].agent \in Agents /\ worker[w].borrower \in Borrowers
      /\ worker[w].attempt < MAX_CALL_ATTEMPTS /\ worker[w].attempt \in Nat
  BY DEF DialInv, TypeOK, HandsFull, Dial, Begun, Paired
<1>2. worker[w].attempt + 1 \in 1 .. MAX_CALL_ATTEMPTS
  BY <1>1, MaxAttemptsAssumption
<1> QED BY <1>1, <1>2 DEF KeyOf, Keys

LEMMA StepInv ==
  ASSUME DialInv, AllKeep, OneOriginatePerCall'
  PROVE  DialInv'
<1>1. TypeOK'
  BY DEF AllKeep, WorkersKeep, AgentsKeep, BorrowersKeep, CallsKeep, ProviderKeeps, HandlersKeep,
         SweepKeeps, RestKeeps, TypeOK, AgentDocs, BorrowerDocs, CallDocs
<1>2. HandsFull' /\ AttemptsLeft' /\ SweepFull' /\ HandlersFull'
  BY DEF AllKeep, WorkersKeep, BorrowersKeep, SweepKeeps, HandlersKeep
<1>3. ASSUME NEW w \in Workers, worker[w].pc \in Prepared PROVE KeyOf(w) \in Keys
  BY <1>3, KeyIsKey DEF Paired
<1>4. NamedCallsExist'
  <2>1. ASSUME NEW w \in Workers, worker'[w].pc \in Prepared PROVE calls'[KeyOf(w)'] # NULL
    BY <2>1, <1>3 DEF AllKeep, WorkersKeep, CallsKeep, DialInv, NamedCallsExist
  <2>2. ASSUME NEW a \in Agents, agents'[a].current_call_id # NULL
        PROVE  calls'[agents'[a].current_call_id] # NULL
    <3>1. agents[a].current_call_id \in Keys \cup {NULL}
      BY DEF DialInv, TypeOK, AgentDoc
    <3> QED BY <2>2, <3>1 DEF AllKeep, AgentsKeep, CallsKeep, DialInv, NamedCallsExist
  <2>3. ASSUME rec'.call # NULL PROVE calls'[rec'.call] # NULL
    <3>1. rec.call \in Keys \cup {NULL}
      BY DEF DialInv, TypeOK, Sweep
    <3> QED BY <2>3, <3>1 DEF AllKeep, SweepKeeps, CallsKeep, DialInv, NamedCallsExist
  <2> QED BY <2>1, <2>2, <2>3 DEF NamedCallsExist
<1>5. ProviderIsLast'
  <2>1. ASSUME NEW k \in Keys, provider'[k] # NULL PROVE Dialled(calls'[k])
    BY <2>1 DEF AllKeep, ProviderKeeps, CallsKeep, DialInv, ProviderIsLast
  <2>2. ASSUME NEW k \in Keys, calls'[k] # NULL, calls'[k].attached PROVE provider'[k] # NULL
    BY <2>2 DEF AllKeep, ProviderKeeps, CallsKeep, DialInv, ProviderIsLast
  <2>3. ASSUME NEW w \in Workers, worker'[w].pc \in Sending PROVE Dialled(calls'[KeyOf(w)'])
    BY <2>3, <1>3 DEF AllKeep, WorkersKeep, CallsKeep, DialInv, ProviderIsLast, Prepared
  <2>4. ASSUME NEW w \in Workers, worker'[w].pc = "accepted" PROVE provider'[KeyOf(w)'] # NULL
    <3>1. worker[w].pc = "accepted" => worker[w].pc \in Prepared
      BY DEF Prepared, Sending
    <3> QED BY <2>4, <3>1, <1>3 DEF AllKeep, WorkersKeep, ProviderKeeps, DialInv, ProviderIsLast
  <2>5. ASSUME rec'.pc = "settle", rec'.target = "COMPLETED" PROVE provider'[rec'.call] # NULL
    <3>1. rec.pc = "settle" => rec.call \in Keys
      BY DEF DialInv, SweepFull
    <3> QED BY <2>5, <3>1 DEF AllKeep, SweepKeeps, ProviderKeeps, DialInv, ProviderIsLast
  <2> QED BY <2>1, <2>2, <2>3, <2>4, <2>5 DEF ProviderIsLast
<1> QED BY <1>1, <1>2, <1>4, <1>5 DEF DialInv

LEMMA QuietStep ==
  ASSUME DialInv, AllKeep, NobodyNearer, NoNewCall
  PROVE  DialInv'
<1>1. \A w \in Workers : worker'[w].pc \in Sending \ {"accepted"} =>
        /\ worker[w].pc \in Sending \ {"accepted"} /\ KeyOf(w)' = KeyOf(w)
        /\ KeyOf(w) \in Keys
  BY KeyIsKey DEF NobodyNearer, Prepared, Paired
<1>2. Sending \ {"accepted"} = {"initiated", "binding", "originating"}
  BY DEF Sending
<1>3. OneOriginatePerCall'
  BY <1>1, <1>2 DEF OneOriginatePerCall, DialInv, NoNewCall
<1> QED BY <1>3, StepInv

--------------------------------------------------------------------------------------
(* The worker: one write of a dial after the other.                                      *)

\* w is at p now, with the pair it had, and nobody else has moved.
Moved(w, p) ==
  /\ worker' \in [Workers -> Dial]
  /\ HandsFull'
  /\ worker'[w].pc = p
  /\ \A v \in Workers : KeyOf(v)' = KeyOf(v) /\ worker'[v].borrower = worker[v].borrower
  /\ \A v \in Workers \ {w} : worker'[v] = worker[v]

LEMMA Moves ==
  ASSUME DialInv, NEW w \in Workers, NEW p \in WorkerPcs,
         \/ Goto(w, p)
         \/ p = "release_agent" /\ \E outcome \in BorrowerReleaseOutcome : GiveBack(w, outcome),
         \/ worker[w].pc \in Paired /\ p \in Paired
         \/ worker[w].pc \in Begun \ Paired /\ p \in Begun \ Paired
  PROVE  Moved(w, p)
<1>1. PICK new \in Dial : /\ worker' = [worker EXCEPT ![w] = new]
                          /\ new.pc = p /\ new.agent = worker[w].agent
                          /\ new.borrower = worker[w].borrower
                          /\ new.attempt = worker[w].attempt
  <2>1. CASE Goto(w, p)
    <3> DEFINE new == [worker[w] EXCEPT !.pc = p]
    <3>1. new \in Dial
      BY DEF DialInv, TypeOK, Dial
    <3>2. worker' = [worker EXCEPT ![w] = new]
      BY <2>1 DEF Goto
    <3> QED BY <3>1, <3>2 DEF DialInv, TypeOK, Dial
  <2>2. CASE p = "release_agent" /\ \E outcome \in BorrowerReleaseOutcome : GiveBack(w, outcome)
    <3>1. PICK outcome \in BorrowerReleaseOutcome : GiveBack(w, outcome)
      BY <2>2
    <3> DEFINE new == [worker[w] EXCEPT !.pc = "release_agent", !.outcome = outcome]
    <3>2. new \in Dial
      BY DEF DialInv, TypeOK, Dial, WorkerPcs
    <3>3. worker' = [worker EXCEPT ![w] = new]
      BY <3>1 DEF GiveBack
    <3> QED BY <2>2, <3>2, <3>3 DEF DialInv, TypeOK, Dial
  <2> QED BY <2>1, <2>2
<1>2. worker \in [Workers -> Dial]
  BY DEF DialInv, TypeOK
<1>3. /\ worker' \in [Workers -> Dial] /\ worker'[w] = new
      /\ \A v \in Workers \ {w} : worker'[v] = worker[v]
  BY <1>1, <1>2
<1>4. \A v \in Workers : KeyOf(v)' = KeyOf(v) /\ worker'[v].borrower = worker[v].borrower
  BY <1>1, <1>3 DEF KeyOf
<1>5. HandsFull'
  BY <1>1, <1>3 DEF HandsFull, DialInv, Begun, Paired
<1> QED BY <1>1, <1>3, <1>4, <1>5 DEF Moved

\* Moves that bring no worker nearer to the provider.
LEMMA MovesBack ==
  ASSUME DialInv, NEW w \in Workers, NEW p \in WorkerPcs, Moved(w, p),
         p \in Prepared => worker[w].pc \in Prepared,
         p \in Sending => worker[w].pc \in Sending /\ worker[w].pc # "accepted",
         p # "accepted"
  PROVE  /\ WorkersKeep
         /\ NobodyNearer
  BY DEF Moved, WorkersKeep, NobodyNearer

LEMMA Resets ==
  ASSUME DialInv, NEW w \in Workers, NEW p \in {"idle", "stopped"},
         worker' = [worker EXCEPT ![w] = [Idle EXCEPT !.pc = p]]
  PROVE  /\ WorkersKeep /\ NobodyNearer
         /\ worker'[w].borrower = NULL
         /\ \A v \in Workers \ {w} : worker'[v] = worker[v]
<1> DEFINE new == [Idle EXCEPT !.pc = p]
<1>1. new \in Dial /\ new.pc = p /\ new.borrower = NULL
  BY DEF Idle, Dial, WorkerPcs, BorrowerReleaseOutcome
<1>2. p \notin Begun /\ p \notin Paired /\ p \notin Prepared /\ p \notin Sending /\ p # "accepted"
  BY DEF Begun, Paired, Prepared, Sending
<1>3. worker \in [Workers -> Dial]
  BY DEF DialInv, TypeOK
<1> HIDE DEF new
<1>4. /\ worker' \in [Workers -> Dial] /\ worker'[w] = new
      /\ \A v \in Workers \ {w} : worker'[v] = worker[v]
  BY <1>1, <1>3 DEF new
<1>5. HandsFull'
  BY <1>1, <1>2, <1>4 DEF HandsFull, DialInv
<1>6. \A v \in Workers \ {w} : KeyOf(v)' = KeyOf(v)
  BY <1>4 DEF KeyOf
<1>7. WorkersKeep /\ NobodyNearer
  BY <1>1, <1>2, <1>4, <1>5, <1>6 DEF WorkersKeep, NobodyNearer
<1> QED BY <1>1, <1>4, <1>7

LEMMA Returns ==
  ASSUME DialInv, NEW w \in Workers, BackToIdle(w)
  PROVE  /\ WorkersKeep /\ NobodyNearer
         /\ worker'[w].borrower = NULL
         /\ \A v \in Workers \ {w} : worker'[v] = worker[v]
<1>1. [Idle EXCEPT !.pc = "idle"] = Idle
  BY DEF Idle
<1> QED BY <1>1, Resets DEF BackToIdle

\* The writes to the agent and the borrower.
LEMMA AgentKept ==
  ASSUME DialInv, NEW a \in Agents, NEW doc, Follows(doc, agents[a]), AgentBecomes(a, doc)
  PROVE  AgentsKeep
<1>1. TypeOK /\ doc \in AgentDocs /\ doc.current_call_id \in {agents[a].current_call_id, NULL}
  BY DEF DialInv, Follows
<1>2. /\ agents' \in [Agents -> AgentDocs]
      /\ agents'[a].current_call_id = doc.current_call_id
      /\ \A x \in Agents \ {a} : agents'[x] = agents[x]
  BY <1>1, AgentWritten
<1> QED BY <1>1, <1>2 DEF AgentsKeep

LEMMA BorrowerKept ==
  ASSUME DialInv, NEW b \in Borrowers, NEW doc \in BorrowerDocs, Dialable(doc),
         BorrowerBecomes(b, doc)
  PROVE  BorrowersKeep
  BY BorrowerWritten DEF DialInv, BorrowersKeep

LEMMA DocumentTypes ==
  ASSUME DialInv
  PROVE  /\ \A a \in Agents : agents[a] \in AgentDocs
         /\ \A b \in Borrowers : borrowers[b] \in BorrowerDocs /\ Dialable(borrowers[b])
         /\ \A k \in Keys : calls[k] # NULL => calls[k] \in CallDocs
  BY DEF DialInv, TypeOK, AttemptsLeft, AgentDocs, BorrowerDocs, CallDocs

\* A call that is moved by transition_call stays a call that was dialled.
LEMMA CallKept ==
  ASSUME DialInv, NEW k \in Keys, calls[k] # NULL, NEW target \in CallState,
         calls' = [calls EXCEPT ![k] = transition_call(@, target)]
  PROVE  /\ CallsKeep
         /\ calls'[k].created_by_worker = calls[k].created_by_worker
         /\ calls'[k].state = IF CallTransitionMatches(calls[k], target) THEN target
                              ELSE calls[k].state
         /\ \A h \in Keys \ {k} : calls'[h] = calls[h]
<1> DEFINE doc == transition_call(calls[k], target)
<1>1. calls[k] \in CallDocs
  BY DocumentTypes
<1>2. /\ doc \in CallDocs
      /\ doc.attached = calls[k].attached
      /\ doc.created_by_worker = calls[k].created_by_worker
      /\ doc.state = IF CallTransitionMatches(calls[k], target) THEN target ELSE calls[k].state
  BY <1>1, CallMoves
<1>3. doc # NULL
  BY <1>2, DocumentAssumption DEF CallDocs
<1>4. Dialled(calls[k]) => Dialled(doc)
  BY <1>1, <1>2, <1>3, CallMovesAlong DEF Dialled
<1>5. calls \in [Keys -> CallDocs \cup {NULL}] /\ calls' = [calls EXCEPT ![k] = doc]
  BY DEF DialInv, TypeOK, CallDocs
<1> HIDE DEF doc
<1>6. /\ calls' \in [Keys -> CallDocs \cup {NULL}] /\ calls'[k] = doc
      /\ \A h \in Keys \ {k} : calls'[h] = calls[h]
  BY <1>2, <1>5
<1>7. CallsKeep
  BY <1>2, <1>3, <1>4, <1>6 DEF CallsKeep
<1> QED BY <1>2, <1>6, <1>7

LEMMA CallAttached ==
  ASSUME DialInv, NEW k \in Keys, calls[k] # NULL, provider[k] # NULL,
         calls' = [calls EXCEPT ![k] = attach_provider_call_id(@)]
  PROVE  /\ CallsKeep
         /\ calls'[k].created_by_worker = calls[k].created_by_worker
         /\ calls'[k].state = calls[k].state
         /\ \A h \in Keys \ {k} : calls'[h] = calls[h]
<1> DEFINE doc == attach_provider_call_id(calls[k])
<1>1. calls[k] \in CallDocs
  BY DocumentTypes
<1>2. /\ doc \in CallDocs /\ doc.state = calls[k].state
      /\ doc.created_by_worker = calls[k].created_by_worker
  BY <1>1 DEF CallDocs, CallDoc, attach_provider_call_id
<1>3. doc # NULL
  BY <1>2, DocumentAssumption DEF CallDocs
<1>4. calls \in [Keys -> CallDocs \cup {NULL}] /\ calls' = [calls EXCEPT ![k] = doc]
  BY DEF DialInv, TypeOK, CallDocs
<1> HIDE DEF doc
<1>5. /\ calls' \in [Keys -> CallDocs \cup {NULL}] /\ calls'[k] = doc
      /\ \A h \in Keys \ {k} : calls'[h] = calls[h]
  BY <1>2, <1>4
<1>6. CallsKeep
  BY <1>2, <1>3, <1>5 DEF CallsKeep, Dialled
<1> QED BY <1>2, <1>5, <1>6

\* The steps of a dial that start something: a claim, the call document, its INITIATED, the
\* binding to the agent, the originate.  They need their own look at the invariant.
LEMMA ClaimAgentInv ==
  ASSUME DialInv, NEW w \in Workers, NEW a \in Agents, ClaimAgent(w, a)
  PROVE  DialInv' /\ worker'[w].borrower = worker[w].borrower
         /\ \A v \in Workers \ {w} : worker'[v] = worker[v]
<1> DEFINE new == [worker[w] EXCEPT !.pc = "has_agent", !.agent = a,
                                    !.version = agents'[a].state_version]
<1>1. AgentsKeep
  <2>1. Follows(Reserve(agents[a], w, FRESH), agents[a])
    BY DocumentTypes, ReserveFollows DEF FRESH
  <2> QED BY <2>1, AgentKept DEF ClaimAgent
<1>2. agents'[a].state_version \in Nat
  BY <1>1 DEF AgentsKeep, AgentDocs, AgentDoc
<1>3. worker \in [Workers -> Dial] /\ worker' = [worker EXCEPT ![w] = new]
  BY DEF DialInv, TypeOK, ClaimAgent
<1>4. /\ new \in Dial /\ new.pc = "has_agent" /\ new.agent = a
      /\ new.borrower = worker[w].borrower
  BY <1>2, <1>3 DEF Dial, WorkerPcs
<1> HIDE DEF new
<1>5. /\ worker' \in [Workers -> Dial] /\ worker'[w] = new
      /\ \A v \in Workers \ {w} : worker'[v] = worker[v]
  BY <1>3, <1>4
<1>6. worker[w].borrower = NULL
  BY DEF DialInv, HandsFull, ClaimAgent, At, Paired, Prepared, Sending
<1>7. HandsFull'
  BY <1>4, <1>5, <1>6 DEF HandsFull, DialInv, Begun, Paired, Prepared, Sending
<1>8. \A v \in Workers \ {w} : KeyOf(v)' = KeyOf(v)
  BY <1>5 DEF KeyOf
<1>9. WorkersKeep /\ NobodyNearer
  BY <1>4, <1>5, <1>7, <1>8 DEF WorkersKeep, NobodyNearer, Prepared, Sending
<1>10. RestKeeps
  BY DEF ClaimAgent, RestKeeps, DialInv, TypeOK
<1> QED BY <1>1, <1>4, <1>5, <1>9, <1>10, Untouched, QuietStep
     DEF ClaimAgent, AllKeep

LEMMA ClaimBorrowerInv ==
  ASSUME DialInv, NEW w \in Workers, NEW b \in Borrowers, ClaimBorrower(w, b)
  PROVE  /\ DialInv'
         /\ worker'[w].pc = "paired" /\ worker'[w].borrower = b
         /\ \A v \in Workers \ {w} : worker'[v] = worker[v]
         /\ borrowers'[b].reserved_by = w
         /\ \A x \in Borrowers \ {b} : borrowers'[x] = borrowers[x]
<1> DEFINE new == [worker[w] EXCEPT !.pc = "paired", !.borrower = b,
                                    !.attempt = borrowers[b].attempt_count]
           doc == ReserveBorrower(borrowers[b], w, FRESH)
<1>1. /\ borrowers[b] \in BorrowerDocs /\ Dialable(borrowers[b])
      /\ borrowers[b].status = "PENDING"
  BY DocumentTypes DEF ClaimBorrower, BorrowerClaimable
<1>2. doc \in BorrowerDocs /\ Dialable(doc) /\ doc.reserved_by = w
  BY <1>1, BorrowerReserved DEF FRESH, ReserveBorrower, BorrowerDocs, BorrowerDoc
<1>3. /\ BorrowersKeep /\ borrowers'[b].reserved_by = w
      /\ \A x \in Borrowers \ {b} : borrowers'[x] = borrowers[x]
  <2> HIDE DEF doc
  <2>1. BorrowerBecomes(b, doc) /\ TypeOK /\ AttemptsLeft
    BY DEF ClaimBorrower, doc, DialInv
  <2> QED BY <1>2, <2>1, BorrowerWritten, BorrowerKept
<1>4. borrowers[b].attempt_count \in Nat /\ borrowers[b].attempt_count < MAX_CALL_ATTEMPTS
  BY <1>1 DEF Dialable, BorrowerDocs, BorrowerDoc
<1>5. worker \in [Workers -> Dial] /\ worker' = [worker EXCEPT ![w] = new]
  BY DEF DialInv, TypeOK, ClaimBorrower
<1>6. /\ new \in Dial /\ new.pc = "paired" /\ new.borrower = b
      /\ new.attempt = borrowers[b].attempt_count /\ new.agent = worker[w].agent
  BY <1>4, <1>5 DEF Dial, WorkerPcs
<1> HIDE DEF new
<1>7. /\ worker' \in [Workers -> Dial] /\ worker'[w] = new
      /\ \A v \in Workers \ {w} : worker'[v] = worker[v]
  BY <1>5, <1>6
<1>8. worker[w].pc = "has_agent"
  BY DEF ClaimBorrower, At
<1>9. HandsFull'
  BY <1>4, <1>6, <1>7, <1>8 DEF HandsFull, DialInv, Begun, Paired, Prepared, Sending
<1>10. \A v \in Workers \ {w} : KeyOf(v)' = KeyOf(v)
  BY <1>7 DEF KeyOf
<1>11. WorkersKeep /\ NobodyNearer
  BY <1>6, <1>7, <1>9, <1>10 DEF WorkersKeep, NobodyNearer, Prepared, Sending
<1> QED BY <1>3, <1>6, <1>7, <1>11, Untouched, QuietStep
     DEF ClaimBorrower, AllKeep

LEMMA CreateCallInv ==
  ASSUME DialInv, NEW w \in Workers, CreateCall(w)
  PROVE  /\ DialInv' /\ Moved(w, "created")
         /\ \A k \in Keys : calls[k] # NULL => calls'[k] = calls[k]
         /\ \A k \in Keys : calls[k] = NULL /\ calls'[k] # NULL => ~is_terminal(calls'[k].state)
<1> DEFINE k == KeyOf(w)
<1>1. k \in Keys /\ worker[w].pc = "paired"
  BY KeyIsKey DEF CreateCall, At, Paired
<1>2. Moved(w, "created")
  BY <1>1, Moves DEF CreateCall, WorkerPcs, Paired, Prepared
<1>3. NewCall(w) \in CallDocs /\ NewCall(w) # NULL /\ NewCall(w).state = "QUEUED"
      /\ ~NewCall(w).attached
  <2>1. NewCall(w) \in CallDocs
    BY DEF NewCall, CallDocs, CallDoc, CallState, CALL_STATE_RANK
  <2> QED BY <2>1, DocumentAssumption DEF CallDocs, NewCall
<1>4. calls \in [Keys -> CallDocs \cup {NULL}]
  BY DEF DialInv, TypeOK, CallDocs
<1>5. /\ calls' \in [Keys -> CallDocs \cup {NULL}]
      /\ calls'[k] # NULL
      /\ calls[k] = NULL => calls'[k] = NewCall(w)
      /\ \A h \in Keys : calls[h] # NULL => calls'[h] = calls[h]
      /\ \A h \in Keys \ {k} : calls'[h] = calls[h]
  <2>1. calls' = [calls EXCEPT ![k] = IF calls[k] = NULL THEN NewCall(w) ELSE calls[k]]
    BY DEF CreateCall
  <2> HIDE DEF k
  <2> QED BY <1>1, <1>3, <1>4, <2>1
<1> HIDE DEF k
<1>6. CallsKeep
  BY <1>1, <1>3, <1>5 DEF CallsKeep, Dialled
<1>7. WorkersKeep /\ NobodyNearer
  BY <1>1, <1>2, <1>5 DEF Moved, WorkersKeep, NobodyNearer, Prepared, Sending, k
<1>8. \A h \in Keys : calls[h] = NULL /\ calls'[h] # NULL => ~is_terminal(calls'[h].state)
  BY <1>1, <1>3, <1>5 DEF is_terminal, TERMINAL_CALL_STATES
<1> QED BY <1>2, <1>5, <1>6, <1>7, <1>8, Untouched, QuietStep DEF CreateCall, AllKeep

LEMMA MarkInitiatedInv ==
  ASSUME DialInv, NEW w \in Workers, MarkInitiated(w)
  PROVE  DialInv'
<1> DEFINE k == KeyOf(w)
<1>1. /\ k \in Keys /\ calls[k] # NULL
      /\ worker[w].pc = "reserved" /\ worker[w].pc \in Prepared /\ worker[w].pc \in Paired
  BY KeyIsKey DEF MarkInitiated, At, Paired, Prepared, DialInv, NamedCallsExist
<1>2. /\ CallsKeep
      /\ CallTransitionMatches(calls[k], "INITIATED") => calls'[k].state = "INITIATED"
  BY <1>1, CallKept DEF MarkInitiated, CallState, CALL_STATE_RANK
<1>3. CASE ~CallTransitionMatches(calls[k], "INITIATED")
  <2>1. Moved(w, "release_agent")
    BY <1>1, <1>3, Moves DEF MarkInitiated, WorkerPcs, Paired, BorrowerReleaseOutcome
  <2>2. WorkersKeep /\ NobodyNearer
    BY <2>1, MovesBack DEF WorkerPcs, Prepared, Sending
  <2> QED BY <1>2, <2>2, Untouched, QuietStep DEF MarkInitiated, AllKeep
<1>4. CASE CallTransitionMatches(calls[k], "INITIATED")
  <2>1. Moved(w, "initiated")
    BY <1>1, <1>4, Moves DEF MarkInitiated, WorkerPcs, Paired, Prepared, Sending
  <2>2. ~Dialled(calls[k])
    <3>1. calls[k] \in CallDocs /\ "INITIATED" \in CallState
      BY <1>1, DocumentTypes DEF CallState, CALL_STATE_RANK
    <3> QED BY <1>4, <3>1, CallMovesAlong DEF Dialled
  <2>3. Dialled(calls'[k]) /\ calls'[k] # NULL
    BY <1>1, <1>2, <1>4 DEF CallsKeep, Dialled
  <2> HIDE DEF k
  <2>4. KeyOf(w)' = k /\ worker'[w].pc = "initiated"
    BY <2>1 DEF Moved, k
  <2>5. \A v \in Workers \ {w} : worker'[v] = worker[v] /\ KeyOf(v)' = KeyOf(v)
    BY <2>1 DEF Moved
  <2>6. WorkersKeep
    BY <2>1, <2>3, <2>4, <2>5 DEF Moved, WorkersKeep
  <2>7. provider[k] = NULL /\ UNCHANGED provider
    BY <1>1, <2>2 DEF DialInv, ProviderIsLast, MarkInitiated
  <2>8. \A v \in Workers \ {w} : worker[v].pc \in Sending => KeyOf(v) # k
    BY <2>2 DEF DialInv, ProviderIsLast
  <2>9. OneOriginatePerCall'
    BY <2>4, <2>5, <2>7, <2>8 DEF OneOriginatePerCall, DialInv, Sending
  <2> QED BY <1>2, <2>6, <2>9, Untouched, StepInv DEF MarkInitiated, AllKeep
<1> QED BY <1>3, <1>4

LEMMA BindCallInv ==
  ASSUME DialInv, NEW w \in Workers, BindCall(w)
  PROVE  DialInv' /\ Moved(w, "originating")
<1> DEFINE k == KeyOf(w)
           a == worker[w].agent
           doc == bind_call(agents[a], w, k)
<1>1. /\ k \in Keys /\ calls[k] # NULL /\ a \in Agents
      /\ worker[w].pc = "binding" /\ worker[w].pc \in Sending
      /\ worker[w].pc \in Prepared /\ worker[w].pc \in Paired
  BY KeyIsKey DEF BindCall, At, Begun, Paired, Prepared, Sending, DialInv, NamedCallsExist, HandsFull
<1>2. Moved(w, "originating")
  BY <1>1, Moves DEF BindCall, WorkerPcs, Paired, Prepared, Sending
<1>3. WorkersKeep /\ NobodyNearer
  BY <1>1, <1>2, MovesBack DEF WorkerPcs
<1>4. CallsKeep /\ UNCHANGED calls
  BY Untouched DEF BindCall
<1>5. AgentsKeep
  <2>1. doc \in AgentDocs /\ doc.current_call_id \in {agents[a].current_call_id, k}
    BY <1>1, DocumentTypes, BindBinds
  <2>2. TypeOK /\ AgentBecomes(a, doc)
    BY DEF BindCall, DialInv
  <2> HIDE DEF doc, a, k
  <2>3. /\ agents' \in [Agents -> AgentDocs]
        /\ agents'[a].current_call_id = doc.current_call_id
        /\ \A x \in Agents \ {a} : agents'[x] = agents[x]
    BY <1>1, <2>1, <2>2, AgentWritten
  <2> QED BY <1>1, <1>4, <2>1, <2>3 DEF AgentsKeep
<1> QED BY <1>2, <1>3, <1>4, <1>5, Untouched, QuietStep DEF BindCall, AllKeep

\* Whatever is swapped and doubled, a script is a sequence of events.
LEMMA ScriptsAreScripts ==
  ASSUME NEW answered \in BOOLEAN, NEW script \in Scripts(answered)
  PROVE  script \in Seq(EventTypes)
<1> DEFINE plain == IF answered THEN <<"RINGING", "ANSWERED", "CONNECTED", "COMPLETED">>
                                ELSE <<"RINGING", "FAILED">>
<1>1. plain \in Seq(EventTypes)
  <2>1. /\ "RINGING" \in EventTypes /\ "ANSWERED" \in EventTypes /\ "CONNECTED" \in EventTypes
        /\ "COMPLETED" \in EventTypes /\ "FAILED" \in EventTypes
    BY DEF EventTypes
  <2>2. <<"RINGING", "ANSWERED", "CONNECTED", "COMPLETED">> \in Seq(EventTypes)
    BY <2>1
  <2>3. <<"RINGING", "FAILED">> \in Seq(EventTypes)
    BY <2>1
  <2> QED BY <2>2, <2>3
<1>2. PICK s \in Swapped(plain) : script \in Doubled(s)
  <2> HIDE DEF plain
  <2> QED BY DEF Scripts, plain
<1> HIDE DEF plain
<1>3. s \in Seq(EventTypes)
  <2>1. CASE s = plain
    BY <1>1, <2>1
  <2>2. CASE \E i \in 1 .. Len(plain) - 1 :
               s = [plain EXCEPT ![i] = plain[i + 1], ![i + 1] = plain[i]]
    <3>1. PICK i \in 1 .. Len(plain) - 1 :
                 s = [plain EXCEPT ![i] = plain[i + 1], ![i + 1] = plain[i]]
      BY <2>2
    <3>2. /\ Len(plain) \in Nat /\ plain \in [1 .. Len(plain) -> EventTypes]
          /\ i \in 1 .. Len(plain) /\ i + 1 \in 1 .. Len(plain)
      BY <1>1
    <3>3. plain[i] \in EventTypes /\ plain[i + 1] \in EventTypes
      BY <3>2
    <3>4. s \in [1 .. Len(plain) -> EventTypes]
      BY <3>1, <3>2, <3>3
    <3> QED BY <3>2, <3>4, SeqDef
  <2> QED BY <1>2, <2>1, <2>2 DEF Swapped
<1>4. CASE script = s
  BY <1>3, <1>4
<1>5. CASE \E i \in 1 .. Len(s) : script = SubSeq(s, 1, i) \o SubSeq(s, i, Len(s))
  <2>1. PICK i \in 1 .. Len(s) : script = SubSeq(s, 1, i) \o SubSeq(s, i, Len(s))
    BY <1>5
  <2>2. SubSeq(s, 1, i) \in Seq(EventTypes) /\ SubSeq(s, i, Len(s)) \in Seq(EventTypes)
    BY <1>3, SubSeqProperties
  <2> QED BY <2>1, <2>2, ConcatProperties
<1> QED BY <1>2, <1>4, <1>5 DEF Doubled

LEMMA OriginateInv ==
  ASSUME DialInv, NEW w \in Workers, Originate(w)
  PROVE  DialInv' /\ Moved(w, "accepted")
<1> DEFINE k == KeyOf(w)
<1>1. /\ k \in Keys /\ Dialled(calls[k])
      /\ worker[w].pc = "originating" /\ worker[w].pc \in Sending
      /\ worker[w].pc \in Prepared /\ worker[w].pc \in Paired
  BY KeyIsKey DEF Originate, At, Begun, Paired, Prepared, Sending, DialInv, ProviderIsLast
<1>2. Moved(w, "accepted")
  BY <1>1, Moves DEF Originate, WorkerPcs, Paired, Prepared, Sending
<1>a. PICK answered \in BOOLEAN : \E script \in Scripts(answered) :
         provider' = [provider EXCEPT ![k] =
           [by |-> w, todo |-> script, answered |-> answered, status |-> "ACTIVE"]]
  BY DEF Originate
<1>3. PICK script \in Scripts(answered) :
         provider' = [provider EXCEPT ![k] =
           [by |-> w, todo |-> script, answered |-> answered, status |-> "ACTIVE"]]
  BY <1>a
<1> DEFINE call == [by |-> w, todo |-> script, answered |-> answered, status |-> "ACTIVE"]
<1>4. call \in ProviderCall /\ call # NULL
  BY ScriptsAreScripts, DocumentAssumption DEF ProviderCall, ProviderStatus
<1> HIDE DEF call
<1>5. /\ provider \in [Keys -> ProviderCall \cup {NULL}]
      /\ provider' = [provider EXCEPT ![k] = call]
  BY <1>3 DEF DialInv, TypeOK, call
<1> HIDE DEF k
<1>6. /\ provider' \in [Keys -> ProviderCall \cup {NULL}] /\ provider'[k] # NULL
      /\ \A h \in Keys \ {k} : provider'[h] = provider[h]
  BY <1>1, <1>4, <1>5
<1>7. ProviderKeeps
  BY <1>1, <1>6 DEF ProviderKeeps
<1>8. KeyOf(w)' = k /\ worker'[w].pc = "accepted"
  BY <1>2 DEF Moved, k
<1>9. \A v \in Workers \ {w} : worker'[v] = worker[v] /\ KeyOf(v)' = KeyOf(v)
  BY <1>2 DEF Moved
<1>10. WorkersKeep
  BY <1>1, <1>2, <1>6, <1>8, <1>9 DEF Moved, WorkersKeep, k
<1>11. HandlersKeep
  BY <1>1, <1>6 DEF HandlersKeep, HandlersFull, DialInv, TypeOK, Originate
<1>12. OneOriginatePerCall'
  <2>1. \A v \in Workers : worker'[v].pc \in {"initiated", "binding", "originating"} =>
          v # w /\ worker[v].pc \in {"initiated", "binding", "originating"}
          /\ KeyOf(v)' = KeyOf(v) /\ KeyOf(v) \in Keys
    BY <1>8, <1>9, KeyIsKey DEF Paired, Prepared, Sending
  <2>2. \A v \in Workers \ {w} :
          worker[v].pc \in {"initiated", "binding", "originating"} => KeyOf(v) # k
    BY <1>1 DEF DialInv, OneOriginatePerCall, k
  <2> QED BY <2>1, <2>2, <1>6 DEF OneOriginatePerCall, DialInv
<1> QED BY <1>2, <1>7, <1>10, <1>11, <1>12, Untouched, StepInv DEF Originate, AllKeep

\* What a worker that is on its way has.
LEMMA WorkerHas ==
  ASSUME DialInv, NEW w \in Workers
  PROVE  /\ worker[w].pc \in Begun => worker[w].agent \in Agents
         /\ worker[w].pc \in Paired => worker[w].borrower \in Borrowers /\ KeyOf(w) \in Keys
         /\ worker[w].pc \in Prepared => calls[KeyOf(w)] # NULL
         /\ worker[w].pc = "accepted" => provider[KeyOf(w)] # NULL
         /\ worker[w].outcome \in BorrowerReleaseOutcome
  BY KeyIsKey DEF DialInv, HandsFull, NamedCallsExist, ProviderIsLast, TypeOK, Dial

LEMMA GivesBack ==
  ASSUME DialInv, NEW w \in Workers, worker[w].pc \in Paired,
         NEW outcome \in BorrowerReleaseOutcome, GiveBack(w, outcome)
  PROVE  Moved(w, "release_agent") /\ WorkersKeep /\ NobodyNearer
<1>1. Moved(w, "release_agent")
  BY Moves DEF WorkerPcs, Paired
<1> QED BY <1>1, MovesBack DEF WorkerPcs, Prepared, Sending

\* Every other step of an allocator.
LEMMA ProceedInv ==
  ASSUME DialInv, NEW w \in Workers, Proceed(w)
  PROVE  DialInv'
<1> USE DEF AllKeep
<1>1. CASE NoBorrower(w)
  <2>1. Moved(w, "undo_agent")
    BY <1>1, Moves DEF NoBorrower, At, WorkerPcs, Begun, Paired, Prepared, Sending
  <2>2. WorkersKeep /\ NobodyNearer
    BY <2>1, MovesBack DEF WorkerPcs, Prepared, Sending
  <2> QED BY <1>1, <2>2, Untouched, QuietStep DEF NoBorrower
<1>2. CASE UndoAgent(w)
  <2>1. worker[w].agent \in Agents
    BY <1>2, WorkerHas DEF UndoAgent, At, Begun
  <2>2. Follows(release_agent(agents[worker[w].agent], w, "AVAILABLE", "ALLOCATOR"),
                agents[worker[w].agent])
    BY <2>1, DocumentTypes, ReleaseFollows DEF AgentState
  <2>3. AgentsKeep
    BY <1>2, <2>1, <2>2, AgentKept DEF UndoAgent
  <2> QED BY <1>2, <2>3, Returns, Untouched, QuietStep DEF UndoAgent
<1>3. CASE CreateCall(w)
  BY <1>3, CreateCallInv
<1>4. CASE CallExists(w)
  <2>1. WorkersKeep /\ NobodyNearer
    BY <1>4, GivesBack DEF CallExists, At, Paired, BorrowerReleaseOutcome
  <2> QED BY <1>4, <2>1, Untouched, QuietStep DEF CallExists
<1>5. CASE MarkReserved(w)
  <2>1. KeyOf(w) \in Keys /\ calls[KeyOf(w)] # NULL
    BY <1>5, WorkerHas DEF MarkReserved, At, Prepared, Paired
  <2>2. CallsKeep
    BY <1>5, <2>1, CallKept DEF MarkReserved, CallState, CALL_STATE_RANK
  <2>3. Moved(w, "reserved")
    BY <1>5, Moves DEF MarkReserved, At, WorkerPcs, Paired, Prepared
  <2>4. WorkersKeep /\ NobodyNearer
    BY <1>5, <2>3, MovesBack DEF MarkReserved, At, WorkerPcs, Prepared, Sending
  <2> QED BY <1>5, <2>2, <2>4, Untouched, QuietStep DEF MarkReserved
<1>6. CASE MarkInitiated(w)
  BY <1>6, MarkInitiatedInv
<1>7. CASE MarkDialing(w)
  <2> DEFINE doc == transition_agent(agents[worker[w].agent], "RESERVED", "DIALING", "ALLOCATOR",
                                     worker[w].version)
  <2>1. worker[w].agent \in Agents
    BY <1>7, WorkerHas DEF MarkDialing, At, Begun, Paired, Prepared, Sending
  <2>2. Follows(doc, agents[worker[w].agent])
    BY <2>1, DocumentTypes, TransitionFollows DEF AgentState
  <2>3. AgentsKeep
    BY <1>7, <2>1, <2>2, AgentKept DEF MarkDialing
  <2>4. Moved(w, "binding")
    BY <1>7, Moves DEF MarkDialing, At, WorkerPcs, Paired, Prepared, Sending
  <2>5. WorkersKeep /\ NobodyNearer
    BY <1>7, <2>4, MovesBack DEF MarkDialing, At, WorkerPcs, Prepared, Sending
  <2> QED BY <1>7, <2>3, <2>5, Untouched, QuietStep DEF MarkDialing
<1>8. CASE BindCall(w)
  BY <1>8, BindCallInv
<1>9. CASE Originate(w)
  BY <1>9, OriginateInv
<1>10. CASE OriginateFails(w)
  <2>1. worker[w].pc \in Paired /\ KeyOf(w) \in Keys /\ calls[KeyOf(w)] # NULL
    BY <1>10, WorkerHas DEF OriginateFails, At, Sending, Prepared, Paired
  <2>2. CallsKeep
    BY <1>10, <2>1, CallKept DEF OriginateFails, CallState, CALL_STATE_RANK
  <2>3. WorkersKeep /\ NobodyNearer
    BY <1>10, <2>1, GivesBack DEF OriginateFails, BorrowerReleaseOutcome
  <2> QED BY <1>10, <2>2, <2>3, Untouched, QuietStep DEF OriginateFails
<1>11. CASE Attach(w)
  <2>1. KeyOf(w) \in Keys /\ calls[KeyOf(w)] # NULL /\ provider[KeyOf(w)] # NULL
    BY <1>11, WorkerHas DEF Attach, At, Sending, Prepared, Paired
  <2>2. CallsKeep
    BY <1>11, <2>1, CallAttached DEF Attach
  <2> QED BY <1>11, <2>2, Returns, Untouched, QuietStep DEF Attach
<1>12. CASE ReleaseAgent(w)
  <2> DEFINE doc == release_agent(agents[worker[w].agent], w, "AVAILABLE", "ALLOCATOR")
  <2>1. worker[w].agent \in Agents
    BY <1>12, WorkerHas DEF ReleaseAgent, At, Begun, Paired
  <2>2. Follows(doc, agents[worker[w].agent])
    BY <2>1, DocumentTypes, ReleaseFollows DEF AgentState
  <2>3. AgentsKeep
    BY <1>12, <2>1, <2>2, AgentKept DEF ReleaseAgent
  <2>4. Moved(w, "release_borrower")
    BY <1>12, Moves DEF ReleaseAgent, At, WorkerPcs, Paired
  <2>5. WorkersKeep /\ NobodyNearer
    BY <2>4, MovesBack DEF WorkerPcs, Prepared, Sending
  <2> QED BY <1>12, <2>3, <2>5, Untouched, QuietStep DEF ReleaseAgent
<1>13. CASE ReleaseBorrower(w)
  <2> DEFINE doc == release_borrower(borrowers[worker[w].borrower], w, worker[w].outcome, NOW)
  <2>1. worker[w].borrower \in Borrowers /\ worker[w].outcome \in BorrowerReleaseOutcome
    BY <1>13, WorkerHas DEF ReleaseBorrower, At, Paired
  <2>2. doc \in BorrowerDocs /\ Dialable(doc)
    BY <2>1, DocumentTypes, BorrowerReleased
  <2>3. BorrowerBecomes(worker[w].borrower, doc)
    BY <1>13 DEF ReleaseBorrower
  <2> HIDE DEF doc
  <2>4. BorrowersKeep
    BY <2>1, <2>2, <2>3, BorrowerKept
  <2> QED BY <1>13, <2>4, Returns, Untouched, QuietStep DEF ReleaseBorrower
<1>14. CASE \E b \in Borrowers : ClaimBorrower(w, b)
  BY <1>14, ClaimBorrowerInv
<1> QED
  BY <1>1, <1>2, <1>3, <1>4, <1>5, <1>6, <1>7, <1>8, <1>9, <1>10, <1>11, <1>12, <1>13, <1>14
     DEF Proceed

LEMMA RetryGateClosesInv ==
  ASSUME DialInv, NEW w \in Workers, RetryGateCloses(w)
  PROVE  DialInv'
<1>1. WorkersKeep /\ NobodyNearer
  BY GivesBack DEF RetryGateCloses, At, Paired, BorrowerReleaseOutcome
<1> QED BY <1>1, Untouched, QuietStep DEF RetryGateCloses, AllKeep

--------------------------------------------------------------------------------------
(* Failures of a worker.                                                                 *)

\* The provider forgets what it was to do for some calls, and their handlers stop.
LEMMA ProviderStops ==
  ASSUME DialInv, NEW own \in SUBSET Keys, \A k \in own : provider[k] # NULL,
         NEW status \in ProviderStatus,
         provider' = [k \in Keys |-> IF k \in own
                        THEN [provider[k] EXCEPT !.todo = <<>>, !.status = status]
                        ELSE provider[k]],
         handler' = [k \in Keys |-> IF k \in own THEN NoEvent ELSE handler[k]]
  PROVE  ProviderKeeps /\ NoNewCall /\ HandlersKeep
<1>1. provider \in [Keys -> ProviderCall \cup {NULL}] /\ handler \in [Keys -> EventInHand]
  BY DEF DialInv, TypeOK
<1>2. ASSUME NEW k \in own
      PROVE  LET call == [provider[k] EXCEPT !.todo = <<>>, !.status = status] IN
             call \in ProviderCall /\ call # NULL
  <2> DEFINE call == [provider[k] EXCEPT !.todo = <<>>, !.status = status]
  <2>1. provider[k] \in ProviderCall
    BY <1>1
  <2>2. <<>> \in Seq(EventTypes)
    BY EmptySeq
  <2>3. call \in ProviderCall
    BY <2>1, <2>2 DEF ProviderCall
  <2> QED BY <2>3, DocumentAssumption
<1>3. ProviderKeeps /\ NoNewCall
  BY <1>1, <1>2 DEF ProviderKeeps, NoNewCall
<1>4. NoEvent \in EventInHand /\ NoEvent.pc = "idle"
  BY DEF NoEvent, EventInHand
<1>5. HandlersKeep
  BY <1>1, <1>3, <1>4 DEF HandlersKeep, HandlersFull, ProviderKeeps, DialInv
<1> QED BY <1>3, <1>5

LEMMA WorkerFaultInv ==
  ASSUME DialInv, NEW w \in Workers,
         AttachFails(w) \/ StopDial(w) \/ DbError(w) \/ Crash(w)
  PROVE  DialInv'
<1> USE DEF AllKeep
<1>1. CASE AttachFails(w)
  <2> DEFINE k == KeyOf(w)
  <2>1. /\ worker[w].pc \in Paired /\ k \in Keys /\ calls[k] # NULL /\ provider[k] # NULL
    BY <1>1, WorkerHas DEF AttachFails, At, Sending, Prepared, Paired
  <2>2. CallsKeep
    BY <1>1, <2>1, CallKept DEF AttachFails, CallState, CALL_STATE_RANK
  <2>3. WorkersKeep /\ NobodyNearer
    BY <1>1, <2>1, GivesBack DEF AttachFails, BorrowerReleaseOutcome
  <2>4. ProviderKeeps /\ NoNewCall /\ HandlersKeep
    <3>1. provider' = [h \in Keys |-> IF h \in {k}
                         THEN [provider[h] EXCEPT !.todo = <<>>, !.status = "COMPLETED"]
                         ELSE provider[h]]
      BY <1>1, <2>1 DEF AttachFails, DialInv, TypeOK
    <3>2. handler' = [h \in Keys |-> IF h \in {k} THEN NoEvent ELSE handler[h]]
      BY <1>1, <2>1 DEF AttachFails, DialInv, TypeOK
    <3> HIDE DEF k
    <3> QED BY <2>1, <3>1, <3>2, ProviderStops DEF ProviderStatus
  <2> QED BY <1>1, <2>2, <2>3, <2>4, Untouched, QuietStep DEF AttachFails
<1>2. CASE StopDial(w)
  <2>1. worker[w].pc \in Paired
    BY <1>2 DEF StopDial, Paired, Prepared, Sending
  <2>2. WorkersKeep /\ NobodyNearer
    BY <1>2, <2>1, GivesBack DEF StopDial, BorrowerReleaseOutcome
  <2>3. CallsKeep
    <3>1. CASE At(w, "accepted") /\ calls' = [calls EXCEPT ![KeyOf(w)] = attach_provider_call_id(@)]
      BY <2>1, <3>1, WorkerHas, CallAttached DEF At, Sending, Prepared
    <3> QED BY <1>2, <3>1, Untouched DEF StopDial
  <2> QED BY <1>2, <2>2, <2>3, Untouched, QuietStep DEF StopDial
<1>3. CASE DbError(w)
  BY <1>3, Returns, Untouched, QuietStep DEF DbError
<1>4. CASE Crash(w)
  <2> DEFINE own == { k \in Keys : provider[k] # NULL /\ provider[k].by = w }
  <2>1. WorkersKeep /\ NobodyNearer
    BY <1>4, Resets DEF Crash
  <2>2. ProviderKeeps /\ NoNewCall /\ HandlersKeep
    <3>1. own \in SUBSET Keys /\ \A k \in own : provider[k] # NULL
      OBVIOUS
    <3>2. /\ provider' = [k \in Keys |-> IF k \in own
                           THEN [provider[k] EXCEPT !.todo = <<>>, !.status = "UNKNOWN"]
                           ELSE provider[k]]
          /\ handler' = [k \in Keys |-> IF k \in own THEN NoEvent ELSE handler[k]]
      BY <1>4 DEF Crash
    <3> HIDE DEF own
    <3> QED BY <3>1, <3>2, ProviderStops DEF ProviderStatus
  <2> QED BY <1>4, <2>1, <2>2, Untouched, QuietStep DEF Crash
<1> QED BY <1>1, <1>2, <1>3, <1>4

--------------------------------------------------------------------------------------
(* The provider and the event processor.                                                 *)

\* Every event moves an agent to one of its states.
LEMMA EventTables ==
  ASSUME NEW event \in EventTypes
  PROVE  event \in CallState /\ AGENT_STATE_FOR_CALL_STATE[event] \in AgentState
  BY DEF EventTypes, CallState, CALL_STATE_RANK, AGENT_STATE_FOR_CALL_STATE, AgentState

LEMMA HandlerHas ==
  ASSUME DialInv, NEW k \in Keys, handler[k].pc # "idle"
  PROVE  /\ handler[k].event \in EventTypes /\ handler[k] \in EventInHand
         /\ provider[k] # NULL /\ calls[k] # NULL /\ calls[k] \in CallDocs /\ Dialled(calls[k])
         /\ agents[k.agent] \in AgentDocs /\ k.agent \in Agents /\ k.borrower \in Borrowers
<1>1. k.agent \in Agents /\ k.borrower \in Borrowers
  BY DEF Keys
<1> QED BY <1>1, DocumentTypes DEF DialInv, HandlersFull, ProviderIsLast, Dialled, TypeOK

\* The handler of k is at p, with what it has read, or it is done.
HandlerAt(k, p) ==
  /\ handler' \in [Keys -> EventInHand]
  /\ handler'[k].pc = p
  /\ p # "idle" => handler'[k].event = handler[k].event
  /\ \A h \in Keys \ {k} : handler'[h] = handler[h]

LEMMA HandlerMoves ==
  ASSUME DialInv, NEW k \in Keys,
         NEW p \in {"lookup", "apply", "read", "cas", "agent", "borrower"}
  PROVE  /\ NextStep(k, p) => HandlerAt(k, p)
         /\ EventDone(k) => HandlerAt(k, "idle")
<1>1. handler \in [Keys -> EventInHand]
  BY DEF DialInv, TypeOK
<1>2. NoEvent \in EventInHand /\ NoEvent.pc = "idle"
  BY DEF NoEvent, EventInHand
<1>3. ASSUME NextStep(k, p) PROVE HandlerAt(k, p)
  <2> DEFINE new == [handler[k] EXCEPT !.pc = p]
  <2>1. new \in EventInHand /\ new.pc = p /\ new.event = handler[k].event
    BY <1>1 DEF EventInHand
  <2>2. handler' = [handler EXCEPT ![k] = new]
    BY <1>3 DEF NextStep
  <2> HIDE DEF new
  <2> QED BY <1>1, <2>1, <2>2 DEF HandlerAt
<1>4. EventDone(k) => HandlerAt(k, "idle")
  BY <1>1, <1>2 DEF EventDone, HandlerAt
<1> QED BY <1>3, <1>4

LEMMA HandlerKept ==
  ASSUME DialInv, NEW k \in Keys, handler[k].pc # "idle", NEW p, HandlerAt(k, p), ProviderKeeps,
         p \in {"agent", "borrower"} => is_terminal(handler[k].event)
  PROVE  HandlersKeep
  BY HandlerHas DEF HandlerAt, HandlersKeep, HandlersFull, ProviderKeeps, DialInv

\* What ReadAgent decides: an agent that is where the call wants it is left alone, and the
\* end of a call goes on to the borrower.
LEMMA ReadAgentDecides ==
  ASSUME DialInv, NEW k \in Keys, ReadAgent(k)
  PROVE  \E p \in {"idle", "cas", "agent", "borrower"} :
           HandlerAt(k, p) /\ (p \in {"agent", "borrower"} <=> is_terminal(handler[k].event))
<1> DEFINE ag == agents[k.agent]
           wanted == AGENT_STATE_FOR_CALL_STATE[handler[k].event]
           ends == is_terminal(handler[k].event)
<1>1. /\ handler[k].pc # "idle" /\ handler[k].event \in EventTypes
      /\ ag \in AgentDocs /\ wanted \in AgentState
  BY HandlerHas, EventTables DEF ReadAgent, Handling
<1>2. CASE ends /\ ag.state = wanted
  BY <1>2, HandlerMoves DEF ReadAgent
<1>3. CASE ends /\ ag.state # wanted
  BY <1>3, HandlerMoves DEF ReadAgent
<1>4. CASE ~ends /\ ag.state = wanted
  BY <1>4, HandlerMoves DEF ReadAgent
<1>5. CASE ~ends /\ ag.state # wanted
  <2> DEFINE new == [handler[k] EXCEPT !.pc = "cas", !.state = ag.state,
                                       !.version = ag.state_version]
  <2>1. handler \in [Keys -> EventInHand] /\ handler' = [handler EXCEPT ![k] = new]
    BY <1>5 DEF ReadAgent, DialInv, TypeOK
  <2>2. ag.state \in AgentState /\ ag.state_version \in Nat
    BY <1>1 DEF AgentDocs, AgentDoc
  <2>3. new \in EventInHand /\ new.pc = "cas" /\ new.event = handler[k].event
    BY <2>1, <2>2 DEF EventInHand
  <2> HIDE DEF new
  <2>4. HandlerAt(k, "cas")
    BY <2>1, <2>3 DEF HandlerAt
  <2> QED BY <1>5, <2>4
<1> QED BY <1>2, <1>3, <1>4, <1>5

LEMMA DeliverInv ==
  ASSUME DialInv, NEW k \in Keys, Deliver(k)
  PROVE  /\ DialInv'
         /\ \A h \in Keys \ {k} : handler'[h] = handler[h]
         /\ handler' = handler \/ handler'[k].pc = "lookup"
<1> DEFINE event == Head(provider[k].todo)
           call == [provider[k] EXCEPT !.todo = Tail(provider[k].todo)]
           new == [handler[k] EXCEPT !.pc = "lookup", !.event = event]
<1>1. /\ provider \in [Keys -> ProviderCall \cup {NULL}] /\ handler \in [Keys -> EventInHand]
      /\ recorded \in [Keys -> SUBSET EventTypes]
      /\ provider[k] # NULL /\ provider[k] \in ProviderCall /\ provider[k].todo # <<>>
  BY DEF Deliver, DialInv, TypeOK
<1>2. provider[k].todo \in Seq(EventTypes)
  BY <1>1 DEF ProviderCall
<1>3. event \in EventTypes /\ Tail(provider[k].todo) \in Seq(EventTypes)
  BY <1>1, <1>2, HeadTailProperties
<1>4. call \in ProviderCall /\ call # NULL
  <2>1. call \in ProviderCall
    BY <1>1, <1>3 DEF ProviderCall
  <2> QED BY <2>1, DocumentAssumption
<1>5. provider' = [provider EXCEPT ![k] = call]
  BY DEF Deliver
<1> HIDE DEF call
<1>6. ProviderKeeps /\ NoNewCall /\ provider'[k] # NULL
  BY <1>1, <1>4, <1>5 DEF ProviderKeeps, NoNewCall
<1>7. new \in EventInHand /\ new.pc = "lookup" /\ new.event = event
  BY <1>1, <1>3 DEF EventInHand
<1>8. handler' = handler \/ handler' = [handler EXCEPT ![k] = new]
  BY DEF Deliver
<1> HIDE DEF new, event
<1>9. HandlersKeep
  <2>1. CASE handler' = handler
    BY <2>1, <1>6, Untouched
  <2>2. CASE handler' = [handler EXCEPT ![k] = new]
    BY <2>2, <1>1, <1>3, <1>6, <1>7 DEF HandlersKeep, HandlersFull, ProviderKeeps, DialInv
  <2> QED BY <1>8, <2>1, <2>2
<1>10. RestKeeps
  <2>1. recorded' = [recorded EXCEPT ![k] = recorded[k] \cup {event}]
    BY DEF Deliver, event
  <2> QED BY <1>1, <1>3, <2>1 DEF Deliver, RestKeeps, DialInv, TypeOK
<1>11. DialInv'
  BY <1>6, <1>9, <1>10, Untouched, QuietStep DEF Deliver, AllKeep
<1> QED BY <1>1, <1>7, <1>8, <1>11

LEMMA ProcessInv ==
  ASSUME DialInv, NEW k \in Keys, Process(k)
  PROVE  DialInv'
<1> USE DEF AllKeep
<1>1. CASE Deliver(k)
  BY <1>1, DeliverInv
<1>2. CASE ProviderFinishes(k)
  <2> DEFINE end == IF provider[k].answered THEN "COMPLETED" ELSE "FAILED"
             call == [provider[k] EXCEPT !.status = end]
  <2>1. /\ provider \in [Keys -> ProviderCall \cup {NULL}]
        /\ provider[k] # NULL /\ provider[k] \in ProviderCall
    BY <1>2 DEF ProviderFinishes, DialInv, TypeOK
  <2>2. end \in ProviderStatus
    BY DEF ProviderStatus
  <2>3. call \in ProviderCall /\ call # NULL
    <3> HIDE DEF end
    <3>1. call \in ProviderCall
      BY <2>1, <2>2 DEF ProviderCall
    <3> QED BY <3>1, DocumentAssumption
  <2>4. provider' = [provider EXCEPT ![k] = call]
    BY <1>2 DEF ProviderFinishes
  <2> HIDE DEF call
  <2>5. ProviderKeeps /\ NoNewCall
    BY <2>1, <2>3, <2>4 DEF ProviderKeeps, NoNewCall
  <2> QED BY <1>2, <2>5, Untouched, QuietStep DEF ProviderFinishes
<1>3. CASE LookupCall(k)
  <2>1. handler[k].pc = "lookup"
    BY <1>3 DEF LookupCall, Handling
  <2>2. HandlerAt(k, "apply") \/ HandlerAt(k, "idle")
    BY <1>3, HandlerMoves DEF LookupCall
  <2>3. HandlersKeep
    BY <1>3, <2>1, <2>2, HandlerKept, Untouched DEF LookupCall
  <2> QED BY <1>3, <2>3, Untouched, QuietStep DEF LookupCall
<1>4. CASE ApplyEvent(k)
  <2>1. handler[k].pc = "apply"
    BY <1>4 DEF ApplyEvent, Handling
  <2>2. HandlerAt(k, "read") \/ HandlerAt(k, "idle")
    BY <1>4, HandlerMoves DEF ApplyEvent
  <2>3. HandlersKeep
    BY <1>4, <2>1, <2>2, HandlerKept, Untouched DEF ApplyEvent
  <2>4. CallsKeep
    BY <1>4, <2>1, HandlerHas, EventTables, CallKept DEF ApplyEvent
  <2> QED BY <1>4, <2>3, <2>4, Untouched, QuietStep DEF ApplyEvent
<1>5. CASE ReadAgent(k)
  <2>1. handler[k].pc = "read"
    BY <1>5 DEF ReadAgent, Handling
  <2>2. HandlersKeep
    BY <1>5, <2>1, ReadAgentDecides, HandlerKept, Untouched DEF ReadAgent
  <2> QED BY <1>5, <2>2, Untouched, QuietStep DEF ReadAgent
<1>6. CASE MoveAgent(k)
  <2>1. handler[k].pc = "cas"
    BY <1>6 DEF MoveAgent, Handling
  <2>2. HandlersKeep
    BY <1>6, <2>1, HandlerMoves, HandlerKept, Untouched DEF MoveAgent
  <2> DEFINE doc == transition_agent(agents[k.agent], handler[k].state,
                      AGENT_STATE_FOR_CALL_STATE[handler[k].event], "EVENT_PROCESSOR",
                      handler[k].version)
  <2>3. k.agent \in Agents /\ Follows(doc, agents[k.agent])
    BY <2>1, HandlerHas, EventTables, TransitionFollows
  <2>4. AgentBecomes(k.agent, doc)
    BY <1>6 DEF MoveAgent
  <2> HIDE DEF doc
  <2>5. AgentsKeep
    BY <2>3, <2>4, AgentKept
  <2> QED BY <1>6, <2>2, <2>5, Untouched, QuietStep DEF MoveAgent
<1>7. CASE EndAgent(k)
  <2>1. handler[k].pc = "agent"
    BY <1>7 DEF EndAgent, Handling
  <2>2. HandlersKeep
    <3>1. is_terminal(handler[k].event)
      BY <2>1 DEF DialInv, HandlersFull
    <3> QED BY <1>7, <2>1, <3>1, HandlerMoves, HandlerKept, Untouched DEF EndAgent
  <2> DEFINE doc == release_agent(agents[k.agent], calls[k].created_by_worker,
                      AGENT_STATE_FOR_CALL_STATE[handler[k].event], "EVENT_PROCESSOR")
  <2>3. k.agent \in Agents /\ Follows(doc, agents[k.agent])
    BY <2>1, HandlerHas, EventTables, ReleaseFollows
  <2>4. AgentBecomes(k.agent, doc)
    BY <1>7 DEF EndAgent
  <2> HIDE DEF doc
  <2>5. AgentsKeep
    BY <2>3, <2>4, AgentKept
  <2> QED BY <1>7, <2>2, <2>5, Untouched, QuietStep DEF EndAgent
<1>8. CASE EndBorrower(k)
  <2>1. handler[k].pc = "borrower"
    BY <1>8 DEF EndBorrower, Handling
  <2>2. HandlersKeep
    BY <1>8, <2>1, HandlerMoves, HandlerKept, Untouched DEF EndBorrower
  <2> DEFINE doc == release_borrower(borrowers[k.borrower], calls[k].created_by_worker,
                                     OutcomeOf(k), NOW)
  <2>3. k.borrower \in Borrowers /\ OutcomeOf(k) \in BorrowerReleaseOutcome
    BY <2>1, HandlerHas DEF OutcomeOf, BorrowerReleaseOutcome
  <2>4. doc \in BorrowerDocs /\ Dialable(doc)
    BY <2>3, DocumentTypes, BorrowerReleased
  <2>5. BorrowerBecomes(k.borrower, doc)
    BY <1>8 DEF EndBorrower
  <2> HIDE DEF doc
  <2>6. BorrowersKeep
    BY <2>3, <2>4, <2>5, BorrowerKept
  <2> QED BY <1>8, <2>2, <2>6, Untouched, QuietStep DEF EndBorrower
<1> QED BY <1>1, <1>2, <1>3, <1>4, <1>5, <1>6, <1>7, <1>8 DEF Process

LEMMA HandlerFailsInv ==
  ASSUME DialInv, NEW k \in Keys, HandlerFails(k)
  PROVE  DialInv'
<1>1. HandlersKeep
  BY HandlerMoves, HandlerKept, Untouched DEF HandlerFails, Handling
<1> QED BY <1>1, Untouched, QuietStep DEF HandlerFails, AllKeep

--------------------------------------------------------------------------------------
(* The recovery worker.                                                                  *)

\* A sweep is over.
LEMMA SweepEnds ==
  ASSUME DialInv, rec' = NoSweep
  PROVE  SweepKeeps
<1>1. NoSweep \in Sweep /\ NoSweep.pc = "idle" /\ NoSweep.call = NULL
  BY DEF NoSweep, Sweep
<1> QED BY <1>1 DEF SweepKeeps, SweepFull

\* It goes on with what it has.
LEMMA SweepGoesOn ==
  ASSUME DialInv, NEW p \in {"give", "take", "orphan_agent", "orphan"},
         rec' = [rec EXCEPT !.pc = p],
         p \in {"give", "take"} => rec.agent \in Agents,
         p \in {"give", "orphan_agent", "orphan"} => rec.call \in Keys
  PROVE  SweepKeeps
<1>1. rec \in Sweep
  BY DEF DialInv, TypeOK
<1>2. /\ rec' \in Sweep /\ rec'.pc = p
      /\ rec'.agent = rec.agent /\ rec'.call = rec.call /\ rec'.target = rec.target
  BY <1>1 DEF Sweep
<1> QED BY <1>2 DEF SweepKeeps, SweepFull

\* A snapshot names the call its agent is bound to, and that call exists.
LEMMA SnapshotKept ==
  ASSUME DialInv, NEW a \in Agents, NEW to \in {"AVAILABLE", "OFFLINE"},
         rec' = Snapshot(a, to), UNCHANGED calls
  PROVE  SweepKeeps
<1>1. agents[a] \in AgentDocs
  BY DocumentTypes
<1>2. /\ agents[a].state \in AgentState /\ agents[a].state_version \in Nat
      /\ agents[a].current_call_id \in Keys \cup {NULL}
  BY <1>1 DEF AgentDocs, AgentDoc
<1>3. /\ rec' \in Sweep /\ rec'.pc = "cancel" /\ rec'.agent = a
      /\ rec'.call = agents[a].current_call_id
  BY <1>2 DEF Snapshot, NoSweep, Sweep
<1>4. rec'.call = NULL \/ calls'[rec'.call] # NULL
  BY <1>3 DEF DialInv, NamedCallsExist
<1> QED BY <1>3, <1>4 DEF SweepKeeps, SweepFull

LEMMA SweepCallInv ==
  ASSUME DialInv, NEW k \in Keys, SweepCall(k)
  PROVE  DialInv'
<1>1. calls[k] # NULL
  BY DEF SweepCall, Stale, CallOpen
<1>2. Reconciled(k) \in {"COMPLETED", "FAILED"}
  BY DEF Reconciled
<1>3. Reconciled(k) = "COMPLETED" => provider[k] # NULL
  BY <1>1 DEF Reconciled, DialInv, ProviderIsLast
<1>4. /\ rec' \in Sweep /\ rec'.pc = "settle" /\ rec'.call = k /\ rec'.target = Reconciled(k)
  BY <1>2 DEF SweepCall, NoSweep, Sweep, TERMINAL_CALL_STATES
<1>5. SweepKeeps
  BY <1>1, <1>2, <1>3, <1>4 DEF SweepKeeps, SweepFull, TERMINAL_CALL_STATES, SweepCall
<1> QED BY <1>5, Untouched, QuietStep DEF SweepCall, AllKeep

\* What the recovery worker has in hand.
LEMMA SweepHas ==
  ASSUME DialInv
  PROVE  /\ rec \in Sweep
         /\ rec.pc \in {"cancel", "give", "take"} => rec.agent \in Agents
         /\ rec.pc \in {"give", "settle", "orphan_agent", "orphan"} =>
              /\ rec.call \in Keys /\ calls[rec.call] # NULL
              /\ rec.call.agent \in Agents /\ rec.call.borrower \in Borrowers
         /\ rec.call # NULL => rec.call \in Keys /\ calls[rec.call] # NULL
         /\ rec.pc = "settle" => rec.target \in CallState
<1>1. rec \in Sweep /\ (rec.call # NULL => rec.call \in Keys /\ calls[rec.call] # NULL)
  BY DEF DialInv, TypeOK, Sweep, NamedCallsExist
<1>2. \A k \in Keys : k # NULL /\ k.agent \in Agents /\ k.borrower \in Borrowers
  BY DocumentAssumption DEF Keys
<1>3. TERMINAL_CALL_STATES \subseteq CallState
  BY DEF TERMINAL_CALL_STATES, CallState, CALL_STATE_RANK
<1> QED BY <1>1, <1>2, <1>3 DEF DialInv, SweepFull

LEMMA FinishSweepInv ==
  ASSUME DialInv, FinishSweep
  PROVE  DialInv'
<1> USE DEF AllKeep
<1>1. CASE CancelBoundCall
  <2> DEFINE cancels == rec.call # NULL /\ CallTransitionMatches(calls[rec.call], "CANCELLED")
  <2>1. CASE cancels
    <3>1. /\ rec.call \in Keys /\ calls[rec.call] # NULL
          /\ calls' = [calls EXCEPT ![rec.call] = transition_call(@, "CANCELLED")]
          /\ rec' = [rec EXCEPT !.pc = "give"]
      BY <1>1, <2>1, SweepHas DEF CancelBoundCall
    <3>2. CallsKeep
      BY <3>1, CallKept DEF CallState, CALL_STATE_RANK
    <3>3. SweepKeeps
      BY <1>1, <3>1, SweepHas, SweepGoesOn DEF CancelBoundCall
    <3> QED BY <1>1, <3>2, <3>3, Untouched, QuietStep DEF CancelBoundCall
  <2>2. CASE ~cancels
    <3>1. UNCHANGED calls /\ rec' = [rec EXCEPT !.pc = "take"]
      BY <1>1, <2>2 DEF CancelBoundCall
    <3>2. SweepKeeps
      BY <1>1, <3>1, SweepHas, SweepGoesOn DEF CancelBoundCall
    <3> QED BY <1>1, <3>1, <3>2, Untouched, QuietStep DEF CancelBoundCall
  <2> QED BY <2>1, <2>2
<1>2. CASE GiveBorrower
  <2> DEFINE b == rec.call.borrower
             doc == release_borrower(borrowers[b], calls[rec.call].created_by_worker, "RETRY", NOW)
  <2>1. b \in Borrowers
    BY <1>2, SweepHas DEF GiveBorrower
  <2>2. doc \in BorrowerDocs /\ Dialable(doc)
    BY <2>1, DocumentTypes, BorrowerReleased DEF BorrowerReleaseOutcome
  <2>3. BorrowerBecomes(b, doc)
    BY <1>2 DEF GiveBorrower
  <2> HIDE DEF doc
  <2>4. BorrowersKeep
    BY <2>1, <2>2, <2>3, BorrowerKept
  <2>5. SweepKeeps
    BY <1>2, SweepHas, SweepGoesOn, SweepEnds DEF GiveBorrower
  <2> QED BY <1>2, <2>4, <2>5, Untouched, QuietStep DEF GiveBorrower
<1>3. CASE TakeAgent
  <2> DEFINE a == rec.agent
             seen == [state |-> rec.state, state_version |-> rec.version]
             doc == IF rec.to = "AVAILABLE" THEN release_expired_agent_lease(agents[a], seen, NOW)
                    ELSE transition_agent(agents[a], rec.state, "OFFLINE", "RECOVERY", rec.version)
  <2>1. a \in Agents /\ agents[a] \in AgentDocs
    BY <1>3, SweepHas, DocumentTypes DEF TakeAgent
  <2>2. Follows(release_expired_agent_lease(agents[a], seen, NOW), agents[a])
    BY <2>1, ExpiredFollows
  <2>3. Follows(transition_agent(agents[a], rec.state, "OFFLINE", "RECOVERY", rec.version),
                agents[a])
    BY <2>1, TransitionFollows DEF AgentState
  <2>4. Follows(doc, agents[a])
    BY <2>2, <2>3
  <2>5. AgentBecomes(a, doc)
    BY <1>3 DEF TakeAgent
  <2> HIDE DEF doc
  <2>6. AgentsKeep
    BY <2>1, <2>4, <2>5, AgentKept
  <2>7. SweepKeeps
    BY <1>3, SweepEnds DEF TakeAgent
  <2> QED BY <1>3, <2>6, <2>7, Untouched, QuietStep DEF TakeAgent
<1>4. CASE SettleCall
  <2>1. rec.call \in Keys /\ calls[rec.call] # NULL /\ rec.target \in CallState
    BY <1>4, SweepHas DEF SettleCall
  <2>2. CallsKeep
    BY <1>4, <2>1, CallKept DEF SettleCall
  <2>3. SweepKeeps
    BY <1>4, <2>1, SweepGoesOn, SweepEnds DEF SettleCall
  <2> QED BY <1>4, <2>2, <2>3, Untouched, QuietStep DEF SettleCall
<1>5. CASE OrphanAgent
  <2> DEFINE a == rec.call.agent
             doc == release_agent(agents[a], calls[rec.call].created_by_worker, "AVAILABLE",
                                  "RECOVERY")
  <2>1. a \in Agents /\ rec.call \in Keys
    BY <1>5, SweepHas DEF OrphanAgent
  <2>2. Follows(doc, agents[a])
    BY <2>1, DocumentTypes, ReleaseFollows DEF AgentState
  <2>3. AgentBecomes(a, doc)
    BY <1>5 DEF OrphanAgent
  <2> HIDE DEF doc
  <2>4. AgentsKeep
    BY <2>1, <2>2, <2>3, AgentKept
  <2>5. SweepKeeps
    BY <1>5, <2>1, SweepGoesOn DEF OrphanAgent
  <2> QED BY <1>5, <2>4, <2>5, Untouched, QuietStep DEF OrphanAgent
<1> QED BY <1>1, <1>2, <1>3, <1>4, <1>5 DEF FinishSweep

LEMMA RecoveryStopsInv ==
  ASSUME DialInv, RecoveryStops
  PROVE  DialInv'
  BY SweepEnds, Untouched, QuietStep DEF RecoveryStops, AllKeep

--------------------------------------------------------------------------------------
(* Time, agents that come and go, and sweeps that begin.                                *)

LEMMA AgentStepInv ==
  ASSUME DialInv, NEW a \in Agents,
         SweepAgent(a) \/ SweepSilent(a) \/ LeaseLapses(a) \/ WrapUpEnds(a) \/ Leave(a) \/ Login(a)
  PROVE  DialInv'
<1> USE DEF AllKeep
<1>1. agents[a] \in AgentDocs
  BY DocumentTypes
<1>2. CASE SweepAgent(a)
  BY <1>2, SnapshotKept, Untouched, QuietStep DEF SweepAgent
<1>3. CASE SweepSilent(a)
  BY <1>3, SnapshotKept, Untouched, QuietStep DEF SweepSilent
<1>4. CASE LeaseLapses(a)
  <2> DEFINE doc == [agents[a] EXCEPT !.lease_expires_at = LAPSED]
  <2>1. doc \in AgentDocs /\ doc.current_call_id = agents[a].current_call_id
    BY <1>1 DEF AgentDocs, AgentDoc, LAPSED
  <2>2. agents' = [agents EXCEPT ![a] = doc] /\ agents \in [Agents -> AgentDocs]
    BY <1>4 DEF LeaseLapses, DialInv, TypeOK, AgentDocs
  <2> HIDE DEF doc
  <2>3. AgentsKeep
    BY <2>1, <2>2 DEF AgentsKeep
  <2> QED BY <1>4, <2>3, Untouched, QuietStep DEF LeaseLapses
<1>5. CASE WrapUpEnds(a)
  <2>1. Follows(transition_agent(agents[a], "WRAP_UP", "AVAILABLE", "WORKER_TIMER",
                                 agents[a].state_version), agents[a])
    BY <1>1, TransitionFollows DEF AgentState
  <2>2. AgentsKeep
    BY <1>5, <2>1, AgentKept DEF WrapUpEnds
  <2> QED BY <1>5, <2>2, Untouched, QuietStep DEF WrapUpEnds
<1>6. CASE Leave(a)
  <2>1. Follows(transition_agent(agents[a], agents[a].state, "OFFLINE", "AGENT",
                                 agents[a].state_version), agents[a])
    BY <1>1, TransitionFollows DEF AgentState
  <2>2. AgentsKeep
    BY <1>6, <2>1, AgentKept DEF Leave
  <2> QED BY <1>6, <2>2, Untouched, QuietStep DEF Leave
<1>7. CASE Login(a)
  <2>1. Follows(transition_agent(agents[a], "OFFLINE", "AVAILABLE", "AGENT",
                                 agents[a].state_version), agents[a])
    BY <1>1, TransitionFollows DEF AgentState
  <2>2. AgentsKeep
    BY <1>7, <2>1, AgentKept DEF Login
  <2> QED BY <1>7, <2>2, Untouched, QuietStep DEF Login
<1> QED BY <1>2, <1>3, <1>4, <1>5, <1>6, <1>7

LEMMA BorrowerStepInv ==
  ASSUME DialInv, NEW b \in Borrowers, SweepBorrower(b) \/ BorrowerLeaseLapses(b)
  PROVE  DialInv'
<1> USE DEF AllKeep
<1>1. borrowers[b] \in BorrowerDocs /\ Dialable(borrowers[b])
  BY DocumentTypes
<1>2. CASE SweepBorrower(b)
  <2> DEFINE doc == reclaim_borrower(borrowers[b], borrowers[b], NOW)
  <2>1. doc \in BorrowerDocs /\ Dialable(doc)
    BY <1>1, <1>2, BorrowerReclaimed DEF SweepBorrower
  <2>2. BorrowerBecomes(b, doc)
    BY <1>2 DEF SweepBorrower
  <2> HIDE DEF doc
  <2>3. BorrowersKeep
    BY <2>1, <2>2, BorrowerKept
  <2> QED BY <1>2, <2>3, Untouched, QuietStep DEF SweepBorrower
<1>3. CASE BorrowerLeaseLapses(b)
  <2> DEFINE doc == [borrowers[b] EXCEPT !.lease_expires_at = LAPSED]
  <2>1. /\ doc \in BorrowerDocs
        /\ doc.status = borrowers[b].status /\ doc.reserved_by = borrowers[b].reserved_by
        /\ doc.attempt_count = borrowers[b].attempt_count
    BY <1>1 DEF BorrowerDocs, BorrowerDoc, LAPSED
  <2>2. borrowers' = [borrowers EXCEPT ![b] = doc] /\ borrowers \in [Borrowers -> BorrowerDocs]
    BY <1>3 DEF BorrowerLeaseLapses, DialInv, TypeOK, BorrowerDocs
  <2> HIDE DEF doc
  <2>3. Dialable(doc)
    BY <1>1, <2>1 DEF Dialable
  <2>4. BorrowersKeep
    BY <2>1, <2>2, <2>3 DEF BorrowersKeep, AttemptsLeft, DialInv, Dialable
  <2> QED BY <1>3, <2>4, Untouched, QuietStep DEF BorrowerLeaseLapses
<1> QED BY <1>2, <1>3

--------------------------------------------------------------------------------------
(* The invariant holds.                                                                  *)

LEMMA InitInv ==
  ASSUME Init
  PROVE  DialInv
<1>1. TypeOK
  <2>1. NewAgent("AVAILABLE") \in AgentDoc(Workers, Keys)
    BY DEF NewAgent, AgentDoc, AgentState
  <2>2. NewBorrower \in BorrowerDoc(Workers)
    BY DEF NewBorrower, BorrowerDoc, BorrowerStatus
  <2>3. Idle \in Dial
    BY DEF Idle, Dial, WorkerPcs, BorrowerReleaseOutcome
  <2>4. NoEvent \in EventInHand
    BY DEF NoEvent, EventInHand
  <2>5. NoSweep \in Sweep
    BY DEF NoSweep, Sweep
  <2>6. faults \in 0 .. MaxFaults /\ claims \in Nat \cup {NULL}
    BY DialingAssumption DEF Init
  <2> QED BY <2>1, <2>2, <2>3, <2>4, <2>5, <2>6 DEF Init, TypeOK
<1>2. HandsFull
  BY DEF Init, HandsFull, Idle, Begun, Paired, Prepared, Sending
<1>3. AttemptsLeft
  BY MaxAttemptsAssumption DEF Init, AttemptsLeft, Dialable, NewBorrower
<1>4. SweepFull
  BY DEF Init, SweepFull, NoSweep
<1>5. HandlersFull
  BY DEF Init, HandlersFull, NoEvent
<1>6. NamedCallsExist /\ ProviderIsLast
  BY DEF Init, NamedCallsExist, ProviderIsLast, Idle, NewAgent, NoSweep, Prepared, Sending
<1>7. OneOriginatePerCall
  BY DEF Init, OneOriginatePerCall, Idle
<1> QED BY <1>1, <1>2, <1>3, <1>4, <1>5, <1>6, <1>7 DEF DialInv

LEMMA StutterInv ==
  ASSUME DialInv, UNCHANGED vars
  PROVE  DialInv'
  BY Untouched, QuietStep DEF vars, AllKeep

LEMMA NextInv ==
  ASSUME DialInv, [Next]_vars
  PROVE  DialInv'
<1>1. CASE \E w \in Workers : Proceed(w) \/ RetryGateCloses(w) \/ \E a \in Agents : ClaimAgent(w, a)
  BY <1>1, ProceedInv, RetryGateClosesInv, ClaimAgentInv
<1>2. CASE \E k \in Keys : Process(k) \/ SweepCall(k)
  BY <1>2, ProcessInv, SweepCallInv
<1>3. CASE \E a \in Agents : SweepAgent(a) \/ LeaseLapses(a) \/ WrapUpEnds(a) \/ Login(a)
  BY <1>3, AgentStepInv
<1>4. CASE \E b \in Borrowers : SweepBorrower(b) \/ BorrowerLeaseLapses(b)
  BY <1>4, BorrowerStepInv
<1>5. CASE FinishSweep
  BY <1>5, FinishSweepInv
<1>6. CASE Faults
  BY <1>6, WorkerFaultInv, HandlerFailsInv, AgentStepInv, RecoveryStopsInv DEF Faults
<1>7. CASE UNCHANGED vars
  BY <1>7, StutterInv
<1> QED BY <1>1, <1>2, <1>3, <1>4, <1>5, <1>6, <1>7 DEF Next

\* Whatever allocators, provider, event processor and recovery worker do to one another:
\* every worker has what its next step needs, every call that is named exists, and the
\* provider knows of no call that was not INITIATED by transition_call first.
THEOREM DialsStayInOrder == Spec => []DialInv
  BY InitInv, NextInv, PTL DEF Spec

\* Types: every document keeps its shape whoever writes it, in whatever order.
THEOREM DialingTypes == Spec => []TypeOK
<1>1. DialInv => TypeOK
  BY DEF DialInv
<1> QED BY <1>1, DialsStayInOrder, PTL

\* One originate per call document, for every number of workers, crashes and lapsed leases:
\* the compare-and-set to INITIATED lets one of them through, and none after the provider
\* has had the call.
THEOREM OneOriginate == Spec => []OneOriginatePerCall
<1>1. DialInv => OneOriginatePerCall
  BY DEF DialInv
<1> QED BY <1>1, DialsStayInOrder, PTL

--------------------------------------------------------------------------------------
(* The lifecycle.                                                                        *)

\* The calls stay, or one of them is moved by transition_call where CALL_TRANSITIONS agree
\* with the ranks, or it gets its provider id, or it is made.
CallWrites ==
  \/ UNCHANGED calls
  \/ \E k \in Keys : calls[k] # NULL /\ \E target \in CallState :
       /\ calls' = [calls EXCEPT ![k] = transition_call(@, target)]
       /\ \/ Dialled(calls[k])
          \/ target \in {"RESERVED", "INITIATED", "FAILED", "CANCELLED"}
  \/ \E k \in Keys : calls[k] # NULL /\ calls' = [calls EXCEPT ![k] = attach_provider_call_id(@)]
  \/ \A k \in Keys : calls[k] # NULL => calls'[k] = calls[k]

\* It is so for every step: an event is only applied to a call the provider had, and a sweep
\* settles a call as COMPLETED only on the word of the provider.
LEMMA StepsWriteCalls ==
  ASSUME DialInv, [Next]_vars
  PROVE  CallWrites
<1> USE DEF CallWrites
<1>1. {"RESERVED", "INITIATED", "FAILED", "CANCELLED"} \subseteq CallState
  BY DEF CallState, CALL_STATE_RANK
<1>2. ASSUME NEW w \in Workers, Proceed(w) PROVE CallWrites
  <2>1. CASE CreateCall(w)
    BY <2>1, CreateCallInv
  <2>2. CASE MarkReserved(w)
    <3>1. KeyOf(w) \in Keys /\ calls[KeyOf(w)] # NULL
      BY <2>2, WorkerHas DEF MarkReserved, At, Prepared, Paired
    <3> QED BY <1>1, <2>2, <3>1 DEF MarkReserved
  <2>3. CASE MarkInitiated(w)
    <3>1. KeyOf(w) \in Keys /\ calls[KeyOf(w)] # NULL
      BY <2>3, WorkerHas DEF MarkInitiated, At, Prepared, Paired
    <3> QED BY <1>1, <2>3, <3>1 DEF MarkInitiated
  <2>4. CASE OriginateFails(w)
    <3>1. KeyOf(w) \in Keys /\ calls[KeyOf(w)] # NULL
      BY <2>4, WorkerHas DEF OriginateFails, At, Sending, Prepared, Paired
    <3> QED BY <1>1, <2>4, <3>1 DEF OriginateFails
  <2>5. CASE Attach(w)
    <3>1. KeyOf(w) \in Keys /\ calls[KeyOf(w)] # NULL
      BY <2>5, WorkerHas DEF Attach, At, Sending, Prepared, Paired
    <3> QED BY <2>5, <3>1 DEF Attach
  <2>6. CASE NoBorrower(w) \/ UndoAgent(w) \/ CallExists(w) \/ MarkDialing(w) \/ BindCall(w)
             \/ Originate(w) \/ ReleaseAgent(w) \/ ReleaseBorrower(w)
             \/ \E b \in Borrowers : ClaimBorrower(w, b)
    BY <2>6 DEF NoBorrower, UndoAgent, CallExists, MarkDialing, BindCall, Originate,
                ReleaseAgent, ReleaseBorrower, ClaimBorrower
  <2> QED BY <1>2, <2>1, <2>2, <2>3, <2>4, <2>5, <2>6 DEF Proceed
<1>3. ASSUME NEW w \in Workers, RetryGateCloses(w) \/ \E a \in Agents : ClaimAgent(w, a)
      PROVE  CallWrites
  BY <1>3 DEF RetryGateCloses, ClaimAgent
<1>4. ASSUME NEW k \in Keys, Process(k) PROVE CallWrites
  <2>1. CASE ApplyEvent(k)
    <3>1. /\ calls[k] # NULL /\ Dialled(calls[k])
          /\ handler[k].event \in CallState
      BY <2>1, HandlerHas, EventTables DEF ApplyEvent, Handling
    <3> QED BY <2>1, <3>1 DEF ApplyEvent
  <2>2. CASE Deliver(k) \/ ProviderFinishes(k) \/ LookupCall(k) \/ ReadAgent(k) \/ MoveAgent(k)
             \/ EndAgent(k) \/ EndBorrower(k)
    BY <2>2 DEF Deliver, ProviderFinishes, LookupCall, ReadAgent, MoveAgent, EndAgent, EndBorrower
  <2> QED BY <1>4, <2>1, <2>2 DEF Process
<1>5. CASE FinishSweep
  <2>1. CASE CancelBoundCall
    <3>1. CASE rec.call # NULL /\ CallTransitionMatches(calls[rec.call], "CANCELLED")
      <4>1. rec.call \in Keys /\ calls[rec.call] # NULL
        BY <3>1, SweepHas
      <4> QED BY <1>1, <2>1, <3>1, <4>1 DEF CancelBoundCall
    <3>2. CASE ~(rec.call # NULL /\ CallTransitionMatches(calls[rec.call], "CANCELLED"))
      BY <2>1, <3>2 DEF CancelBoundCall
    <3> QED BY <3>1, <3>2
  <2>2. CASE SettleCall
    <3>1. rec.call \in Keys /\ calls[rec.call] # NULL /\ rec.target \in CallState
      BY <2>2, SweepHas DEF SettleCall
    <3>2. rec.target \in TERMINAL_CALL_STATES
      BY <2>2 DEF SettleCall, DialInv, SweepFull
    <3>3. rec.target = "COMPLETED" => Dialled(calls[rec.call])
      BY <2>2, <3>1 DEF SettleCall, DialInv, ProviderIsLast
    <3> QED BY <2>2, <3>1, <3>2, <3>3 DEF SettleCall, TERMINAL_CALL_STATES
  <2>3. CASE GiveBorrower \/ TakeAgent \/ OrphanAgent
    BY <2>3 DEF GiveBorrower, TakeAgent, OrphanAgent
  <2> QED BY <1>5, <2>1, <2>2, <2>3 DEF FinishSweep
<1>6. CASE Faults
  <2>1. ASSUME NEW w \in Workers, AttachFails(w) \/ StopDial(w) \/ DbError(w) \/ Crash(w)
        PROVE  CallWrites
    <3>1. worker[w].pc = "accepted" => KeyOf(w) \in Keys /\ calls[KeyOf(w)] # NULL
      BY WorkerHas DEF Sending, Prepared, Paired
    <3>2. CASE AttachFails(w)
      BY <1>1, <3>1, <3>2 DEF AttachFails, At
    <3>3. CASE StopDial(w)
      BY <3>1, <3>3 DEF StopDial, At
    <3>4. CASE DbError(w) \/ Crash(w)
      BY <3>4 DEF DbError, Crash
    <3> QED BY <2>1, <3>2, <3>3, <3>4
  <2>2. CASE (\E k \in Keys : HandlerFails(k)) \/ (\E a \in Agents : SweepSilent(a) \/ Leave(a))
             \/ RecoveryStops
    BY <2>2 DEF HandlerFails, SweepSilent, Leave, RecoveryStops
  <2> QED BY <1>6, <2>1, <2>2 DEF Faults
<1>7. CASE \E k \in Keys : SweepCall(k)
  BY <1>7 DEF SweepCall
<1>8. CASE \E a \in Agents : SweepAgent(a) \/ LeaseLapses(a) \/ WrapUpEnds(a) \/ Login(a)
  BY <1>8 DEF SweepAgent, LeaseLapses, WrapUpEnds, Login
<1>9. CASE \E b \in Borrowers : SweepBorrower(b) \/ BorrowerLeaseLapses(b)
  BY <1>9 DEF SweepBorrower, BorrowerLeaseLapses
<1>10. CASE UNCHANGED vars
  BY <1>10 DEF vars
<1> QED BY <1>2, <1>3, <1>4, <1>5, <1>6, <1>7, <1>8, <1>9, <1>10 DEF Next

LEMMA WritesFollowTheLifecycle ==
  ASSUME DialInv, CallWrites, NEW k \in Keys, calls[k] # NULL, calls'[k] # calls[k]
  PROVE  \/ calls'[k].state = calls[k].state
         \/ can_transition_call(calls[k].state, calls'[k].state)
<1>1. calls[k] \in CallDocs /\ calls \in [Keys -> CallDocs \cup {NULL}]
  BY DocumentTypes DEF DialInv, TypeOK, CallDocs
<1>2. ASSUME NEW h \in Keys, calls[h] # NULL, NEW target \in CallState,
             calls' = [calls EXCEPT ![h] = transition_call(@, target)],
             \/ Dialled(calls[h])
             \/ target \in {"RESERVED", "INITIATED", "FAILED", "CANCELLED"}
      PROVE  \/ calls'[k].state = calls[k].state
             \/ can_transition_call(calls[k].state, calls'[k].state)
  <2>1. h = k
    BY <1>1, <1>2
  <2>2. calls'[k].state = IF CallTransitionMatches(calls[k], target) THEN target
                          ELSE calls[k].state
    BY <1>2, <2>1, CallKept
  <2>3. CallTransitionMatches(calls[k], target) => can_transition_call(calls[k].state, target)
    BY <1>1, <1>2, <2>1, CallMovesAlong DEF Dialled
  <2> QED BY <2>2, <2>3
<1>3. ASSUME NEW h \in Keys, calls[h] # NULL,
             calls' = [calls EXCEPT ![h] = attach_provider_call_id(@)]
      PROVE  calls'[k].state = calls[k].state
  <2>1. h = k /\ calls'[k] = attach_provider_call_id(calls[k])
    BY <1>1, <1>3
  <2> QED BY <1>1, <2>1 DEF attach_provider_call_id, CallDocs, CallDoc
<1> QED BY <1>2, <1>3 DEF CallWrites

\* Every write to a call, by a worker, the event processor or the recovery worker, however
\* late it comes, is a move of CALL_TRANSITIONS: the ranks transition_call compares alone
\* would also let QUEUED become COMPLETED.
THEOREM CallsKeepTheLifecycle == Spec => CallsFollowTheLifecycle
<1>1. DialInv /\ [Next]_vars =>
        [\A k \in Keys : calls[k] # NULL /\ calls'[k] # calls[k] =>
           \/ calls'[k].state = calls[k].state
           \/ can_transition_call(calls[k].state, calls'[k].state)]_vars
  BY StepsWriteCalls, WritesFollowTheLifecycle
<1> QED BY <1>1, DialsStayInOrder, PTL DEF Spec, CallsFollowTheLifecycle

--------------------------------------------------------------------------------------
(* Who is at work on a reserved borrower, as long as nothing fails.  A release finds the   *)
(* borrower only in the name the lease has, so the claim must say in whose name somebody    *)
(* will release it: the worker's own, or that of the worker that created the call.          *)

Holds(b, u) == borrowers[b].status = "RESERVED" /\ borrowers[b].reserved_by = u

\* k is over, and whoever ended it is still to give its borrower back.
Ending(k) ==
  \/ handler[k].pc \in {"agent", "borrower"}
  \/ handler[k].pc = "read" /\ is_terminal(handler[k].event)
  \/ rec.pc \in {"give", "orphan_agent", "orphan"} /\ rec.call = k

\* k, or its end, will release its borrower in the name of u.
Pending(k, u) ==
  /\ calls[k] # NULL /\ calls[k].created_by_worker = u
  /\ CallOpen(k) \/ Ending(k)

WorkInv ==
  /\ \A w \in Workers, k \in Keys :
       worker[w].pc \in Sending /\ KeyOf(w) = k /\ Holds(k.borrower, w) => Pending(k, w)
  /\ \A b \in Borrowers, u \in Workers : Holds(b, u) =>
       \/ worker[u].borrower = b
       \/ \E k \in Keys : k.borrower = b /\ Pending(k, u)

\* What a step does for WorkInv: nothing is reserved anew, ...
NothingReserved == \A b \in Borrowers, u \in Workers : Holds(b, u)' => Holds(b, u)

\* ... work that is to be done stays, or is done, or is now in the hands of its worker, ...
WorkStays ==
  \A k \in Keys, u \in Workers : Pending(k, u) /\ Holds(k.borrower, u)' =>
    \/ Pending(k, u)'
    \/ worker'[u].borrower = k.borrower /\ worker'[u].pc \notin Sending

\* ... a worker that lets go of a borrower has given it back or leaves it to a call, ...
HandsStay ==
  \A u \in Workers : worker[u].borrower \in Borrowers =>
    \/ worker'[u].borrower = worker[u].borrower
    \/ \E k \in Keys : k.borrower = worker[u].borrower
                       /\ (Holds(k.borrower, u)' => Pending(k, u)')

\* ... and whoever begins to send has a call of its own.
SendersStay ==
  \A w \in Workers, k \in Keys : worker'[w].pc \in Sending /\ KeyOf(w)' = k =>
    \/ worker[w].pc \in Sending /\ KeyOf(w) = k
    \/ Pending(k, w)'

LEMMA WorkStep ==
  ASSUME DialInv, WorkInv, NothingReserved, WorkStays, HandsStay, SendersStay
  PROVE  WorkInv'
<1>0. \A k \in Keys : k.borrower \in Borrowers
  BY DEF Keys
<1>1. ASSUME NEW w \in Workers, NEW k \in Keys, worker'[w].pc \in Sending, KeyOf(w)' = k,
             Holds(k.borrower, w)'
      PROVE  Pending(k, w)'
  <2>1. CASE worker[w].pc \in Sending /\ KeyOf(w) = k
    <3>1. Pending(k, w)
      BY <1>0, <1>1, <2>1 DEF WorkInv, NothingReserved
    <3> QED BY <1>1, <3>1 DEF WorkStays
  <2> QED BY <1>1, <2>1 DEF SendersStay
<1>2. ASSUME NEW b \in Borrowers, NEW u \in Workers, Holds(b, u)'
      PROVE  \/ worker'[u].borrower = b
             \/ \E k \in Keys : k.borrower = b /\ Pending(k, u)'
  <2>1. CASE worker[u].borrower = b
    BY <1>2, <2>1 DEF HandsStay
  <2>2. CASE \E k \in Keys : k.borrower = b /\ Pending(k, u)
    BY <1>2, <2>2 DEF WorkStays
  <2> QED BY <1>2, <2>1, <2>2 DEF WorkInv, NothingReserved
<1> QED BY <1>1, <1>2 DEF WorkInv

\* Where the pieces of this come from.
LEMMA SameBorrowers == UNCHANGED borrowers => NothingReserved
  BY DEF NothingReserved, Holds

LEMMA SameWorkers == UNCHANGED worker => HandsStay /\ SendersStay
  BY DEF HandsStay, SendersStay, KeyOf

\* No call ends in this step.
CallsStayOpen ==
  \A k \in Keys : calls[k] # NULL =>
    /\ calls'[k] # NULL /\ calls'[k].created_by_worker = calls[k].created_by_worker
    /\ is_terminal(calls'[k].state) => is_terminal(calls[k].state)

LEMMA SameCalls == UNCHANGED calls => CallsStayOpen
  BY DEF CallsStayOpen

\* transition_call to a state that is not terminal ends none.
LEMMA StaysOpen ==
  ASSUME DialInv, NEW k \in Keys, calls[k] # NULL, NEW target \in CallState, ~is_terminal(target),
         calls' = [calls EXCEPT ![k] = transition_call(@, target)]
  PROVE  CallsStayOpen
<1>1. /\ CallsKeep
      /\ calls'[k].created_by_worker = calls[k].created_by_worker
      /\ calls'[k].state = IF CallTransitionMatches(calls[k], target) THEN target
                           ELSE calls[k].state
      /\ \A h \in Keys \ {k} : calls'[h] = calls[h]
  BY CallKept
<1>2. calls'[k].state = target \/ calls'[k].state = calls[k].state
  BY <1>1
<1>3. /\ calls'[k] # NULL
      /\ is_terminal(calls'[k].state) => is_terminal(calls[k].state)
  BY <1>1, <1>2 DEF CallsKeep
<1> QED BY <1>1, <1>3 DEF CallsStayOpen

LEMMA WorkIsLeft ==
  ASSUME CallsStayOpen, \A k \in Keys : Ending(k) => Ending(k)'
  PROVE  WorkStays
  BY DEF WorkStays, CallsStayOpen, Pending, CallOpen

LEMMA EndsStay ==
  UNCHANGED <<handler, rec>> => \A k \in Keys : Ending(k) => Ending(k)'
  BY DEF Ending

\* A borrower is given back in the name of u: whoever else holds one holds it still.
LEMMA GivenBack ==
  ASSUME DialInv, NEW b \in Borrowers, NEW u, NEW outcome \in BorrowerReleaseOutcome,
         BorrowerBecomes(b, release_borrower(borrowers[b], u, outcome, NOW))
  PROVE  NothingReserved /\ ~Holds(b, u)'
<1> DEFINE doc == release_borrower(borrowers[b], u, outcome, NOW)
<1>1. /\ borrowers[b] \in BorrowerDocs /\ Dialable(borrowers[b])
      /\ TypeOK /\ AttemptsLeft
  BY DocumentTypes DEF DialInv
<1>2. /\ doc \in BorrowerDocs /\ Dialable(doc)
      /\ doc.status = "RESERVED" => doc = borrowers[b] /\ borrowers[b].reserved_by # u
  BY <1>1, BorrowerReleased
<1> HIDE DEF doc
<1>3. BorrowerBecomes(b, doc)
  BY DEF doc
<1>4. /\ borrowers'[b].status = doc.status /\ borrowers'[b].reserved_by = doc.reserved_by
      /\ \A x \in Borrowers \ {b} : borrowers'[x] = borrowers[x]
  BY <1>1, <1>2, <1>3, BorrowerWritten
<1> QED BY <1>2, <1>4 DEF NothingReserved, Holds

\* A worker that moves keeps its pair; one that resets had given it back, or leaves it.
LEMMA MovedHands ==
  ASSUME NEW w \in Workers, NEW p, Moved(w, p), p \in Sending => worker[w].pc \in Sending
  PROVE  HandsStay /\ SendersStay
  BY DEF Moved, HandsStay, SendersStay

LEMMA ResetHands ==
  ASSUME DialInv, NEW w \in Workers, BackToIdle(w),
         worker[w].borrower \in Borrowers =>
           \E k \in Keys : k.borrower = worker[w].borrower
                           /\ (Holds(k.borrower, w)' => Pending(k, w)')
  PROVE  HandsStay /\ SendersStay
<1>1. \A v \in Workers \ {w} : worker'[v] = worker[v] /\ KeyOf(v)' = KeyOf(v)
  BY Returns DEF KeyOf
<1>2. worker'[w].pc \notin Sending
  BY DEF BackToIdle, Idle, Sending, DialInv, TypeOK
<1>3. HandsStay
  BY <1>1 DEF HandsStay
<1>4. SendersStay
  BY <1>1, <1>2 DEF SendersStay
<1> QED BY <1>3, <1>4

\* The allocator's steps.  Only the failing originate needs that a worker dials only calls it
\* has created: it ends a call and releases the pair in its own name.
LEMMA ClaimBorrowerWork ==
  ASSUME DialInv, WorkInv, NEW w \in Workers, NEW b \in Borrowers, ClaimBorrower(w, b)
  PROVE  WorkInv'
<1>1. /\ worker'[w].pc = "paired" /\ worker'[w].borrower = b
      /\ \A v \in Workers \ {w} : worker'[v] = worker[v]
      /\ borrowers'[b].reserved_by = w
      /\ \A x \in Borrowers \ {b} : borrowers'[x] = borrowers[x]
  BY ClaimBorrowerInv
<1>2. worker[w].borrower = NULL /\ NULL \notin Borrowers
  BY DialingAssumption DEF ClaimBorrower, At, DialInv, HandsFull, Paired, Prepared, Sending
<1>3. \A k \in Keys, u \in Workers : Pending(k, u) = Pending(k, u)'
  BY DEF ClaimBorrower, Pending, CallOpen, Ending
<1>4. \A x \in Borrowers, u \in Workers : Holds(x, u)' => Holds(x, u) \/ (x = b /\ u = w)
  BY <1>1 DEF Holds
<1>5. ASSUME NEW v \in Workers, NEW k \in Keys, worker'[v].pc \in Sending, KeyOf(v)' = k,
             Holds(k.borrower, v)'
      PROVE  Pending(k, v)'
  <2>1. v # w /\ k.borrower \in Borrowers
    BY <1>1, <1>5 DEF Sending, Keys
  <2>2. worker[v].pc \in Sending /\ KeyOf(v) = k /\ Holds(k.borrower, v)
    BY <1>1, <1>4, <1>5, <2>1 DEF KeyOf
  <2> QED BY <1>3, <2>2 DEF WorkInv
<1>6. ASSUME NEW x \in Borrowers, NEW u \in Workers, Holds(x, u)'
      PROVE  \/ worker'[u].borrower = x
             \/ \E k \in Keys : k.borrower = x /\ Pending(k, u)'
  BY <1>1, <1>2, <1>3, <1>4, <1>6 DEF WorkInv
<1> QED BY <1>5, <1>6 DEF WorkInv

LEMMA ProceedWork ==
  ASSUME DialInv, WorkInv, DialsOwnCalls, DialsOwnCalls', NEW w \in Workers, Proceed(w)
  PROVE  WorkInv'
<1>0. NULL \notin Borrowers /\ (worker[w].pc \notin Paired => worker[w].borrower = NULL)
  BY DialingAssumption DEF DialInv, HandsFull
<1>1. CASE NoBorrower(w)
  <2>1. Moved(w, "undo_agent")
    BY <1>1, Moves DEF NoBorrower, At, WorkerPcs, Begun, Paired, Prepared, Sending
  <2>2. HandsStay /\ SendersStay
    BY <2>1, MovedHands DEF Sending
  <2> QED BY <1>1, <2>2, SameBorrowers, SameCalls, EndsStay, WorkIsLeft, WorkStep DEF NoBorrower
<1>2. CASE UndoAgent(w)
  <2>1. worker[w].borrower \notin Borrowers
    BY <1>0, <1>2 DEF UndoAgent, At, Paired, Prepared, Sending
  <2>2. HandsStay /\ SendersStay
    BY <1>2, <2>1, ResetHands DEF UndoAgent
  <2> QED BY <1>2, <2>2, SameBorrowers, SameCalls, EndsStay, WorkIsLeft, WorkStep DEF UndoAgent
<1>3. CASE CreateCall(w)
  <2>1. /\ Moved(w, "created")
        /\ \A k \in Keys : calls[k] # NULL => calls'[k] = calls[k]
    BY <1>3, CreateCallInv
  <2>2. HandsStay /\ SendersStay
    BY <2>1, MovedHands DEF Sending
  <2>3. CallsStayOpen
    BY <2>1 DEF CallsStayOpen
  <2> QED BY <1>3, <2>2, <2>3, SameBorrowers, EndsStay, WorkIsLeft, WorkStep DEF CreateCall
<1>4. CASE CallExists(w)
  <2>1. Moved(w, "release_agent")
    BY <1>4, GivesBack DEF CallExists, At, Paired, BorrowerReleaseOutcome
  <2>2. HandsStay /\ SendersStay
    BY <2>1, MovedHands DEF Sending
  <2> QED BY <1>4, <2>2, SameBorrowers, SameCalls, EndsStay, WorkIsLeft, WorkStep DEF CallExists
<1>5. CASE MarkReserved(w)
  <2>1. KeyOf(w) \in Keys /\ calls[KeyOf(w)] # NULL
    BY <1>5, WorkerHas DEF MarkReserved, At, Prepared, Paired
  <2>2. CallsStayOpen
    <3>1. "RESERVED" \in CallState /\ ~is_terminal("RESERVED")
      BY DEF CallState, CALL_STATE_RANK, is_terminal, TERMINAL_CALL_STATES
    <3> QED BY <1>5, <2>1, <3>1, StaysOpen DEF MarkReserved
  <2>3. Moved(w, "reserved")
    BY <1>5, Moves DEF MarkReserved, At, WorkerPcs, Paired, Prepared
  <2>4. HandsStay /\ SendersStay
    BY <2>3, MovedHands DEF Sending
  <2> QED BY <1>5, <2>2, <2>4, SameBorrowers, EndsStay, WorkIsLeft, WorkStep DEF MarkReserved
<1>6. CASE MarkInitiated(w)
  <2>1. /\ KeyOf(w) \in Keys /\ calls[KeyOf(w)] # NULL /\ worker[w].pc \in Paired
        /\ calls' = [calls EXCEPT ![KeyOf(w)] = transition_call(@, "INITIATED")]
        /\ "INITIATED" \in CallState /\ ~is_terminal("INITIATED")
    BY <1>6, WorkerHas
       DEF MarkInitiated, At, Prepared, Paired, CallState, CALL_STATE_RANK, is_terminal,
           TERMINAL_CALL_STATES
  <2>2. PICK k \in Keys : KeyOf(w) = k
    BY <2>1
  <2>3. CallsStayOpen
    BY <2>1, StaysOpen
  <2>4. CASE ~CallTransitionMatches(calls[k], "INITIATED")
    <3>1. Moved(w, "release_agent")
      BY <1>6, <2>1, <2>2, <2>4, GivesBack DEF MarkInitiated, BorrowerReleaseOutcome
    <3>2. HandsStay /\ SendersStay
      BY <3>1, MovedHands DEF Sending
    <3> QED BY <1>6, <2>3, <3>2, SameBorrowers, EndsStay, WorkIsLeft, WorkStep DEF MarkInitiated
  <2>5. CASE CallTransitionMatches(calls[k], "INITIATED")
    <3>1. Moved(w, "initiated")
      BY <1>6, <2>1, <2>2, <2>5, Moves DEF MarkInitiated, WorkerPcs, Paired, Prepared, Sending
    <3>2. KeyOf(w)' = k /\ worker'[w].pc = "initiated"
      BY <2>2, <3>1 DEF Moved
    <3>3. calls'[k].created_by_worker = w
      BY <3>2 DEF DialsOwnCalls
    <3>4. calls'[k] # NULL /\ calls'[k].state = "INITIATED"
      BY <2>1, <2>2, <2>5, CallKept DEF CallsKeep
    <3>5. Pending(k, w)'
      BY <2>1, <3>3, <3>4 DEF Pending, CallOpen
    <3>6. HandsStay /\ SendersStay
      BY <3>1, <3>2, <3>5 DEF Moved, HandsStay, SendersStay
    <3> QED BY <1>6, <2>3, <3>6, SameBorrowers, EndsStay, WorkIsLeft, WorkStep DEF MarkInitiated
  <2> QED BY <2>4, <2>5
<1>7. CASE MarkDialing(w)
  <2>1. Moved(w, "binding")
    BY <1>7, Moves DEF MarkDialing, At, WorkerPcs, Paired, Prepared, Sending
  <2>2. HandsStay /\ SendersStay
    BY <1>7, <2>1, MovedHands DEF MarkDialing, At, Sending
  <2> QED BY <1>7, <2>2, SameBorrowers, SameCalls, EndsStay, WorkIsLeft, WorkStep DEF MarkDialing
<1>8. CASE BindCall(w)
  <2>1. Moved(w, "originating")
    BY <1>8, BindCallInv
  <2>2. HandsStay /\ SendersStay
    BY <1>8, <2>1, MovedHands DEF BindCall, At, Sending
  <2> QED BY <1>8, <2>2, SameBorrowers, SameCalls, EndsStay, WorkIsLeft, WorkStep DEF BindCall
<1>9. CASE Originate(w)
  <2>1. Moved(w, "accepted")
    BY <1>9, OriginateInv
  <2>2. HandsStay /\ SendersStay
    BY <1>9, <2>1, MovedHands DEF Originate, At, Sending
  <2> QED BY <1>9, <2>2, SameBorrowers, SameCalls, EndsStay, WorkIsLeft, WorkStep DEF Originate
<1>10. CASE OriginateFails(w)
  <2> DEFINE k == KeyOf(w)
  <2>1. /\ k \in Keys /\ calls[k] # NULL
        /\ worker[w].pc \in Paired /\ k.borrower = worker[w].borrower
    BY <1>10, WorkerHas, KeyIsKey DEF OriginateFails, At, Sending, Prepared, Paired
  <2>2. /\ CallsKeep
        /\ calls'[k].created_by_worker = calls[k].created_by_worker
        /\ \A h \in Keys \ {k} : calls'[h] = calls[h]
    BY <1>10, <2>1, CallKept DEF OriginateFails, CallState, CALL_STATE_RANK
  <2>3. Moved(w, "release_agent")
    BY <1>10, <2>1, GivesBack DEF OriginateFails, BorrowerReleaseOutcome
  <2>4. HandsStay /\ SendersStay
    BY <2>3, MovedHands DEF Sending
  <2>5. calls[k].created_by_worker = w
    BY <1>10 DEF OriginateFails, At, DialsOwnCalls
  <2> HIDE DEF k
  <2>6. worker'[w].borrower = k.borrower /\ worker'[w].pc \notin Sending
    BY <2>1, <2>3 DEF Moved, Sending
  <2>7. \A h \in Keys : Ending(h) => Ending(h)'
    BY <1>10, EndsStay DEF OriginateFails
  <2>8. WorkStays
    BY <2>1, <2>2, <2>5, <2>6, <2>7 DEF WorkStays, Pending, CallOpen
  <2> QED BY <1>10, <2>4, <2>8, SameBorrowers, WorkStep DEF OriginateFails
<1>11. CASE Attach(w)
  <2>1. /\ KeyOf(w) \in Keys /\ calls[KeyOf(w)] # NULL /\ provider[KeyOf(w)] # NULL
        /\ KeyOf(w).borrower = worker[w].borrower
        /\ worker[w].pc \in Sending
    BY <1>11, WorkerHas, KeyIsKey DEF Attach, At, Sending, Prepared, Paired
  <2>2. PICK k \in Keys : KeyOf(w) = k
    BY <2>1
  <2>3. /\ CallsKeep
        /\ calls'[k].created_by_worker = calls[k].created_by_worker
        /\ calls'[k].state = calls[k].state
        /\ \A h \in Keys \ {k} : calls'[h] = calls[h]
    BY <1>11, <2>1, <2>2, CallAttached DEF Attach
  <2>4. BackToIdle(w) /\ UNCHANGED borrowers /\ UNCHANGED <<handler, rec>>
    BY <1>11 DEF Attach
  <2>5. CallsStayOpen
    BY <2>3 DEF CallsStayOpen, CallsKeep
  <2>6. WorkStays
    BY <2>4, <2>5, EndsStay, WorkIsLeft
  <2>7. Holds(k.borrower, w)' => Pending(k, w)'
    <3>1. Holds(k.borrower, w)' => Holds(k.borrower, w)
      BY <2>4 DEF Holds
    <3>2. Holds(k.borrower, w)' => Pending(k, w)
      BY <2>1, <2>2, <3>1 DEF WorkInv
    <3>3. Ending(k) => Ending(k)'
      BY <2>4, EndsStay
    <3>4. Pending(k, w) => Pending(k, w)'
      BY <2>5, <3>3 DEF Pending, CallOpen, CallsStayOpen
    <3> QED BY <3>2, <3>4
  <2>8. HandsStay /\ SendersStay
    BY <2>1, <2>2, <2>4, <2>7, ResetHands
  <2> QED BY <2>4, <2>6, <2>8, SameBorrowers, WorkStep
<1>12. CASE ReleaseAgent(w)
  <2>1. Moved(w, "release_borrower")
    BY <1>12, Moves DEF ReleaseAgent, At, WorkerPcs, Paired
  <2>2. HandsStay /\ SendersStay
    BY <2>1, MovedHands DEF Sending
  <2> QED BY <1>12, <2>2, SameBorrowers, SameCalls, EndsStay, WorkIsLeft, WorkStep DEF ReleaseAgent
<1>13. CASE ReleaseBorrower(w)
  <2>1. /\ worker[w].borrower \in Borrowers /\ worker[w].outcome \in BorrowerReleaseOutcome
        /\ KeyOf(w) \in Keys /\ KeyOf(w).borrower = worker[w].borrower
    BY <1>13, WorkerHas, KeyIsKey DEF ReleaseBorrower, At, Paired
  <2>2. PICK k \in Keys : KeyOf(w) = k
    BY <2>1
  <2>3. BorrowerBecomes(k.borrower,
                        release_borrower(borrowers[k.borrower], w, worker[w].outcome, NOW))
    BY <1>13, <2>1, <2>2 DEF ReleaseBorrower
  <2>4. NothingReserved /\ ~Holds(k.borrower, w)'
    BY <2>1, <2>2, <2>3, GivenBack
  <2>5. HandsStay /\ SendersStay
    BY <1>13, <2>1, <2>2, <2>4, ResetHands DEF ReleaseBorrower
  <2> QED BY <1>13, <2>4, <2>5, SameCalls, EndsStay, WorkIsLeft, WorkStep DEF ReleaseBorrower
<1>14. CASE \E b \in Borrowers : ClaimBorrower(w, b)
  BY <1>14, ClaimBorrowerWork
<1> QED
  BY <1>1, <1>2, <1>3, <1>4, <1>5, <1>6, <1>7, <1>8, <1>9, <1>10, <1>11, <1>12, <1>13, <1>14
     DEF Proceed

LEMMA BeginWork ==
  ASSUME DialInv, WorkInv, NEW w \in Workers,
         RetryGateCloses(w) \/ \E a \in Agents : ClaimAgent(w, a)
  PROVE  WorkInv'
<1>1. CASE RetryGateCloses(w)
  <2>1. Moved(w, "release_agent")
    BY <1>1, GivesBack DEF RetryGateCloses, At, Paired, BorrowerReleaseOutcome
  <2>2. HandsStay /\ SendersStay
    BY <2>1, MovedHands DEF Sending
  <2> QED
    BY <1>1, <2>2, SameBorrowers, SameCalls, EndsStay, WorkIsLeft, WorkStep DEF RetryGateCloses
<1>2. ASSUME NEW a \in Agents, ClaimAgent(w, a) PROVE WorkInv'
  <2>1. /\ worker'[w].borrower = worker[w].borrower
        /\ \A v \in Workers \ {w} : worker'[v] = worker[v]
    BY <1>2, ClaimAgentInv
  <2>2. worker'[w].pc \notin Sending
    <3>1. worker' = [worker EXCEPT ![w].pc = "has_agent", ![w].agent = a,
                                   ![w].version = agents'[a].state_version]
          /\ worker \in [Workers -> Dial]
      BY <1>2 DEF ClaimAgent, DialInv, TypeOK
    <3>2. worker'[w].pc = "has_agent"
      BY <3>1 DEF Dial
    <3> QED BY <3>2 DEF Sending
  <2>3. \A v \in Workers \ {w} : KeyOf(v)' = KeyOf(v)
    BY <2>1 DEF KeyOf
  <2>4. HandsStay /\ SendersStay
    BY <2>1, <2>2, <2>3 DEF HandsStay, SendersStay
  <2> QED BY <1>2, <2>4, SameBorrowers, SameCalls, EndsStay, WorkIsLeft, WorkStep DEF ClaimAgent
<1> QED BY <1>1, <1>2

\* The event that ends a call stays with its handler until the borrower is given back.
LEMMA ProcessWork ==
  ASSUME DialInv, WorkInv, NEW k \in Keys, Process(k)
  PROVE  WorkInv'
<1>0. HandsStay /\ SendersStay
  BY SameWorkers DEF Process, Deliver, ProviderFinishes, LookupCall, ApplyEvent, ReadAgent,
                     MoveAgent, EndAgent, EndBorrower
<1>1. CASE Deliver(k)
  <2>1. \A h \in Keys : Ending(h) => Ending(h)'
    BY <1>1, DeliverInv DEF Deliver, Handling, Ending
  <2> QED BY <1>0, <1>1, <2>1, SameBorrowers, SameCalls, WorkIsLeft, WorkStep DEF Deliver
<1>2. CASE ProviderFinishes(k)
  BY <1>0, <1>2, SameBorrowers, SameCalls, EndsStay, WorkIsLeft, WorkStep DEF ProviderFinishes
<1>3. CASE LookupCall(k)
  <2>1. HandlerAt(k, "apply") \/ HandlerAt(k, "idle")
    BY <1>3, HandlerMoves DEF LookupCall
  <2>2. \A h \in Keys : Ending(h) => Ending(h)'
    BY <1>3, <2>1 DEF LookupCall, Handling, HandlerAt, Ending
  <2> QED BY <1>0, <1>3, <2>2, SameBorrowers, SameCalls, WorkIsLeft, WorkStep DEF LookupCall
<1>4. CASE ApplyEvent(k)
  <2> DEFINE event == handler[k].event
  <2>1. /\ handler[k].pc = "apply" /\ event \in CallState /\ calls[k] # NULL
    BY <1>4, HandlerHas, EventTables DEF ApplyEvent, Handling
  <2>2. /\ CallsKeep
        /\ calls'[k].created_by_worker = calls[k].created_by_worker
        /\ calls'[k].state = IF CallTransitionMatches(calls[k], event) THEN event
                             ELSE calls[k].state
        /\ \A h \in Keys \ {k} : calls'[h] = calls[h]
    BY <1>4, <2>1, CallKept DEF ApplyEvent
  <2>3. /\ CallTransitionMatches(calls[k], event) => HandlerAt(k, "read")
        /\ ~CallTransitionMatches(calls[k], event) => HandlerAt(k, "idle")
    BY <1>4, HandlerMoves DEF ApplyEvent
  <2>4. UNCHANGED rec /\ UNCHANGED borrowers
    BY <1>4 DEF ApplyEvent
  <2>5. \A h \in Keys : Ending(h) => Ending(h)'
    BY <2>1, <2>3, <2>4 DEF HandlerAt, Ending
  <2>6. calls'[k].state = calls[k].state \/ ~is_terminal(calls'[k].state) \/ Ending(k)'
    <3>1. CASE CallTransitionMatches(calls[k], event)
      <4>1. handler'[k].pc = "read" /\ handler'[k].event = event /\ calls'[k].state = event
        BY <2>2, <2>3, <3>1 DEF HandlerAt
      <4> QED BY <4>1 DEF Ending
    <3> QED BY <2>2, <3>1
  <2>7. WorkStays
    BY <2>2, <2>5, <2>6 DEF WorkStays, Pending, CallOpen, CallsKeep
  <2> QED BY <1>0, <2>4, <2>7, SameBorrowers, WorkStep
<1>5. CASE ReadAgent(k)
  <2>1. PICK p \in {"idle", "cas", "agent", "borrower"} :
           HandlerAt(k, p) /\ (p \in {"agent", "borrower"} <=> is_terminal(handler[k].event))
    BY <1>5, ReadAgentDecides
  <2>2. handler[k].pc = "read" /\ UNCHANGED rec
    BY <1>5 DEF ReadAgent, Handling
  <2>3. \A h \in Keys : Ending(h) => Ending(h)'
    BY <2>1, <2>2 DEF HandlerAt, Ending
  <2> QED BY <1>0, <1>5, <2>3, SameBorrowers, SameCalls, WorkIsLeft, WorkStep DEF ReadAgent
<1>6. CASE MoveAgent(k)
  <2>1. HandlerAt(k, "idle")
    BY <1>6, HandlerMoves DEF MoveAgent
  <2>2. \A h \in Keys : Ending(h) => Ending(h)'
    BY <1>6, <2>1 DEF MoveAgent, Handling, HandlerAt, Ending
  <2> QED BY <1>0, <1>6, <2>2, SameBorrowers, SameCalls, WorkIsLeft, WorkStep DEF MoveAgent
<1>7. CASE EndAgent(k)
  <2>1. HandlerAt(k, "borrower")
    BY <1>7, HandlerMoves DEF EndAgent
  <2>2. \A h \in Keys : Ending(h) => Ending(h)'
    BY <1>7, <2>1 DEF EndAgent, Handling, HandlerAt, Ending
  <2> QED BY <1>0, <1>7, <2>2, SameBorrowers, SameCalls, WorkIsLeft, WorkStep DEF EndAgent
<1>8. CASE EndBorrower(k)
  <2>1. HandlerAt(k, "idle")
    BY <1>8, HandlerMoves DEF EndBorrower
  <2>2. UNCHANGED rec /\ UNCHANGED calls
    BY <1>8 DEF EndBorrower
  <2>3. \A h \in Keys \ {k} : Ending(h) => Ending(h)'
    BY <2>1, <2>2 DEF HandlerAt, Ending
  <2>4. k.borrower \in Borrowers /\ OutcomeOf(k) \in BorrowerReleaseOutcome
    BY <1>8, HandlerHas DEF EndBorrower, Handling, OutcomeOf, BorrowerReleaseOutcome
  <2>5. PICK u : u = calls[k].created_by_worker
    OBVIOUS
  <2>6. NothingReserved /\ ~Holds(k.borrower, u)'
    BY <1>8, <2>4, <2>5, GivenBack DEF EndBorrower
  <2>7. WorkStays
    BY <2>2, <2>3, <2>5, <2>6 DEF WorkStays, Pending, CallOpen
  <2> QED BY <1>0, <2>6, <2>7, WorkStep
<1> QED BY <1>1, <1>2, <1>3, <1>4, <1>5, <1>6, <1>7, <1>8 DEF Process

\* So does the recovery worker that has ended one.
LEMMA SweepWork ==
  ASSUME DialInv, WorkInv, FinishSweep
  PROVE  WorkInv'
<1>0. /\ HandsStay /\ SendersStay /\ UNCHANGED handler /\ rec \in Sweep
  BY SameWorkers, SweepHas DEF FinishSweep, CancelBoundCall, GiveBorrower, TakeAgent, SettleCall,
                               OrphanAgent
<1>1. CASE CancelBoundCall
  <2> DEFINE cancels == rec.call # NULL /\ CallTransitionMatches(calls[rec.call], "CANCELLED")
  <2>1. CASE cancels
    <3>1. /\ rec.call \in Keys /\ calls[rec.call] # NULL /\ rec.pc = "cancel"
          /\ calls' = [calls EXCEPT ![rec.call] = transition_call(@, "CANCELLED")]
          /\ rec' = [rec EXCEPT !.pc = "give"] /\ "CANCELLED" \in CallState
          /\ UNCHANGED borrowers
      BY <1>1, <2>1, SweepHas DEF CancelBoundCall, CallState, CALL_STATE_RANK
    <3>2. PICK k \in Keys : rec.call = k
      BY <3>1
    <3>3. /\ CallsKeep
          /\ calls'[k].created_by_worker = calls[k].created_by_worker
          /\ \A h \in Keys \ {k} : calls'[h] = calls[h]
      BY <3>1, <3>2, CallKept
    <3>4. rec'.pc = "give" /\ rec'.call = k
      BY <1>0, <3>1, <3>2 DEF Sweep
    <3>5. \A h \in Keys : Ending(h) => Ending(h)'
      BY <1>0, <3>1, <3>4 DEF Ending
    <3>6. Ending(k)'
      BY <3>4 DEF Ending
    <3>7. WorkStays
      BY <3>3, <3>5, <3>6 DEF WorkStays, Pending, CallOpen, CallsKeep
    <3> QED BY <1>0, <3>1, <3>7, SameBorrowers, WorkStep
  <2>2. CASE ~cancels
    <3>1. UNCHANGED calls /\ UNCHANGED borrowers /\ rec.pc = "cancel"
      BY <1>1, <2>2 DEF CancelBoundCall
    <3>2. \A h \in Keys : Ending(h) => Ending(h)'
      BY <1>0, <3>1 DEF Ending
    <3> QED BY <1>0, <3>1, <3>2, SameBorrowers, SameCalls, WorkIsLeft, WorkStep
  <2> QED BY <2>1, <2>2
<1>2. CASE GiveBorrower
  <2>1. /\ rec.call \in Keys /\ rec.call.borrower \in Borrowers /\ UNCHANGED calls
    BY <1>2, SweepHas DEF GiveBorrower
  <2>2. PICK k \in Keys : rec.call = k
    BY <2>1
  <2>3. PICK u : u = calls[k].created_by_worker
    OBVIOUS
  <2>4. BorrowerBecomes(k.borrower, release_borrower(borrowers[k.borrower], u, "RETRY", NOW))
    BY <1>2, <2>2, <2>3 DEF GiveBorrower
  <2>5. NothingReserved /\ ~Holds(k.borrower, u)'
    BY <2>1, <2>2, <2>4, GivenBack DEF BorrowerReleaseOutcome
  <2>6. \A h \in Keys \ {k} : Ending(h) => Ending(h)'
    BY <1>0, <2>2 DEF Ending
  <2>7. WorkStays
    BY <2>1, <2>3, <2>5, <2>6 DEF WorkStays, Pending, CallOpen
  <2> QED BY <1>0, <2>5, <2>7, WorkStep
<1>3. CASE TakeAgent
  <2>1. rec.pc = "take"
    BY <1>3 DEF TakeAgent
  <2>2. \A h \in Keys : Ending(h) => Ending(h)'
    BY <1>0, <2>1 DEF Ending
  <2> QED BY <1>0, <1>3, <2>2, SameBorrowers, SameCalls, WorkIsLeft, WorkStep DEF TakeAgent
<1>4. CASE SettleCall
  <2>1. /\ rec.call \in Keys /\ calls[rec.call] # NULL /\ rec.pc = "settle"
        /\ rec.target \in CallState /\ UNCHANGED borrowers
        /\ calls' = [calls EXCEPT ![rec.call] = transition_call(@, rec.target)]
    BY <1>4, SweepHas DEF SettleCall
  <2>2. PICK k \in Keys : rec.call = k
    BY <2>1
  <2>3. /\ CallsKeep
        /\ calls'[k].created_by_worker = calls[k].created_by_worker
        /\ \A h \in Keys \ {k} : calls'[h] = calls[h]
        /\ ~CallTransitionMatches(calls[k], rec.target) => calls'[k].state = calls[k].state
    BY <2>1, <2>2, CallKept
  <2>4. CallTransitionMatches(calls[k], rec.target) => Ending(k)'
    <3>1. CallTransitionMatches(calls[k], rec.target) =>
            rec' = [rec EXCEPT !.pc = "orphan_agent"]
      BY <1>4, <2>2 DEF SettleCall
    <3>2. CallTransitionMatches(calls[k], rec.target) =>
            rec'.pc = "orphan_agent" /\ rec'.call = k
      BY <1>0, <2>2, <3>1 DEF Sweep
    <3> QED BY <3>2 DEF Ending
  <2>5. \A h \in Keys : Ending(h) => Ending(h)'
    BY <1>0, <2>1 DEF Ending
  <2>6. WorkStays
    BY <2>3, <2>4, <2>5 DEF WorkStays, Pending, CallOpen, CallsKeep
  <2> QED BY <1>0, <2>1, <2>6, SameBorrowers, WorkStep
<1>5. CASE OrphanAgent
  <2>1. rec' = [rec EXCEPT !.pc = "orphan"]
    BY <1>5 DEF OrphanAgent
  <2>2. rec'.pc = "orphan" /\ rec'.call = rec.call
    BY <1>0, <2>1 DEF Sweep
  <2>3. \A h \in Keys : Ending(h) => Ending(h)'
    BY <1>0, <2>2 DEF Ending
  <2> QED BY <1>0, <1>5, <2>3, SameBorrowers, SameCalls, WorkIsLeft, WorkStep DEF OrphanAgent
<1> QED BY <1>1, <1>2, <1>3, <1>4, <1>5 DEF FinishSweep

LEMMA OtherWork ==
  ASSUME DialInv, WorkInv,
         \/ \E k \in Keys : SweepCall(k)
         \/ \E a \in Agents : SweepAgent(a) \/ LeaseLapses(a) \/ WrapUpEnds(a) \/ Login(a)
         \/ \E b \in Borrowers : SweepBorrower(b) \/ BorrowerLeaseLapses(b)
         \/ UNCHANGED vars
  PROVE  WorkInv'
<1>0. /\ HandsStay /\ SendersStay /\ CallsStayOpen
  BY SameWorkers, SameCalls
     DEF SweepCall, SweepAgent, LeaseLapses, WrapUpEnds, Login, SweepBorrower,
         BorrowerLeaseLapses, vars
<1>1. CASE (\E k \in Keys : SweepCall(k)) \/ (\E a \in Agents : SweepAgent(a))
  <2>1. rec.pc = "idle" /\ UNCHANGED handler /\ UNCHANGED borrowers
    BY <1>1 DEF SweepCall, SweepAgent
  <2>2. \A h \in Keys : Ending(h) => Ending(h)'
    BY <2>1 DEF Ending
  <2> QED BY <1>0, <2>1, <2>2, SameBorrowers, WorkIsLeft, WorkStep
<1>2. CASE \/ UNCHANGED vars
           \/ \E a \in Agents : LeaseLapses(a) \/ WrapUpEnds(a) \/ Login(a)
  <2>1. UNCHANGED <<handler, rec>> /\ UNCHANGED borrowers
    BY <1>2 DEF LeaseLapses, WrapUpEnds, Login, vars
  <2> QED BY <1>0, <2>1, SameBorrowers, EndsStay, WorkIsLeft, WorkStep
<1>3. ASSUME NEW b \in Borrowers, SweepBorrower(b) PROVE WorkInv'
  <2> DEFINE doc == reclaim_borrower(borrowers[b], borrowers[b], NOW)
  <2>1. /\ borrowers[b] \in BorrowerDocs /\ Dialable(borrowers[b]) /\ TypeOK /\ AttemptsLeft
        /\ BorrowerSweepable(borrowers[b], NOW)
    BY <1>3, DocumentTypes DEF SweepBorrower, DialInv
  <2>2. doc \in BorrowerDocs /\ Dialable(doc) /\ doc.status = "PENDING"
    BY <2>1, BorrowerReclaimed
  <2>3. BorrowerBecomes(b, doc)
    BY <1>3 DEF SweepBorrower
  <2> HIDE DEF doc
  <2>4. /\ borrowers'[b].status = "PENDING"
        /\ \A x \in Borrowers \ {b} : borrowers'[x] = borrowers[x]
    BY <2>1, <2>2, <2>3, BorrowerWritten
  <2>5. NothingReserved
    BY <2>4 DEF NothingReserved, Holds
  <2> QED BY <1>0, <1>3, <2>5, EndsStay, WorkIsLeft, WorkStep DEF SweepBorrower
<1>4. ASSUME NEW b \in Borrowers, BorrowerLeaseLapses(b) PROVE WorkInv'
  <2>1. NothingReserved
    BY <1>4, DocumentTypes
       DEF BorrowerLeaseLapses, NothingReserved, Holds, BorrowerDocs, BorrowerDoc, DialInv, TypeOK
  <2> QED BY <1>0, <1>4, <2>1, EndsStay, WorkIsLeft, WorkStep DEF BorrowerLeaseLapses
<1> QED BY <1>1, <1>2, <1>3, <1>4

NothingForgotten == faults = MaxFaults => WorkInv

\* Whoever fails has failed since the start: the fault is spent.
LEMMA FaultsAreSpent ==
  ASSUME DialInv, Faults
  PROVE  faults' # MaxFaults
<1>1. Fault
  BY DEF Faults, AttachFails, StopDial, DbError, Crash, HandlerFails, SweepSilent, Leave,
         RecoveryStops
<1> QED BY <1>1, DialingAssumption DEF Fault, DialInv, TypeOK

LEMMA NothingForgottenYet ==
  ASSUME DialInv, NothingForgotten, DialsOwnCalls, DialsOwnCalls', [Next]_vars
  PROVE  NothingForgotten'
<1>1. ASSUME faults = MaxFaults, ~Faults PROVE WorkInv'
  <2>1. WorkInv
    BY <1>1 DEF NothingForgotten
  <2> QED BY <1>1, <2>1, ProceedWork, BeginWork, ProcessWork, SweepWork, OtherWork DEF Next
<1>2. CASE Faults
  BY <1>2, FaultsAreSpent DEF NothingForgotten
<1>3. CASE ~Faults
  <2>1. ASSUME NEW w \in Workers, Proceed(w) PROVE UNCHANGED faults
    BY <2>1 DEF Proceed, NoBorrower, UndoAgent, CreateCall, CallExists, MarkReserved,
                MarkInitiated, MarkDialing, BindCall, Originate, OriginateFails, Attach,
                ReleaseAgent, ReleaseBorrower, ClaimBorrower
  <2>2. ASSUME NEW w \in Workers, RetryGateCloses(w) \/ \E a \in Agents : ClaimAgent(w, a)
        PROVE  UNCHANGED faults
    BY <2>2 DEF RetryGateCloses, ClaimAgent
  <2>3. ASSUME NEW k \in Keys, Process(k) \/ SweepCall(k) PROVE UNCHANGED faults
    BY <2>3 DEF Process, Deliver, ProviderFinishes, LookupCall, ApplyEvent, ReadAgent,
                MoveAgent, EndAgent, EndBorrower, SweepCall
  <2>4. ASSUME \E a \in Agents : SweepAgent(a) \/ LeaseLapses(a) \/ WrapUpEnds(a) \/ Login(a)
        PROVE  UNCHANGED faults
    BY <2>4 DEF SweepAgent, LeaseLapses, WrapUpEnds, Login
  <2>5. ASSUME \E b \in Borrowers : SweepBorrower(b) \/ BorrowerLeaseLapses(b)
        PROVE  UNCHANGED faults
    BY <2>5 DEF SweepBorrower, BorrowerLeaseLapses
  <2>6. ASSUME FinishSweep PROVE UNCHANGED faults
    BY <2>6 DEF FinishSweep, CancelBoundCall, GiveBorrower, TakeAgent, SettleCall, OrphanAgent
  <2>7. UNCHANGED faults
    BY <1>3, <2>1, <2>2, <2>3, <2>4, <2>5, <2>6 DEF Next, vars
  <2> QED BY <1>1, <1>3, <2>7 DEF NothingForgotten
<1> QED BY <1>2, <1>3

LEMMA NothingReservedAtFirst ==
  ASSUME Init
  PROVE  NothingForgotten
<1>1. \A b \in Borrowers, u \in Workers : ~Holds(b, u)
  BY DEF Init, Holds, NewBorrower
<1>2. \A w \in Workers : worker[w].pc \notin Sending
  BY DEF Init, Idle, Sending
<1> QED BY <1>1, <1>2 DEF NothingForgotten, WorkInv

LEMMA SomebodyIsAtWork ==
  ASSUME DialInv, NothingForgotten
  PROVE  ReservedBorrowersAreInWork
<1>1. SUFFICES ASSUME faults = MaxFaults, NEW b \in Borrowers, borrowers[b].status = "RESERVED"
               PROVE  \/ \E w \in Workers : worker[w].borrower = b
                      \/ \E k \in Keys : k.borrower = b /\ calls[k] # NULL
                                         /\ (CallOpen(k) \/ ~Quiet(k))
  BY DEF ReservedBorrowersAreInWork
<1>2. PICK u \in Workers : Holds(b, u)
  BY <1>1, DocumentTypes DEF Dialable, Holds
<1>3. \A k \in Keys : Ending(k) => ~Quiet(k)
  BY DEF Ending, Quiet
<1> QED BY <1>1, <1>2, <1>3 DEF NothingForgotten, WorkInv, Pending

\* As long as nothing fails and every worker dials only calls it has created, a reserved
\* borrower is always somebody's work, whatever leases lapse and however the allocators,
\* the events and the sweeps meet.  The hypothesis is needed with several workers: one that
\* dials on a call another has created (MCDialingTakeover.cfg) leaves its borrower to a
\* release in the wrong name.
THEOREM NoReleaseIsForgotten ==
  Spec /\ []DialsOwnCalls => []ReservedBorrowersAreInWork
<1>1. Init => NothingForgotten
  BY NothingReservedAtFirst
<1>2. DialInv /\ NothingForgotten /\ DialsOwnCalls /\ DialsOwnCalls' /\ [Next]_vars
        => NothingForgotten'
  BY NothingForgottenYet
<1>3. DialInv /\ NothingForgotten => ReservedBorrowersAreInWork
  BY SomebodyIsAtWork
<1> QED BY <1>1, <1>2, <1>3, DialsStayInOrder, PTL DEF Spec

\* With one worker process every call is its own.
LEMMA OneWorkerDialsItsOwn ==
  ASSUME DialInv, \A v, w \in Workers : v = w
  PROVE  DialsOwnCalls
<1>1. ASSUME NEW w \in Workers, worker[w].pc \in Sending
      PROVE  calls[KeyOf(w)].created_by_worker = w
  <2>1. KeyOf(w) \in Keys /\ calls[KeyOf(w)] # NULL
    BY <1>1, WorkerHas DEF Paired, Prepared
  <2>2. calls[KeyOf(w)].created_by_worker \in Workers
    BY <2>1, DocumentTypes DEF CallDocs, CallDoc
  <2> QED BY <2>2
<1> QED BY <1>1 DEF DialsOwnCalls, Sending

\* README, "A single deployed instance runs one dialer worker": there the hypothesis holds
\* by itself.
THEOREM OneWorkerForgetsNothing ==
  ASSUME \A v, w \in Workers : v = w
  PROVE  Spec => []ReservedBorrowersAreInWork
<1>1. DialInv => DialsOwnCalls
  BY OneWorkerDialsItsOwn
<1> QED BY <1>1, DialsStayInOrder, NoReleaseIsForgotten, PTL
=======================================================================================
