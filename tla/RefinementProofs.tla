-------------------------------- MODULE RefinementProofs --------------------------------
(* Reservation implements ExclusiveClaims, for every number of agents, borrowers, workers *)
(* and dials: a step of the code that starts a claim is an acquisition of a resource that  *)
(* was nobody's, and every other step at most yields some.                                *)
EXTENDS ReservationProofs, ReservationRefinement

\* A dial that looks for a borrower has none.
NoBorrowerYet ==
  \A d \in Dials : pc[d] \in {"find_borrower", "claim_borrower"} => pair[d].borrower = NULL

OwnerInv == ClaimInv /\ AgentExclusive /\ BorrowerExclusive /\ NoBorrowerYet

LEMMA NoBorrowerYetStep ==
  ASSUME TypeOK, NoBorrowerYet, [Next]_vars
  PROVE  NoBorrowerYet'
  <1> USE DEF NoBorrowerYet
  <1>0. /\ pc \in [Dials -> DialPcs] /\ pair \in [Dials -> Pairs] /\ rec \in RecoveryState
    BY DEF TypeOK
  <1>1. CASE Tick \/ AgentStep \/ UNCHANGED vars
    <2>1. pc' = pc /\ pair' = pair
      BY <1>1 DEF Tick, AgentStep, AgentActs, WrapUpEnds, vars
    <2> QED BY <2>1
  <1>2. CASE Recovery
    <2>1. CASE \E s \in rec.agents : HandleCandidate(s)
      <3> PICK s \in rec.agents : HandleCandidate(s)
        BY <2>1
      <3>1. \A e \in Dials : pc'[e] = "done" \/ (pc'[e] = pc[e] /\ pair'[e] = pair[e])
        BY <1>0 DEF HandleCandidate, Finish
      <3> QED BY <3>1
    <2>2. CASE pc' = pc /\ pair' = pair
      BY <2>2
    <2> QED BY <1>2, <2>1, <2>2 DEF Recovery, SweepLeases, ReleaseCancelled, ReleaseCandidate,
              SweepBorrowers, SweepHeartbeats, EndSweeps, RecoveryStops, ReclaimBorrower
  <1>3. CASE \E d \in Dials : Dial(d)
    <2> PICK d \in Dials : Dial(d)
      BY <1>3
    <2>1. \A e \in Dials :
            \/ pc'[e] \notin {"find_borrower", "claim_borrower"}
            \/ pc'[e] = pc[e] /\ pair'[e] = pair[e]
      BY <1>0 DEF Dial, MarkDialing, BindCall, Originated, AgentConnects, NotDialled,
         OriginateFails, DialCancelled, CallCompleted, CallFailed, OrphanReconciled,
         StartRelease, ReleaseAgentStep, ReleaseBorrowerStep, Crash, Recycle, Finish, Abandon
    <2> QED BY <2>1
  <1>4. CASE \E d \in Dials : Claim(d)
    <2> PICK d \in Dials : Claim(d)
      BY <1>4
    <2>1. \A e \in Dials \ {d} : pc'[e] = pc[e] /\ pair'[e] = pair[e]
      BY <1>0 DEF Claim, FindAgents, NoAgentLeft, FindBorrowers, BorrowerClaimFails, UndoAgent,
         TryReserveAgent, TryReserveBorrower, AgentContended, BorrowerContended,
         BorrowerReplyLost, Finish
    <2>2. \/ pc'[d] \notin {"find_borrower", "claim_borrower"}
          \/ pc[d] \in {"find_borrower", "claim_borrower"} /\ pair'[d] = pair[d]
          \/ pair'[d].borrower = NULL
      BY <1>0 DEF Claim, FindAgents, NoAgentLeft, FindBorrowers, BorrowerClaimFails, UndoAgent,
         TryReserveAgent, TryReserveBorrower, AgentContended, BorrowerContended,
         BorrowerReplyLost, Finish, NoPair
    <2> QED BY <2>1, <2>2
  <1> QED BY <1>1, <1>2, <1>3, <1>4 DEF Next

LEMMA OwnerStep == OwnerInv /\ NoStaleTwin /\ [Next]_vars => OwnerInv'
  BY ClaimStep, ExclusiveStep, NoBorrowerYetStep DEF OwnerInv, ClaimInv

LEMMA OwnerInit == Init => OwnerInv
  <1>1. Init => AgentExclusive /\ BorrowerExclusive /\ NoBorrowerYet
    BY DEF Init, AgentExclusive, BorrowerExclusive, AgentClaimRuns, BorrowerClaimRuns,
       NoBorrowerYet
  <1> QED BY <1>1, ClaimInit DEF OwnerInv

--------------------------------------------------------------------------------------
(* Who owns what.                                                                      *)

\* An agent's claimants claim it as an agent, a borrower's as a borrower.
LEMMA ClaimantsAre ==
  ASSUME OwnerInv, NEW r \in ClaimableResources
  PROVE  /\ r \in Agents \ Leavers =>
              ClaimantsOf(r) = { d \in Dials : AgentClaimRuns(d) /\ pair[d].agent = r }
         /\ r \in Borrowers =>
              ClaimantsOf(r) = { d \in Dials : BorrowerClaimRuns(d) /\ pair[d].borrower = r }
         /\ r \in Agents \ Leavers \/ r \in Borrowers
  BY ConstantFacts, ResourcesAssumption
     DEF OwnerInv, ClaimInv, TypeOK, Pairs, ClaimantsOf, ClaimableResources

LEMMA AtMostOneClaimant ==
  ASSUME OwnerInv, NEW r \in ClaimableResources,
         NEW d \in ClaimantsOf(r), NEW e \in ClaimantsOf(r)
  PROVE  d = e
  BY ClaimantsAre DEF OwnerInv, AgentExclusive, BorrowerExclusive

LEMMA OwnerIs ==
  ASSUME OwnerInv, NEW r \in ClaimableResources
  PROVE  /\ ClaimantsOf(r) = {} => ownerOf[r] = NULL
         /\ \A d \in ClaimantsOf(r) : ownerOf[r] = d /\ d \in Dials
  <1>1. ClaimantsOf(r) \subseteq Dials
    BY DEF ClaimantsOf
  <1>2. ownerOf[r] = IF ClaimantsOf(r) = {} THEN NULL ELSE CHOOSE d \in ClaimantsOf(r) : TRUE
    BY DEF ownerOf
  <1>3. ASSUME NEW d \in ClaimantsOf(r)
        PROVE  ownerOf[r] = d
    <2>1. (CHOOSE e \in ClaimantsOf(r) : TRUE) \in ClaimantsOf(r)
      BY <1>3
    <2> QED BY <1>2, <2>1, AtMostOneClaimant
  <1> QED BY <1>1, <1>2, <1>3

OwnersAre ==
  \A r \in ClaimableResources :
    /\ ClaimantsOf(r) = {} => ownerOf[r] = NULL
    /\ \A d \in ClaimantsOf(r) : ownerOf[r] = d /\ d \in Dials

LEMMA NextOwnersAre == OwnerInv' => OwnersAre'
  <1>1. OwnerInv => OwnersAre
    BY OwnerIs DEF OwnersAre
  <1> QED BY <1>1, PTL

--------------------------------------------------------------------------------------
(* Steps of the code and steps of ExclusiveClaims.                                     *)

\* Without a new claim resources are at most yielded.
LEMMA NoNewClaimYields ==
  ASSUME OwnerInv, OwnerInv', NoNewAgentClaim, NoNewBorrowerClaim,
         now \in Nat, now' \in Nat, now <= now'
  PROVE  \E S \in SUBSET ClaimableResources : Claims!Yield(S)
  <1> DEFINE S == { r \in ClaimableResources : ownerOf'[r] = NULL }
  <1>1. ASSUME NEW r \in ClaimableResources
        PROVE  ClaimantsOf(r)' \subseteq ClaimantsOf(r)
    <2>1. \A e \in Dials : pair[e] \in Pairs
      BY DEF OwnerInv, ClaimInv, TypeOK
    <2> QED BY <2>1 DEF ClaimantsOf, AgentClaimRuns, BorrowerClaimRuns, NoNewAgentClaim,
              NoNewBorrowerClaim, Pairs
  <1>2. ASSUME NEW r \in ClaimableResources
        PROVE  ownerOf'[r] = IF r \in S THEN NULL ELSE ownerOf[r]
    <2>1. CASE ClaimantsOf(r)' = {}
      BY <2>1, NextOwnersAre DEF OwnersAre
    <2>2. CASE ClaimantsOf(r)' # {}
      <3> PICK d \in ClaimantsOf(r)' : TRUE
        BY <2>2
      <3>1. ownerOf'[r] = d /\ d # NULL
        BY NextOwnersAre, ConstantFacts DEF OwnersAre
      <3>2. ownerOf[r] = d
        BY <1>1, OwnerIs
      <3> QED BY <3>1, <3>2
    <2> QED BY <2>1, <2>2
  <1>3. ownerOf' = [r \in ClaimableResources |-> ownerOf'[r]]
    BY DEF ownerOf
  <1>4. ownerOf' = [r \in ClaimableResources |-> IF r \in S THEN NULL ELSE ownerOf[r]]
    BY <1>2, <1>3
  <1> HIDE DEF S
  <1>5. Claims!Yield(S)
    BY <1>4 DEF Claims!Yield
  <1>6. S \subseteq ClaimableResources
    BY DEF S
  <1> QED BY <1>5, <1>6

\* One resource gains its first claimant, the others keep theirs.
LEMMA FirstClaimantAcquires ==
  ASSUME OwnerInv, OwnerInv', NEW x \in ClaimableResources, NEW d \in Dials,
         ClaimantsOf(x) = {}, d \in ClaimantsOf(x)',
         \A r \in ClaimableResources \ {x} : ClaimantsOf(r)' = ClaimantsOf(r)
  PROVE  Claims!Acquire(x, d)
  <1>1. ownerOf[x] = NULL /\ ownerOf'[x] = d
    BY OwnerIs, NextOwnersAre DEF OwnersAre
  <1>2. ASSUME NEW r \in ClaimableResources \ {x}
        PROVE  ownerOf'[r] = ownerOf[r]
    BY OwnerIs, NextOwnersAre DEF OwnersAre
  <1>3. ownerOf = [r \in ClaimableResources |-> ownerOf[r]]
        /\ ownerOf' = [r \in ClaimableResources |-> ownerOf'[r]]
    BY DEF ownerOf
  <1>4. ownerOf' = [ownerOf EXCEPT ![x] = d]
    BY <1>1, <1>2, <1>3
  <1> QED BY <1>1, <1>4 DEF Claims!Acquire

\* No resource changes its claimants.
LEMMA SameClaimantsStutter ==
  ASSUME OwnerInv, OwnerInv',
         \A r \in ClaimableResources : ClaimantsOf(r)' = ClaimantsOf(r)
  PROVE  ownerOf' = ownerOf
  <1>1. ASSUME NEW r \in ClaimableResources
        PROVE  ownerOf'[r] = ownerOf[r]
    BY OwnerIs, NextOwnersAre DEF OwnersAre
  <1>2. ownerOf = [r \in ClaimableResources |-> ownerOf[r]]
        /\ ownerOf' = [r \in ClaimableResources |-> ownerOf'[r]]
    BY DEF ownerOf
  <1> QED BY <1>1, <1>2

LEMMA AgentClaimAcquires ==
  ASSUME OwnerInv, OwnerInv', NEW d \in Dials, NEW a \in Agents, TryReserveAgent(d, a)
  PROVE  \/ a \in ClaimableResources /\ Claims!Acquire(a, d)
         \/ ownerOf' = ownerOf
  <1> USE ConstantFacts
  <1>0. /\ pair \in [Dials -> Pairs] /\ held \in [Dials -> BOOLEAN] /\ now \in Nat
        /\ HeldWhileDialling
    BY DEF OwnerInv, ClaimInv, TypeOK
  <1>1. /\ \A e \in Dials \ {d} : pair'[e] = pair[e] /\ held'[e] = held[e]
        /\ pair'[d].agent = a /\ pair'[d].borrower = NULL
        /\ pair'[d].agentLease = now + RESERVATION_TTL
        /\ held'[d] = TRUE /\ now' = now
    BY <1>0 DEF TryReserveAgent, NoPair
  <1>2. ~held[d]
    BY <1>0 DEF HeldWhileDialling, TryReserveAgent
  <1>3. ASSUME NEW r \in ClaimableResources, r # a
        PROVE  ClaimantsOf(r)' = ClaimantsOf(r)
    <2>1. r # NULL
      BY DEF ClaimableResources
    <2>2. \A e \in Dials : e \in ClaimantsOf(r)' <=> e \in ClaimantsOf(r)
      BY <1>1, <1>2, <1>3, <2>1 DEF ClaimantsOf, AgentClaimRuns, BorrowerClaimRuns
    <2> QED BY <2>2 DEF ClaimantsOf
  <1>4. CASE a \in Leavers
    <2>1. a \notin ClaimableResources
      BY <1>4, ResourcesAssumption DEF ClaimableResources
    <2> QED BY <1>3, <2>1, SameClaimantsStutter
  <1>5. CASE a \notin Leavers
    <2>1. a \in ClaimableResources
      BY <1>5 DEF ClaimableResources
    <2>2. d \in ClaimantsOf(a)'
      BY <1>0, <1>1 DEF ClaimantsOf, AgentClaimRuns
    <2>3. ClaimantsOf(a) = {}
      <3>1. ClaimantsOf(a) = { e \in Dials : AgentClaimRuns(e) /\ pair[e].agent = a }
        BY <1>5, <2>1, ClaimantsAre
      <3>2. \A e \in Dials : AgentClaimRuns(e) => pair[e].agent # a
        BY <1>5 DEF OwnerInv, ClaimInv, AgentClaimStands, TryReserveAgent, Claimable
      <3> QED BY <3>1, <3>2
    <2>4. Claims!Acquire(a, d)
      BY <1>3, <2>1, <2>2, <2>3, FirstClaimantAcquires
    <2> QED BY <2>1, <2>4
  <1> QED BY <1>4, <1>5

LEMMA BorrowerClaimAcquires ==
  ASSUME OwnerInv, OwnerInv', NEW d \in Dials, NEW b \in Borrowers, TryReserveBorrower(d, b)
  PROVE  \/ b \in ClaimableResources /\ Claims!Acquire(b, d)
         \/ ownerOf' = ownerOf
  <1> USE ConstantFacts
  <1>0. /\ pair \in [Dials -> Pairs] /\ held \in [Dials -> BOOLEAN] /\ now \in Nat
        /\ pair[d].borrower = NULL
    BY DEF OwnerInv, ClaimInv, TypeOK, NoBorrowerYet, TryReserveBorrower
  <1>1. /\ \A e \in Dials \ {d} : pair'[e] = pair[e]
        /\ pair'[d].agent = pair[d].agent /\ pair'[d].agentLease = pair[d].agentLease
        /\ pair'[d].borrower = b /\ pair'[d].borrowerLease = now + RESERVATION_TTL
        /\ held' = held /\ now' = now
    BY <1>0 DEF TryReserveBorrower, Pairs
  <1>2. ASSUME NEW r \in ClaimableResources, r # b
        PROVE  ClaimantsOf(r)' = ClaimantsOf(r)
    <2>1. r # NULL
      BY DEF ClaimableResources
    <2>2. \A e \in Dials : e \in ClaimantsOf(r)' <=> e \in ClaimantsOf(r)
      BY <1>0, <1>1, <1>2, <2>1 DEF ClaimantsOf, AgentClaimRuns, BorrowerClaimRuns
    <2> QED BY <2>2 DEF ClaimantsOf
  <1>3. b \in ClaimableResources
    BY DEF ClaimableResources
  <1>4. ClaimantsOf(b) = {}
    <2>1. ClaimantsOf(b) = { e \in Dials : BorrowerClaimRuns(e) /\ pair[e].borrower = b }
      BY <1>3, ClaimantsAre
    <2>2. \A e \in Dials : BorrowerClaimRuns(e) => pair[e].borrower # b
      BY DEF OwnerInv, ClaimInv, BorrowerClaimStands, TryReserveBorrower, BorrowerClaimable
    <2> QED BY <2>1, <2>2
  <1>5. CASE held[d]
    <2>1. d \in ClaimantsOf(b)'
      BY <1>0, <1>1, <1>5 DEF ClaimantsOf, BorrowerClaimRuns
    <2> QED BY <1>2, <1>3, <1>4, <2>1, FirstClaimantAcquires
  <1>6. CASE ~held[d]
    <2>1. ClaimantsOf(b)' = ClaimantsOf(b)
      <3>1. \A e \in Dials : e \in ClaimantsOf(b)' <=> e \in ClaimantsOf(b)
        BY <1>0, <1>1, <1>6 DEF ClaimantsOf, AgentClaimRuns, BorrowerClaimRuns
      <3> QED BY <3>1 DEF ClaimantsOf
    <2> QED BY <1>2, <2>1, SameClaimantsStutter
  <1> QED BY <1>5, <1>6

LEMMA StepRefines ==
  ASSUME OwnerInv, OwnerInv', [Next]_vars
  PROVE  Claims!Next \/ ownerOf' = ownerOf
  <1>1. CASE \E d \in Dials, a \in Agents : TryReserveAgent(d, a)
    BY <1>1, AgentClaimAcquires DEF Claims!Next
  <1>2. CASE \E d \in Dials, b \in Borrowers : TryReserveBorrower(d, b)
    BY <1>2, BorrowerClaimAcquires DEF Claims!Next
  <1>3. CASE NoNewAgentClaim /\ NoNewBorrowerClaim
    <2>1. now \in Nat /\ now' \in Nat /\ now <= now'
      BY ClockStep DEF OwnerInv, ClaimInv
    <2> QED BY <1>3, <2>1, NoNewClaimYields DEF Claims!Next
  <1> QED BY <1>1, <1>2, <1>3, WhoClaims DEF OwnerInv

LEMMA InitRefines == Init => Claims!Init
  <1>1. Init => \A r \in ClaimableResources : ClaimantsOf(r) = {}
    BY DEF Init, ClaimantsOf, AgentClaimRuns, BorrowerClaimRuns
  <1>2. (\A r \in ClaimableResources : ClaimantsOf(r) = {}) =>
          ownerOf = [r \in ClaimableResources |-> NULL]
    BY DEF ownerOf
  <1> QED BY <1>1, <1>2 DEF Claims!Init

\* The reservation code, crashes, late releases, sweeps and lost replies included, implements
\* the promise of ExclusiveClaims: whoever relies on an agent or a borrower was given it when
\* it was nobody's, and it is never taken over from a dial that may still rely on it.
THEOREM ReservationImplementsExclusiveClaims ==
  Spec /\ []NoStaleTwin => ImplementsExclusiveClaims
  <1>1. OwnerInv /\ OwnerInv' /\ [Next]_vars => [Claims!Next]_ownerOf
    BY StepRefines
  <1> QED BY <1>1, OwnerInit, OwnerStep, InitRefines, PTL
        DEF Spec, ImplementsExclusiveClaims, Claims!Spec
========================================================================================
