----------------------------- MODULE ReservationRefinement -----------------------------
(* Reservation implements ExclusiveClaims: the owner of an agent or a borrower is the    *)
(* dial whose claim on it runs.  Agents that leave in mid-call are not resources here.   *)
EXTENDS Reservation

\* Documents of two collections.
ASSUME ResourcesAssumption == Agents \cap Borrowers = {}

ClaimableResources == (Agents \ Leavers) \cup Borrowers

\* The dials whose claim on the agent or borrower r runs now.
ClaimantsOf(r) ==
  { d \in Dials : \/ AgentClaimRuns(d) /\ pair[d].agent = r
                  \/ BorrowerClaimRuns(d) /\ pair[d].borrower = r }

ownerOf == [ r \in ClaimableResources |->
               IF ClaimantsOf(r) = {} THEN NULL ELSE CHOOSE d \in ClaimantsOf(r) : TRUE ]

Claims == INSTANCE ExclusiveClaims
            WITH Resources <- ClaimableResources, Claimants <- Dials, Nobody <- NULL,
                 owner <- ownerOf

\* Every step of the reservation code is an acquisition of a free resource, a yielding of
\* some, or invisible: a claim is never taken over from a dial that may still rely on it.
ImplementsExclusiveClaims == Claims!Spec
========================================================================================
