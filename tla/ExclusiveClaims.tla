-------------------------------- MODULE ExclusiveClaims --------------------------------
(* What a reservation layer promises, without saying how: a resource has at most one    *)
(* owner, and passes from one owner to another only through being nobody's.  Any set of  *)
(* resources may become nobody's at any moment (given back, or their time is over).      *)

CONSTANTS Resources, Claimants,
          Nobody      \* not a claimant

VARIABLE owner

Init == owner = [r \in Resources |-> Nobody]

Acquire(r, c) ==
  /\ owner[r] = Nobody
  /\ owner' = [owner EXCEPT ![r] = c]

Yield(S) == owner' = [r \in Resources |-> IF r \in S THEN Nobody ELSE owner[r]]

Next ==
  \/ \E r \in Resources, c \in Claimants : Acquire(r, c)
  \/ \E S \in SUBSET Resources : Yield(S)

Spec == Init /\ [][Next]_owner
========================================================================================
