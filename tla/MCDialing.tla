---------------------------------- MODULE MCDialing ----------------------------------
(* Small instances of Dialing for TLC.                                                 *)
EXTENDS Dialing, TLC

CONSTANTS a1, a2, b1, b2, w1, w2

\* No delay between attempts.
MCBackoff == [n \in 1 .. MAX_CALL_ATTEMPTS |-> 0]

\* Worker ids are interchangeable: no action and no invariant names one.
MCSymmetry == Permutations(Workers)

\* A campaign whose first attempts have failed (ringing, then no answer): every agent has
\* finished its wrap-up, every borrower waits for its second attempt.
FailedOnce(w) ==
  [ attach_provider_call_id(NewCall(w)) EXCEPT !.state = "FAILED" ]

InitSecondAttempt ==
  \E w \in Workers, a \in Agents : LET tried == { k \in Keys : k.agent = a /\ k.attempt = 1 } IN
    /\ agents = [x \in Agents |-> NewAgent("AVAILABLE")]
    /\ borrowers = [b \in Borrowers |-> [NewBorrower EXCEPT !.attempt_count = 1]]
    /\ calls = [k \in Keys |-> IF k \in tried THEN FailedOnce(w) ELSE NULL]
    /\ recorded = [k \in Keys |-> IF k \in tried THEN {"RINGING", "FAILED"} ELSE {}]
    /\ provider = [k \in Keys |-> IF k \in tried
         THEN [by |-> w, todo |-> <<>>, answered |-> FALSE, status |-> "FAILED"] ELSE NULL]
    /\ worker = [x \in Workers |-> Idle]
    /\ handler = [k \in Keys |-> NoEvent]
    /\ rec = NoSweep
    /\ faults = MaxFaults
    /\ claims = MaxClaims

SecondAttemptSpec == InitSecondAttempt /\ [][Next]_vars
======================================================================================
