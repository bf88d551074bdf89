--------------------------------- MODULE MCReservation ---------------------------------
(* Small instances of Reservation for TLC.                                             *)
EXTENDS ReservationRefinement, TLC

CONSTANTS a1, b1, b2, d1, d2, w1, w2

\* Two processes with a dial each, or one process with both.
MCWorkerOf == (d1 :> w1) @@ (d2 :> w2)
MCSharedWorker == (d1 :> w1) @@ (d2 :> w1)

\* RETRY_BACKOFF_BASE_SECONDS * 2^(n-1) with a base of 0: a retry is eligible at once,
\* the case in which claims meet most often.
MCBackoff == [n \in 1 .. MAX_CALL_ATTEMPTS |-> 0]
========================================================================================
