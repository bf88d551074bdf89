---------------------------------- MODULE Documents ----------------------------------
(* What the documents of app/repositories share: null fields and leases.              *)
EXTENDS Naturals

CONSTANT NULL                 \* None / null of the documents

ASSUME NullAssumption == NULL \notin Nat

\* {"lease_expires_at": {"$lt": at}}: null never compares below an instant.
LeaseOver(lease, at) == lease # NULL /\ lease < at
======================================================================================
