------------------------------- MODULE MCAgentPresence -------------------------------
(* Small instances of AgentPresence.                                                      *)
EXTENDS AgentPresence

CONSTANTS a1, r1, r2, w1

\* Requests are answered and leases run out as well: what silent agents wait for is recovery.
SilentSpec == FairSpec /\ \A a \in Agents : WF_vars(Handle(a)) /\ WF_vars(Released(a))
======================================================================================
