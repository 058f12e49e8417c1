----------------------------- MODULE MCHubEvents -----------------------------
(* Instances of HubEvents for TLC. *)
EXTENDS HubEvents

CONSTANTS s1, s2, a1

\* A client of every session, one of a session, one with both subscriptions.
Subscriptions == {{All}, {s1}, {All, s1}}
Single == {{All}, {s1}}
\* Two disturbances for a client with one subscription, one for a client with two.
Faults == [K \in KeySets |-> IF Cardinality(K) = 1 THEN 2 ELSE 1]
ApprovalOfFirst == [a \in Approval |-> s1]

=============================================================================
