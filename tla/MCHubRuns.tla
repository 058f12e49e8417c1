----------------------------- MODULE MCHubRuns -----------------------------
(* Instances of HubRuns for TLC. *)
EXTENDS HubRuns

CONSTANTS r1, r2, r3, s1

OneSession == [r \in Run |-> s1]

=============================================================================
