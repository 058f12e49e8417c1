--------------------------- MODULE MCSessionTurns ---------------------------
(* Instances of SessionTurns for TLC. *)
EXTENDS SessionTurns

CONSTANTS c1, c2, tA, tB

\* Each client has its own prompt.
Prompts == [c \in Client |-> IF c = c1 THEN tA ELSE tB]

=============================================================================
