---------------------------- MODULE FifoService ----------------------------
(***************************************************************************)
(* What the hub's run queue promises about each session: runs are served   *)
(* one at a time in the order in which they arrived, each of them once.    *)
(* A service may end and the next one begin in the same step.              *)
(***************************************************************************)
EXTENDS Naturals

CONSTANTS Run, Session, SessionOf

VARIABLES
  place,     \* where each run is
  arrived    \* its number in the order of arrival; 0 before it arrives

Init ==
  /\ place = [r \in Run |-> "outside"]
  /\ arrived = [r \in Run |-> 0]

Late(r) == \A x \in Run : arrived[x] < arrived'[r]

\* r arrives behind everybody else.
Arrives(r) ==
  /\ place[r] = "outside"
  /\ arrived'[r] > 0 /\ Late(r)
  /\ \A x \in Run \ {r} : arrived'[x] = arrived[x]

Line(s) == {r \in Run : SessionOf[r] = s /\ place[r] = "waiting"}

\* r is taken into service: it is the first of its line and nobody else of its
\* session stays in service.
Served(r) ==
  /\ \A x \in Line(SessionOf[r]) : arrived'[r] <= arrived[x]
  /\ \A x \in Run \ {r} : SessionOf[x] = SessionOf[r] => place'[x] # "inService"

RunStep(r) ==
  \/ place'[r] = place[r]
  \/ place[r] = "outside" /\ Arrives(r) /\ place'[r] = "waiting"
  \/ place[r] = "outside" /\ Arrives(r) /\ Served(r) /\ place'[r] = "inService"
  \/ place[r] = "waiting" /\ Served(r) /\ place'[r] = "inService"
  \/ place[r] = "inService" /\ place'[r] = "served"

Next ==
  /\ \A r \in Run : RunStep(r)
  /\ \A r \in Run : arrived'[r] = arrived[r] \/ Arrives(r)

Spec == Init /\ [][Next]_<<place, arrived>>

=============================================================================
