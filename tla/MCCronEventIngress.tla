------------------------- MODULE MCCronEventIngress -------------------------
(* Instances of CronEventIngress for TLC. *)
EXTENDS CronEventIngress, TLC

CONSTANTS p1, p2, e1, e2, e3, kA, kB, s1

\* Two events have one key and the third another one.
Keys == [e \in Event |-> IF e = e3 THEN kB ELSE kA]
AllMatch == [s \in SpecId |-> Event]

Debounces == [s \in SpecId |-> 1]
\* The window is longer than the cooldown, so that it decides on its own.
Windows == [s \in SpecId |-> 2]
Cooldowns == [s \in SpecId |-> 1]

Symmetry == Permutations(Process) \cup Permutations({e1, e2})

=============================================================================
