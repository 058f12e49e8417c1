---------------------------- MODULE MCCronQueue ----------------------------
(* Instances of CronQueue for TLC. *)
EXTENDS CronQueue

CONSTANTS p1, p2, sA, sB

\* Two runs of sA, at most one of them at a time, and two of sB.
OneRun == 1 .. 1
TwoRuns == 1 .. 2
FourRuns == 1 .. 4
OneSpecOf == [r \in Run |-> sA]
TwoSpecOf == [r \in Run |-> IF r > 2 THEN sB ELSE sA]
Parallel == [s \in SpecId |-> IF s = sB THEN 2 ELSE 1]
OneParallel == [s \in SpecId |-> 1]

=============================================================================
