-------------------------- MODULE MCCronSchedule --------------------------
(* Instances of CronSchedule for TLC. *)
EXTENDS CronSchedule, TLC

CONSTANTS p1, p2, h1, f1

OneOffFile == [f \in File |-> "one_off"]
ScheduleFile == [f \in File |-> "schedule"]

Symmetry == Permutations(Proc)

=============================================================================
