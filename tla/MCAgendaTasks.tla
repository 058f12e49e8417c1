---------------------------- MODULE MCAgendaTasks ----------------------------
(* Instances of AgendaTasks for TLC. *)
EXTENDS AgendaTasks, TLC

CONSTANTS c1, c2, t1, t2

Runs(m, n) == t1 :> m @@ t2 :> n

\* Two calls under way on one task, which may run twice, be edited.
OneTask ==
  [tasks |-> {t1}, chains |-> {c1, c2}, runs |-> Runs(2, 0), edits |-> Runs(1, 0),
   files |-> {t1}, expiring |-> {}, faults |-> 1]

\* Two tasks that run once, whose files may be deleted together: one of them may end
\* its turn while the other is cancelled.
TwoTasks ==
  [tasks |-> {t1, t2}, chains |-> {c1}, runs |-> Runs(1, 1), edits |-> Runs(0, 0),
   files |-> {t1, t2}, expiring |-> {}, faults |-> 0]

\* They are disposed of or crash; the disposal or the recovery may be broken off.
TwoTasksLoop == [TwoTasks EXCEPT !.files = {}, !.faults = 2]

\* One call at a time, on a task that may be edited and expire.
Expiring == [OneTask EXCEPT !.chains = {c1}, !.runs = Runs(1, 0), !.expiring = {t1}]

\* One that runs a second time after a recovery that was itself broken off.
Again == [OneTask EXCEPT !.chains = {c1}, !.edits = Runs(0, 0), !.faults = 2]

Instances == {OneTask, TwoTasks, TwoTasksLoop, Expiring, Again}

=============================================================================
