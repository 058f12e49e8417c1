SPECIFICATION FairSpec
CONSTANTS
  c1 = c1
  c2 = c2
  t1 = t1
  t2 = t2
  Task = {t1, t2}
  Chain = {c1, c2}
  NoTask = NoTask
  NoRun = NoRun
  MaxRun = 2
  Bounds <- Instances
CHECK_DEADLOCK FALSE
INVARIANTS
  TasksInv
  OnlySanctionedIntentRuns
PROPERTIES
  OutcomesAreFinal
  TasksSettle
