SPECIFICATION FairSpec
CONSTANTS
  c1 = c1
  c2 = c2
  tA = tA
  tB = tB
  Client = {c1, c2}
  Drain = Drain
  Stopper = Stopper
  NoCall = NoCall
  Text = {tA, tB}
  TextOf <- Prompts
  Faults = {"setup"}
  MaxFaults = 1
  IdleAborts = FALSE
  MaxGestures = 1
CHECK_DEADLOCK FALSE
PROPERTY QueuedPromptsRun
