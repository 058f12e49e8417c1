SPECIFICATION FairSpec
CONSTANTS
  s1 = s1
  s2 = s2
  a1 = a1
  Session = {s1, s2}
  Approval = {a1}
  SessionOf <- ApprovalOfFirst
  None = None
  All = All
  PageSize = 1
  KeySets <- Subscriptions
  MaxEmitted = 2
  MaxFaults <- Faults
CHECK_DEADLOCK FALSE
INVARIANTS
  EventsInv
PROPERTIES
  FeedSpec
  ApprovalsSettle
  EventsArrive
