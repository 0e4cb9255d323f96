SPECIFICATION Spec
CONSTANTS
  Relay = {p1, p2}
  Batch = 2
  MaxAttempts = 2
  MaxEvent = 3
  MaxFaults = 2
  ChangeKind = {"rescheduled", "cancelled", "completed"}
INVARIANTS
  TypeOK
  PublishedMeansApplied
  DeferralsAreFree
  ClaimedUnderTheAppliedHead
PROPERTIES
  EveryChangeIsApplied
CHECK_DEADLOCK FALSE
