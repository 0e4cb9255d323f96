SPECIFICATION Spec
CONSTANTS
  Relay = {p1}
  Batch = 2
  MaxAttempts = 2
  MaxEvent = 2
  MaxFaults = 1
  ChangeKind = {"rescheduled", "cancelled", "completed"}
INVARIANTS 
  HeadCatchesUp
CHECK_DEADLOCK FALSE
