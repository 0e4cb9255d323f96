SPECIFICATION Spec
CONSTANTS
  Worker = {w1, w2}
  Steady = w1
  Approvals = 3
  Limit = 2
  MaxSnoozes = 1
  MaxCancels = 1
PROPERTIES
  SettledOnce
  HealthyApprovalsAreHandled
CHECK_DEADLOCK FALSE
