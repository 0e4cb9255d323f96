SPECIFICATION Spec
CONSTANTS
  Run = {r1}
  Courier = {c1}
  Nobody = Nobody
  MaxJobs = 1
INVARIANTS
  SignalsAreLossless
CHECK_DEADLOCK FALSE
