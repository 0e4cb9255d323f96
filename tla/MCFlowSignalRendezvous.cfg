SPECIFICATION Spec
CONSTANTS
  Run = {r1, r2}
  Courier = {c1, c2}
  Nobody = Nobody
  MaxJobs = 2
INVARIANTS
  TypeOK
  OneSignalPerResumedRun
PROPERTIES
  LaterTransactionMatches
CHECK_DEADLOCK FALSE
