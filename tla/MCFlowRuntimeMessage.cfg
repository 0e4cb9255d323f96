SPECIFICATION FairSpec
CONSTANTS
  Run = {r1}
  BookingRun = {r1}
  Worker = {w1, w2}
  NoWorker = NoWorker
  NoClaim = NoClaim
  Node <- MessageNodes
  Entry = "check"
  Kind <- MessageKind
  Target <- MessageTarget
  Expiring = {}
  BookingDue = {}
  MaxAttempts = 3
  MaxActivation = 3
  MaxRevision = 2
  MaxBookingRevision = 1
INVARIANTS
  RuntimeNeverPoisonsItself
  AttemptsSettledInFenceOrder
  OneMessagePerActivation
PROPERTIES
  RunsComeToRest
  KeepsContract
CHECK_DEADLOCK FALSE
