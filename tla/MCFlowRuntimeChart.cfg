SPECIFICATION Spec
CONSTANTS
  Run = {r1}
  BookingRun = {r1}
  Worker = {w1, w2}
  NoWorker = NoWorker
  NoClaim = NoClaim
  Node <- ChartNodes
  Entry = "draft"
  Kind <- ChartKind
  Target <- ChartTarget
  Expiring <- ChartExpiring
  BookingDue <- ChartDue
  MaxAttempts = 2
  MaxActivation = 3
  MaxRevision = 2
  MaxBookingRevision = 2
INVARIANTS
  TypeOK
  RunTokenCoherent
  ObligationMatchesToken
  OneDeparturePerActivation
  TraceEndsTheRun
  FencesSeparateClaims
  SignalsMeetWaits
  CanceledBookingHasNoLiveRun
PROPERTIES
  EndedRunsStayEnded
SYMMETRY Symmetry
CHECK_DEADLOCK FALSE
