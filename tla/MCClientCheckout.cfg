SPECIFICATION FairSpec
CONSTANTS
  Booking = {p1, m1}
  Paid = {p1}
  Slot = {s1, s2}
  Client = {p1}
  ClientOf <- OwnClients
  Relay = {k1, k2}
  Batch = 2
  MaxFaults = 1
  Worker = {w1, w2}
  NoWorker = NoWorker
  MaxAttempts = 1
INVARIANTS
  TypeOK
  LiveBookingsHoldTheirSlot
  NoSlotIsSoldTwice
  OrderBookingAndWalletAgree
PROPERTIES
  ClosedWebhooksStayClosed
  CheckoutsStayDecided
  CapturedOrdersArePaid
CHECK_DEADLOCK FALSE
