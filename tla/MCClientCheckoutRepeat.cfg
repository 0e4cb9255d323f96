SPECIFICATION FairSpec
CONSTANTS
  Booking = {p1, p2}
  Paid = {p1, p2}
  Slot = {s1, s2}
  Client = {c1}
  ClientOf <- OneClient
  Relay = {k1}
  Batch = 2
  MaxFaults = 0
  Worker = {w1}
  NoWorker = NoWorker
  MaxAttempts = 2
PROPERTIES
  CapturedOrdersArePaid
CHECK_DEADLOCK FALSE
