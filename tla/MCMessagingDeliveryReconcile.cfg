SPECIFICATION Spec
CONSTANTS
  Relay = {r1, r2}
  Batch = 2
  MaxFaults = 0
  Msg = {m1}
  Worker = {p1, p2}
  Attempts = 2
  MaxStalls = 1
  MaxDoubts = 1
  Modes = {"telegram_mtproto_account"}
PROPERTIES
  ReconciledMessagesSettle
CHECK_DEADLOCK FALSE
