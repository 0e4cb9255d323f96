SPECIFICATION Spec
CONSTANTS
  Relay = {r1, r2}
  Batch = 2
  MaxFaults = 2
  Msg = {m1}
  Worker = {p1, p2}
  Attempts = 2
  MaxStalls = 1
  MaxDoubts = 1
  Modes = {"telegram_mtproto_account", "whatsapp_cloud"}
INVARIANTS
  TypeOK
  TerminalMatchesVerdict
  DuplicatesNeedDoubt
PROPERTIES
  QueuedMessagesGetAVerdict
CHECK_DEADLOCK FALSE
