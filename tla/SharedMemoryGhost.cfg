SPECIFICATION Spec
CONSTANTS
  Clients = {a}
  Channels <- TwoChannels
  Updates <- TwoUpdates
  NoDuty = NoDuty
  MaxStarts = 1
  MaxLines = 0
  RestartAnytime = FALSE
INVARIANTS DisconnectedAfterExit
CHECK_DEADLOCK FALSE
