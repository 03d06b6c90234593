SPECIFICATION FairSpec
CONSTANTS
  Clients = {a}
  Channels <- TwoChannels
  Updates <- TwoUpdates
  NoDuty = NoDuty
  MaxStarts = 1
  MaxLines = 1
  RestartAnytime = FALSE
PROPERTIES TakenWhileServing
CHECK_DEADLOCK FALSE
