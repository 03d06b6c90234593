SPECIFICATION FairSpec
CONSTANTS
  Clients = {a}
  Channels <- TwoChannels
  Updates <- TwoUpdates
  NoDuty = NoDuty
  MaxStarts = 2
  MaxLines = 1
  RestartAnytime = TRUE
INVARIANTS NothingStale
PROPERTIES TakenUnlessAsleep
CHECK_DEADLOCK FALSE
