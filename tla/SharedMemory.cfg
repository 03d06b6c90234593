SPECIFICATION Spec
CONSTANTS
  Clients = {a, b}
  Channels <- TwoChannels
  Updates <- TwoUpdates
  NoDuty = NoDuty
  MaxStarts = 2
  MaxLines = 1
  RestartAnytime = FALSE
SYMMETRY ClientSymmetry
INVARIANTS TypeOK HolderIsInside ServingIsConnected
PROPERTIES KeepsMailbox
CHECK_DEADLOCK FALSE
