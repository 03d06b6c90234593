SPECIFICATION Spec
CONSTANTS
  Channels <- TwoChannels
  PWM_TIMEOUT = 1
  Duties = {40, 100}
  NoDuty = NoDuty
  Updates <- TwoUpdates
  Garbled = {100}
  MaxLives = 2
  MaxUpdates = 2
INVARIANTS NothingFromBefore QuietIsNewest
PROPERTIES InOrder
