SPECIFICATION FairSpec
CONSTANTS
  Sensors <- OneSensor
  Readings <- TwoReadings
  NoReading <- None
  Foreign <- EchoOnly
  EOL <- End
  BufSize = 8
  Leftovers <- AnyLeftovers
  MaxTexts = 1
  MaxChunk = 3
INVARIANTS TypeOK BacklogBounded OneReadBehind
PROPERTIES KeepsLines KeepsReading
