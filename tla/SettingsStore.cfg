SPECIFICATION FairSpec
CONSTANTS
  Sensors <- Temp
  Limits <- TempLimit
  Address <- Conf_eeprom
  EE_NEXT = 4
  Byte = 4
  Default <- FourRounds
  Rates <- SomeRates
  MaxQuiet = 20
INVARIANTS TypeOK AsAsked NotSilent
PROPERTIES EvenlySpaced KeepsReporting
