SPECIFICATION Spec
CONSTANTS
  Channels <- OneChannel
  Duties <- OnAndOff
  PWM_TIMEOUT = 3
  Timer_1s_Count = 12
  Byte = 9
  WatchdogTicks = 12
  RoundTicks = 6
  MaxAge = 64
INVARIANTS SecondIsOver
