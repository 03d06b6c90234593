SPECIFICATION FairSpec
CONSTANTS
  UART_BUF_LEN = 4
  Chars = {x, y}
  NoChar = NoChar
INVARIANTS TypeOK PendingIsEnabled
PROPERTIES KeepsQueue PutReturns AllSent
