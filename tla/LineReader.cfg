SPECIFICATION FairSpec
CONSTANTS
  UART_BUF_LEN = 4
  LINEBUF_SIZE = 5
  Text <- OneChar
  EOL = EOL
  NoChar = NoChar
  Restarts <- RestartLines
  MaxLine = 3
  MaxOverruns = 1
INVARIANTS TypeOK NeverDeafByItself
PROPERTIES KeepsStream AllFetched
