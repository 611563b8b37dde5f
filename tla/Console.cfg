SPECIFICATION Spec
CONSTANTS
  stdout = stdout
  stderr = stderr
  Writers = {stdout, stderr}
  Texts <- MCTexts
  LF = LF
  CR = CR
  FifoLen = 3
  AppPins = {7, 8}
  U0TXD = 21
  AppBaud <- MCAppBaud
  ConsoleBaud = 115200
  SlowBauds = {9600}
  MaxWrites = 2
  MaxAppBytes = 2
CHECK_DEADLOCK FALSE
INVARIANTS TypeOK Exclusion FifoRoom ConsoleBytesOnConsole  Delivered UartRestored
PROPERTY WritesReturn
