SPECIFICATION TerminalSpec
CONSTANTS
  Readers <- TwoReaders
  INPUT_BUF_SIZE = 3
  AGENT_BUF_SIZE = 3
  QMax = 1
  ReadSize = 2
  MaxLine = 3
  MaxChars = 4
  ShLines <- Lines
  MAXARGS = 3
  ShTable = 6
  ShTyped = 1
INVARIANTS
  ConsoleInv
  ShellInv
  ParsesByGrammar
PROPERTIES
  InputIsRead
  LineEnds
CHECK_DEADLOCK FALSE
