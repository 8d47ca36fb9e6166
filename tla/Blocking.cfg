SPECIFICATION BlockingSpec
CONSTANTS
  NPROC = 3
  MaxPid = 4
  Caller = {c1, c2, c3}
  NUM = 7
  NoCaller = NoCaller
  Process = {"p", "q"}
  Printer = {"k"}
  Echo = "echo"
  NoTask = NoTask
  Bytes = 2
  Writes = 1
  MaxEcho = 1
  Question = {"a", "b"}
  Known = {"a"}
  NoReply = NoReply
  AGENTQ = 2
  MAX_STEPS = 1
  Asked = 2
  LateTools = 2
INVARIANTS
  ProcInv
  DiskInv
  UartInv
  
PROPERTIES
  InitReaps
  RequestReturns
  ConsoleWriteReturns
  QuestionEnds
CHECK_DEADLOCK FALSE
