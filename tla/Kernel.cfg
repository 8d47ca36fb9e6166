SPECIFICATION KernelSpec
CONSTANTS
  Proc = {"p1", "p2", "p3"}
  Block = {"a", "b"}
  Val = {0, 1}
  NoBuf = NoBuf
  LOGBLOCKS = 6
  MAXOPBLOCKS = 3
  OpBlocks = 2
  User = {"u1", "u2"}
  Sector = {"s1", "s2", "s3"}
  Data = {0, 1}
  NBUF = 2
  NoUser = NoUser
  NoSector = NoSector
  Task = {"a", "b"}
  Parent = "a"
  NOFILE = 2
  NFILE = 2
  Frame = {g1}
  PIPESIZE = 2
  UINT = 4
  MaxWrite = 2
  NoFile = NoFile
  NoFrame = NoFrame
  Slot = {1, 2}
  Init1 = 1
  NPAGE = 14
  PTES = 2
  PGSIZE = 2
  Grow = {1, 4}
  Shrink = {1, 4}
  MaxSize = 7
  Images <- Programs
  Cpu = {"h0", "h1"}
  Thread = {"x", "y"}
  NoOne = NoOne
  KSTACK_PAGES = 8
INVARIANTS
  LogInv
  BufInv
  PipeInv
  MemInv
  HartInv
PROPERTIES
  ImplementsAtomicDisk
CHECK_DEADLOCK FALSE
