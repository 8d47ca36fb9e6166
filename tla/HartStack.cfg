SPECIFICATION HartSpec
CONSTANTS
  Cpu = {"h0", "h1"}
  Thread = {"x", "y"}
  NoOne = NoOne
  KSTACK_PAGES = 8
INVARIANTS
  TrapHasWholeStack
