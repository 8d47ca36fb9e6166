SPECIFICATION Spec
CONSTANTS
  c0 = c0
  c1 = c1
  CPU = {c0, c1}
  NoCpu = NoCpu
  NPROC = 2
  Priorities <- MCPriorities
  DefaultPriority = 10
  InitPriority <- MCInit
  VDelta <- MCVDelta
  MaxDelta = 2
  Bonus = 1
  MaxV = 3
SYMMETRY Harts
INVARIANTS
  OneCpuPerStack
  ChosenIsRunnable
  BoundedLead
