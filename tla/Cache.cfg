SPECIFICATION Spec
CONSTANTS
  Procs <- TwoProcs
  Keys <- MCKeys
  NoKey = "nokey"
  Roots = {"/", "/agentbox"}
  RootOf <- SplitRoots
  CACHE_SLOTS = 2
  RecSize = 2
  DiskMax = 5
  Signed <- MCSigned
  Score <- MCScore
  Threshold = 2
  MaxSets = 4
  MaxTicks = 1
  MaxBoots = 1
INVARIANTS
  CacheInv
  LastSetWins
