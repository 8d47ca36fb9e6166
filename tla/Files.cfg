SPECIFICATION FilesSpec
CONSTANTS
  Agent = {p, q}
  NINUM = 3
  Name = {"x"}
  Bounded = TRUE
  MaxLeak = 1
  Writer = {1, 2}
  Inode = {1, 2}
  NBLOCK = 4
  BSIZE = 2
  NDIRECT = 1
  TxBlocks = 6
  UWRAP = 16
  Lengths = {3}
SYMMETRY Agents
INVARIANTS
  NamesInv
  Confined
  DataInv
CHECK_DEADLOCK FALSE
