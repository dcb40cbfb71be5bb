CONSTANTS
  p1 = p1
  p2 = p2
  p3 = p3
  b1 = b1
  b2 = b2
  b3 = b3
  none = none
  NoBlock = none
  NoProc = none
  NoData = none
  Procs <- ThreeProcs
  Blocks <- ThreeBlocks
  Data <- TwoData
  MAXOPBLOCKS = 2
  LOGSIZE = 4
  OpBlocks = 1
SYMMETRY LogSymmetry
SPECIFICATION Spec
INVARIANTS Invariants NoPanic
PROPERTY Abstract
