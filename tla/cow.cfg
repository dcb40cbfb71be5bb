CONSTANTS
  init = init
  a = a
  b = b
  none = none
  f1 = f1
  f2 = f2
  f3 = f3
  Procs <- ThreeProcs
  initproc = init
  Frames <- ThreeFrames
  MaxPages = 2
  NPTENTRIES = 1
  Data <- TwoData
  Zero = 0
  Junk = 2
  None = none
CONSTRAINTS FewLeaks UntilOutdated
SYMMETRY CowSymmetry
SPECIFICATION Spec
INVARIANTS Invariants RefsCountUsers
PROPERTY Abstract
CHECK_DEADLOCK FALSE
