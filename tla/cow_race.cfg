CONSTANTS
  init = init
  a = a
  b = b
  none = none
  f1 = f1
  f2 = f2
  f3 = f3
  Procs <- ThreeProcs
  initproc = init
  Frames <- ThreeFrames
  MaxPages = 2
  NPTENTRIES = 1
  Data <- TwoData
  Zero = 0
  Junk = 2
  None = none
CONSTRAINT FewLeaks
SYMMETRY CowSymmetry
SPECIFICATION Spec
INVARIANT CountsTrackUsers
CHECK_DEADLOCK FALSE
