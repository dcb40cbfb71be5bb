CONSTANTS
  Nobody = Nobody
  InitProc = init
  Slots = {init, s1, s2, s3}
  Cpus = {c1, c2}
  MaxPid = 5
  Calls <- AllCalls
  KillPids = {2}
  AllocFails = TRUE
  Rules = {"join", "ids", "signal", "pids"}
SYMMETRY Symmetry
SPECIFICATION Spec
INVARIANTS Invariants NoPanic UniquePids ExitsReachParents ThreadsHaveMain KillHitsItsTarget
PROPERTIES ZombieIsFinal
CHECK_DEADLOCK FALSE
