CONSTANTS
  Nobody = Nobody
  InitProc = init
  Slots = {init, s1, s2}
  Cpus = {c1, c2}
  MaxPid = 4
  Calls <- MemoryCalls
  KillPids = {2}
  AllocFails = TRUE
  Rules = {"join", "signal", "pids"}
  PageSize = 2
  MaxSize = 6
  Increments <- HalfPages
  MemoryRules = {"main", "own", "aligned", "memory"}
SPECIFICATION FairMemorySpec
INVARIANTS MemoryApart
PROPERTIES KilledDies OrphansAreCollected
CHECK_DEADLOCK FALSE
