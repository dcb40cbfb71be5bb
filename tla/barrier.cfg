CONSTANTS
  Procs = {p1, p2, p3, p4}
  MaxUses = 2
  MayKill = TRUE
SPECIFICATION BFairSpec
INVARIANT BInvariants
PROPERTIES Abstract EverybodyClears
CHECK_DEADLOCK FALSE
