CONSTANTS
  r1 = r1
  r2 = r2
  r3 = r3
  w1 = w1
  w2 = w2
  none = none
  Readers <- ThreeReaders
  Writers <- TwoWriters
  Nobody <- none
  Rounds = 2
SPECIFICATION FairSpec
INVARIANT Invariants
PROPERTIES Abstract WriterPreference Terminates
CHECK_DEADLOCK FALSE
