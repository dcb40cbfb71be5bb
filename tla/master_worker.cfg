CONSTANTS
  m1 = m1
  m2 = m2
  w1 = w1
  w2 = w2
  w3 = w3
  Masters <- TwoMasters
  Workers <- ThreeWorkers
  Args <- CommandLines
SPECIFICATION FairSpec
INVARIANT Invariants
PROPERTIES Abstract Terminates
CHECK_DEADLOCK FALSE
