CONSTANTS
  NUM_THREADS = 3
  NUM_ITER = 10
  Sems <- TestSems
  Callers <- TestThreads
  Units <- Zero
  Main <- TestMain
  Programs <- Tests
SPECIFICATION TestFairSpec
INVARIANTS ZInvariants PrintOrder
PROPERTIES ZAbstract TestEnds
CHECK_DEADLOCK FALSE
