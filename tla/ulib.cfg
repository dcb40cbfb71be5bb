CONSTANTS
  Rounds = 10
  Threads <- TestThreads
  Main = "main"
  Monitors = {"s1", "s2"}
  Programs <- Tests
  Values <- Bit
SPECIFICATION FairSpec
INVARIANTS Invariants SemaphoreBound NobodyForgotten PrintOrder
PROPERTY Terminates
CHECK_DEADLOCK FALSE
