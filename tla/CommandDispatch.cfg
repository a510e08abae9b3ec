SPECIFICATION MCSpec
CONSTANTS
  Rows <- MCRows
  Capacities <- MCCapacities
  MaxItems = 2
  MaxCalls = 4
  Tries = 2
  MaxImages = 4
  MaxLost = 3
  Threads = {"t1", "t2", "t3"}
  Main = "main"
  Ids = {1, 2, 3}
  Positions = {0, 1}
  Radius = 3
  MaxMoves = 2
  Bytes = {0, 1, 85, 128, 255}
  MaxLength = 5
  Ints = 65536
INVARIANT TypeOK
INVARIANT GreedyIsOptimal
INVARIANT GoodMeansDone
INVARIANT NothingHalf
INVARIANT IndexInStep
INVARIANT EncodesAsBase64
PROPERTY InterruptHeeded
PROPERTY ProgramsEnd
CHECK_DEADLOCK FALSE
