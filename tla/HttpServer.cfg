SPECIFICATION MCSpec
CONSTANTS
  Connections = {"c1", "c2"}
  Workers = {"w1", "w2"}
  Stoppers = {"s1", "s2"}
  None = "none"
  Rounds = 1
  MaxQueued = 1
  MaxRequests = 1
  WaitFirst = TRUE
  AcceptFails = FALSE
  RangeHeaders <- SomeHeaders
  Sizes = {0, 5}
  MaxRanges = 5
  ErrorHandler = TRUE
  RangedRefusals = FALSE
  Length = 4
  Piece = 2
  BufSize = 3
  Contents <- FewContents
  MaxParts = 2
  ReadSizes <- SomeSizes
  FirstWhole = TRUE
  Characters = {"/", ".", "a"}
  Patterns <- MCPatterns
  MaxLength = 6
INVARIANT ConnectionsOwned
INVARIANT SocketOwned
INVARIANT RightAnswer
INVARIANT ContentWhole
INVARIANT RightlyRead
PROPERTY StopsEnd
CHECK_DEADLOCK FALSE
