SPECIFICATION MCSpec
CONSTANTS
  Clients = {"c1"}
  Routes = {"root", "hello"}
  Shapes = {"whole", "inBody"}
  MaxReqs = 3
  MaxPieces = 2
  SendSize = 2
  WireSize = 2
  RecvLimit = 3
  PairRoutes = {"image"}
INVARIANT ListIntact
PROPERTY ExchangeSpec
PROPERTY NoTruncatedTransfer
CHECK_DEADLOCK FALSE
