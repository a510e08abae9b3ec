SPECIFICATION FairSpec
CONSTANTS
  Clients = {c1}
  Routes = {"root", "hello", "image", "video"}
  Shapes = {"whole", "inHeaders", "inBody", "bad"}
  MaxReqs = 2
  MaxPieces = 2
  SendSize = 2
  WireSize = 2
  RecvLimit = 3
  PairRoutes = {}
INVARIANT TypeOK
INVARIANT TransferOwned
INVARIANT LeakOnlyOfLateRequest
INVARIANT MissedOnlyAfterTransfer
PROPERTY DrainingEnds
PROPERTY RequestHandled
CHECK_DEADLOCK FALSE
