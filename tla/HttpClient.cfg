SPECIFICATION MCSpec
CONSTANTS
  Threads = {"t1", "t2"}
  Fds = {"f1", "f2"}
  None = "none"
  Calls = 1
  Stops = 2
  Redirects = 1
  Auths = 1
  KeepAlive = FALSE
  Ssl = TRUE
  Addresses = 2
  Times = 2
INVARIANT TypeOK
INVARIANT AssertsHold
INVARIANT OneSocket
INVARIANT AllOrNothing
PROPERTY NothingStays
PROPERTY EverythingReturns
CHECK_DEADLOCK FALSE
