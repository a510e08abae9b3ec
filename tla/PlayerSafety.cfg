CONSTANTS
  Buffers = {b1, b2, b3}
  Null = Null
SPECIFICATION FairSpec
INVARIANT TypeOK
INVARIANT HeldAlive
INVARIANT CarefulIsSafe
INVARIANT FreedUnused
INVARIANT AtMostOneMore
PROPERTY Stops
CHECK_DEADLOCK FALSE
