CONSTANTS
  Ids = {1, 2, 3}
  Positions = {0, 1, 2}
  Radius = 3
  MaxMoves = 2
SPECIFICATION Spec
CHECK_DEADLOCK FALSE
INVARIANT FoundNowhereElse
