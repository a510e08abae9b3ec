CONSTANTS
  Clients = {c1}
  Deviants = {c1}
  Slots = {s1}
  Workers = {w1, w2}
  MaxReqs = 2
  Nobody = Nobody
SPECIFICATION Spec
SYMMETRY Symmetry
INVARIANT GeneratingMarked
CHECK_DEADLOCK FALSE
