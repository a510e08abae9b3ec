CONSTANTS
  Clients = {c1, c2}
  Deviants = {}
  Slots = {s1, s2}
  Workers = {w1, w2}
  MaxReqs = 1
  Nobody = Nobody
SPECIFICATION Spec
SYMMETRY Symmetry
INVARIANTS TypeOK JobsAlive GeneratingMarked
CHECK_DEADLOCK FALSE
