CONSTANTS
  Clients = {c1}
  Deviants = {c1}
  Slots = {s1}
  Workers = {w1, w2}
  MaxReqs = 2
  Nobody = Nobody
  Waiters = {c1, c2}
  WaiterSlots = {s1, s2}
  WaiterThreads = {w1}
SPECIFICATION MCSpec
PROPERTY Answered
CHECK_DEADLOCK FALSE
