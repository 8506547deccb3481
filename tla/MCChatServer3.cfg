\* Three clients, three names and two places, without time-outs.
SPECIFICATION Spec
CONSTANTS
  Conn = {c1, c2, c3}
  Name = {n1, n2, n3}
  None = None
  MAX_CLIENTS = 2
  TIMEOUT_SECONDS = 5
  Fd = {3, 4, 5}
  MaxSlot = 2
  MaxTime = 0
  MaxRecv = 1
SYMMETRY Symmetry
INVARIANTS CounterBounded UniqueUnlessRaced BroadcastUnlessRaced
CHECK_DEADLOCK FALSE
