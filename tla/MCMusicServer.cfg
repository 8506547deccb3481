\* Three connections, two at a time, songs of up to two buffers, under fairness (no symmetry).
SPECIFICATION FairSpec
CONSTANTS
  Conn = {c1, c2, c3}
  None = None
  max_connections = 2
  Fd = {3, 4, 5}
  MaxChunks = 2
INVARIANTS NothingLeftOpen CountAccounted CountBounded
PROPERTIES GoneLeft ImplementsConnections
CHECK_DEADLOCK FALSE
