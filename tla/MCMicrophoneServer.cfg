\* Two clients, one capture stream of two periods, descriptors that are used again.
SPECIFICATION FairSpec
CONSTANTS
  Conn = {c1, c2}
  None = None
  Fd = {4, 5}
  MaxChunks = 1
  Streams = 1
  Ring = 2
  Wrap = 5
INVARIANTS NothingLeftOpen
PROPERTIES RecordingUnbroken GoneLeft ImplementsConnections
CHECK_DEADLOCK FALSE
