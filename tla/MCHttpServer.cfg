\* Three connections over four descriptors, so that sockets and files compete for them.
SPECIFICATION Spec
CONSTANTS
  Conn = {c1, c2, c3}
  None = None
  Fd = {4, 5, 6, 7}
  Path = {"/", "/gone"}
  Chunks <- Site
SYMMETRY Symmetry
INVARIANTS NothingLeftOpen ResponseUnlessExhausted
PROPERTIES ImplementsConnections
CHECK_DEADLOCK FALSE
