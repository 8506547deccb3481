\* Two clients accepted in a row; neither chats nor times out.
SPECIFICATION Spec
CONSTANTS
  Conn = {c1, c2}
  Name = {n1, n2}
  None = None
  MAX_CLIENTS = 2
  TIMEOUT_SECONDS = 5
  Fd = {3, 4}
  MaxSlot = 1
  MaxTime = 0
  MaxRecv = 0
SYMMETRY Symmetry
INVARIANT OneThreadPerClient
CHECK_DEADLOCK FALSE
