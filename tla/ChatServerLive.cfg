\* Two clients and one message under fairness. No symmetry: FirstChoices stands in for it.
SPECIFICATION FairSpec
CONSTANTS
  Conn = {c1, c2}
  Name = {n1, n2}
  None = None
  MAX_CLIENTS = 2
  TIMEOUT_SECONDS = 0
  Fd = {3, 4}
  MaxSlot = 1
  MaxTime = 1
  MaxRecv = 1
PROPERTIES SweepsUnlessStuck SilentRemoved
ACTION_CONSTRAINTS FirstChoices OrderlyStart
CHECK_DEADLOCK FALSE
