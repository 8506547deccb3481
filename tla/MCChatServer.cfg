\* Two clients over the whole machine: every order of accept, registration, messages, \bye,
\* disconnection and time-out.
SPECIFICATION Spec
CONSTANTS
  Conn = {c1, c2}
  Name = {n1, n2}
  None = None
  MAX_CLIENTS = 2
  TIMEOUT_SECONDS = 0
  Fd = {3, 4}
  MaxSlot = 1
  MaxTime = 1
  MaxRecv = 2
SYMMETRY Symmetry
INVARIANTS TypeOK LockDiscipline IndexNotBelowEntry
PROPERTIES OnlyIdleTimedOutInPlace ImplementsRegistry
CHECK_DEADLOCK FALSE
