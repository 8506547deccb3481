\* A name of two bytes, a content of five, through a buffer of three.
SPECIFICATION FairTransferSpec
CONSTANTS
  BUFFER_SIZE = 3
  NameLength = 2
  ContentLength = 5
INVARIANTS NothingDropped
PROPERTIES TransferEnds
CHECK_DEADLOCK FALSE
