\* Both builds, three lines, three messages.
SPECIFICATION FairSpec
CONSTANTS
  MaxLines = 3
  MaxMessages = 3
  Builds = {TRUE, FALSE}
INVARIANTS InputInOrder EndsAfterLastMessage
PROPERTIES EndsWithConnection
CHECK_DEADLOCK FALSE
