\* Two clients at a time over two slots: each SIGKILL leaves a slot marked for
\* good, so that clients take slots others gave back and find the page full.
SPECIFICATION FairSpec
CONSTANTS
  Client = {c1, c2}
  NUMBER_OF_BUFFERS = 2
  MaxKill = 2
  None = None
INVARIANTS TypeOK Exclusive OwnData
PROPERTIES Registered
CHECK_DEADLOCK FALSE
