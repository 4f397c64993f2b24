SPECIFICATION Spec
CONSTANTS
  Procs = {p1, p2}
  First = p1
  NFILE = 2
  Pages = {g1}
  None = None
  NOFILE = 2
  PIPESIZE = 2
  UintMod = 4
  Counts = {1, 3}
INVARIANTS TypeOK RefExact NoLostWakeup
PROPERTIES EndsSeen Implements
CHECK_DEADLOCK FALSE
