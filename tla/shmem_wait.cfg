\* One region and programs that grow up to it: wait() by a larger parent frees
\* the region under its other users.  No preemption is needed.
SPECIFICATION Spec
CONSTANTS
  NPROC = 3
  Key = {k1}
  MaxPages = 1
  UserTop = 3
  Frames = 8
  MaxSize = 3
  MaxCount = 2
  Preempt = FALSE
  None = None
INVARIANTS Isolated
CHECK_DEADLOCK FALSE
