\* init, a parent and its child, two regions of up to two pages; a program of
\* three pages and a region of two fill the five pages below USERTOP, and with
\* five frames memory runs out.  Every call may be preempted.
SPECIFICATION Spec
CONSTANTS
  NPROC = 3
  Key = {k1, k2}
  MaxPages = 2
  UserTop = 5
  Frames = 5
  MaxSize = 3
  MaxCount = 2
  Preempt = TRUE
  None = None
INVARIANTS TypeOK RefCount SharedAlike IsolatedElse
CONSTRAINT NotStale
SYMMETRY Symmetry
CHECK_DEADLOCK FALSE
