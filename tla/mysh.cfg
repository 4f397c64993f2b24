SPECIFICATION Spec
CONSTANTS
  Pids = {i1, i2}
  MaxJobs = 4
INVARIANTS JobList
PROPERTIES ComesBack
CHECK_DEADLOCK FALSE
