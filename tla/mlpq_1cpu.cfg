\* The lower level has slices of one tick, so that starving takes less long.
SPECIFICATION FairSpec
CONSTANTS
  NPROC = 3
  NLAYER = 2
  Slice <- ShortLow
  Period = 1
  CPU = {0}
  ForkWindow = TRUE
  MaxDrift = 0
  None = None
INVARIANTS TypeOK Accounting
PROPERTIES HighestFirst SliceHeld NoStarvation
