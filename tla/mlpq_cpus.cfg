SPECIFICATION Spec
CONSTANTS
  NPROC = 3
  NLAYER = 1
  Slice <- TwoTicks
  Period = 2
  CPU = {0, 1}
  ForkWindow = TRUE
  MaxDrift = 1000
  None = None
VIEW OneLevelView
INVARIANTS OneCpu WaitNotLost
