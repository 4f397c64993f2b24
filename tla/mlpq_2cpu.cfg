\* The hang the code's counting of RUNNING processes causes as soon as two
\* CPUs schedule; fork() is taken as one step so that nothing else is at work.
SPECIFICATION FairSpec
CONSTANTS
  NPROC = 2
  NLAYER = 2
  Slice <- ShortLow
  Period = 3
  CPU = {0, 1}
  ForkWindow = FALSE
  MaxDrift = 0
  None = None
PROPERTIES LockReleased
