\* Two workers over a ring of two, so the ring wraps twice and both fills up
\* and drains while the master still has connections to accept.
SPECIFICATION FairSpec
CONSTANTS
  Worker = {w1, w2}
  Master = master
  Nobody = nobody
  NumBuff = 2
  MaxConn = 4
  MaxSpurious = 1
INVARIANTS TypeOK RingIsFifo NoLostWakeup Ownership
PROPERTIES Dispatched Implements
CHECK_DEADLOCK FALSE
