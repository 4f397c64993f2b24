SPECIFICATION RequestSpec
CONSTANTS
  Workers = {w1, w2}
INVARIANTS WaitCovered
PROPERTIES Served
CHECK_DEADLOCK FALSE
