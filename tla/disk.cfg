SPECIFICATION Spec
CONSTANTS
  Procs = {p1, p2}
  Bufs = {b1, b2}
  Sectors = {s1, s2, s3}
  Values = {0, 1}
  None = None
  Outer = {s1}
INVARIANTS TypeOK Coherent NoLostWakeup
PROPERTIES Answered Implements
