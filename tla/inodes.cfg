SPECIFICATION Spec
CONSTANTS
  Procs = {p1, p2}
  None = None
  Names = {"a", "b"}
  NInodes = 3
  MaxLinks = 2
  Paths <- SomePaths
  NewPaths <- SomeNewPaths
SYMMETRY Symmetry
INVARIANTS RefExact LinkExact InUse NoDeadlock
CHECK_DEADLOCK FALSE
