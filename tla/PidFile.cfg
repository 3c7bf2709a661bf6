CONSTANTS
  Procs = {p1, p2, p3}
  MaxInodes = 3
SPECIFICATION Spec
CHECK_DEADLOCK FALSE
INVARIANTS SingleInstance
