CONSTANTS
  n1 = n1
  n2 = n2
  n3 = n3
  Names = {n1, n2, n3}
  CmdLine <- ThreeLines
  CmdLineMayFail = TRUE
  prealloc <- MCPrealloc
  MEMLINK_ARG_MAX = 8
  MaxDomid = 4
  MaxLosses = 1
  LibvirtMayFail = FALSE
  StartBetween = TRUE
SPECIFICATION Spec
CHECK_DEADLOCK FALSE
INVARIANTS NoMissing
