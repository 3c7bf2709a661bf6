CONSTANTS
  n1 = n1
  n2 = n2
  n3 = n3
  Names = {n1, n2, n3}
  CmdLine <- ThreeLines
  CmdLineMayFail = FALSE
  prealloc <- MCPrealloc
  MEMLINK_ARG_MAX = 8
  MaxDomid = 3
  MaxLosses = 2
  LibvirtMayFail = TRUE
  StartBetween = TRUE
  WORD = 65536
  Memory <- MCMemory
  Unmanaged = 0
  Levels = {2048}
  FreeLevels = {1}
  Windows = {}
  FprKinds = {FALSE}
  StatKinds = {"usable"}
  NEED_BALLOON_CHECK_TIMES = 2
  g_balloonTargetUsedPercent = 130
  g_balloonTargetMaxTotalPercent = 20
SPECIFICATION MSpec
SYMMETRY Machines
CHECK_DEADLOCK FALSE
INVARIANTS TypeOK ListSound NoGhost HugePagesStayOut MissingHasCause
PROPERTIES ServesController
