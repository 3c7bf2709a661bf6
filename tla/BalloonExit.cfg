CONSTANTS
  d1 = d1
  Doms = {d1}
  d2 = d2
  WORD <- MCWord
  Memory <- MCMemory
  Unmanaged <- MCUnmanaged
  Levels <- MCLevels
  FreeLevels <- MCFreeLevels
  Windows = {}
  FprKinds = {FALSE}
  StatKinds = {"absent", "partial", "usable", "unused"}
  MaxFaults = 1
  NEED_BALLOON_CHECK_TIMES = 2
  g_balloonTargetUsedPercent = 130
  g_balloonTargetMaxTotalPercent = 20
SPECIFICATION FSpec
PROPERTIES ExitGivesBack
