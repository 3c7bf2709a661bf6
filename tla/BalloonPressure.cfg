CONSTANTS
  d1 = d1
  Doms = {d1}
  WORD <- MCWord
  Memory <- MCMemory
  Unmanaged <- MCUnmanaged
  Levels <- MCLevels
  FreeLevels <- MCFreeLevels
  Windows = {}
  FprKinds = {FALSE}
  StatKinds = {"absent", "partial", "usable", "unused"}
  NEED_BALLOON_CHECK_TIMES = 3
  g_balloonTargetUsedPercent = 130
  g_balloonTargetMaxTotalPercent = 20
SPECIFICATION PSpec
PROPERTIES CalmBeforeBallooning
