CONSTANTS
  d1 = d1
  Doms = {d1, d2}
  d2 = d2
  WORD <- MCWord
  Memory <- TwoMemory
  Unmanaged <- TwoUnmanaged
  Levels <- TwoLevels
  FreeLevels <- TwoFreeLevels
  Windows = {}
  FprKinds = {FALSE}
  StatKinds = {"absent", "usable"}
  MaxFaults = 1
  NEED_BALLOON_CHECK_TIMES = 2
  g_balloonTargetUsedPercent = 130
  g_balloonTargetMaxTotalPercent = 20
SPECIFICATION FSpec
INVARIANTS FlagsTruthful
PROPERTIES TwoStep LeavesEnough KeepsProtocol
