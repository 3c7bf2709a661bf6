CONSTANTS
  INT_RANGE <- MCIntRange
  LONG_MAX <- MCLongMax
  Malformed = Malformed
  NoFile = NoFile
  Files <- HangFiles
  Usecs = {0, 1, 500000, 999999}
  Signals = {1, 15}
  MaxMachines = 1
  MaxLosses = 1
  HangUnlocked = TRUE
  HangLocked = TRUE
SPECIFICATION FairSpec
CHECK_DEADLOCK FALSE
PROPERTIES TimeoutExits
