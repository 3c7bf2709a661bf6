CONSTANTS
  INT_RANGE <- MCIntRange
  LONG_MAX <- MCLongMax
  Malformed = Malformed
  NoFile = NoFile
  Files <- MCFiles
  Usecs = {0, 1, 500000, 999999}
  Signals = {1, 15}
  MaxMachines = 2
  MaxLosses = 2
  HangUnlocked = TRUE
  HangLocked = FALSE
SPECIFICATION FairSpec
CHECK_DEADLOCK FALSE
INVARIANTS TypeOK WaitIsTimed NapsBetweenRounds
           ReadyMeansBuilt PostInTime MutexGuardsList
PROPERTIES SettingsAsWritten TimeoutExits StopsWhenTold
