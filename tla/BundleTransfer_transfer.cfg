SPECIFICATION FairSpec
CONSTANTS
  Count = 3
  Attempts = 2
  Retries = 1
INVARIANTS
  OneItemOnDisk
  DeliveredIsWhole
  TokenServesOnce
PROPERTIES
  NothingLeftBehind
CHECK_DEADLOCK FALSE
