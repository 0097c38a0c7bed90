CONSTANTS
  MaxSavedTick = 1
  MaxCheckpoints = 1
  MaxRequests = 1
SPECIFICATION DesktopSpec
PROPERTIES OwnSavesAreRestored
CHECK_DEADLOCK FALSE
