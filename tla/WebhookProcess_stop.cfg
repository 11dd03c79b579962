SPECIFICATION FairSpec
CONSTANTS
  VaultMaps = VaultMaps
  MaxSignals = 3
  CommandLines <- MCCommandLines
PROPERTIES
  StopShutsDown
CHECK_DEADLOCK FALSE
