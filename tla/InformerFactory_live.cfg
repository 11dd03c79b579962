SPECIFICATION FairSpec
CONSTANTS
  None = None
  g1 = g1
  g2 = g2
  vaultMaps = vaultMaps
  secrets = secrets
  Threads <- MCThreads
  Types <- MCOneType
PROPERTIES
  CallsReturn
  StopEndsWaits
