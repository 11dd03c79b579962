SPECIFICATION FairSpec
CONSTANTS
  VaultMaps = VaultMaps
  MaxSignals = 3
  CommandLines <- MCCommandLines
INVARIANTS
  TypeOK
  ServesOnlyWhenReady
  EndsAsDocumented
  HealthAfterLaunch
  NothingLeftUnstarted
PROPERTIES
  EndpointSpec
  TwoSignalsEnd
  StopEndsStartUp
  TicksAreTaken
  CacheWaitEnds
CHECK_DEADLOCK FALSE
