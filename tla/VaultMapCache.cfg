SPECIFICATION FairSpec
CONSTANTS
  Keys <- MCKeys
  Existing <- MCExisting
  All = All
  Scopes <- MCScopes
  MaxWrites = 4
INVARIANTS TypeOK ListerIsSnapshot SyncedMeansListed
PROPERTIES ListerNeverGoesBack ListerCatchesUp
