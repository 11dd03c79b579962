SPECIFICATION FairSpec
CONSTANTS
  c1 = c1
  c2 = c2
  c3 = c3
  Callers = {c1, c3}
  DeploymentOf <- MCEmpty
  VaultMaps <- MCAllMaps
  SecretMaps <- MCMaybeEmpty
  OtherSecrets <- MCOther
  MaxAttempts = 2
INVARIANTS
  RetrySafe
  EnvironmentComplete
PROPERTIES
  AttemptsEnd
CHECK_DEADLOCK FALSE
