SPECIFICATION Spec
CONSTANTS
  c1 = c1
  c2 = c2
  c3 = c3
  Callers = {c1, c2}
  DeploymentOf <- MCPair
  VaultMaps <- MCVolumeMaps
  SecretMaps <- MCSecretMaps
  OtherSecrets <- MCOther
  MaxAttempts = 2
INVARIANTS
  MountedFileHasSecrets
CHECK_DEADLOCK FALSE
