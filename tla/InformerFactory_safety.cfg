SPECIFICATION Spec
CONSTANTS
  None = None
  g1 = g1
  g2 = g2
  vaultMaps = vaultMaps
  secrets = secrets
  Threads <- MCThreads
  Types <- MCTypes
SYMMETRY MCSymmetry
INVARIANTS
  TypeOK
  LaunchedOnce
  SharedInformer
  WaitsForLaunched
PROPERTIES
  StartCoversRegistered
  RegistrySpec
