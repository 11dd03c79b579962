SPECIFICATION Spec
CONSTANTS
  Nil = Nil
  Keys <- MCKeys
  Values <- MCValues
INVARIANTS
  PatchAccepted
  PatchSetsAnnotations
CHECK_DEADLOCK FALSE
