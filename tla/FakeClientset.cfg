SPECIFICATION Spec
CONSTANTS
  Nil = Nil
  None = None
  All = All
  Tracker = Tracker
  team = team
  infra = infra
  Addresses <- Slots
  Callers = {c1, c2}
  Contents = {web, job}
  Keys <- MCKeys
  LabelOf <- MCLabelOf
INVARIANTS
  NothingShared
PROPERTIES
  StoreSpec
