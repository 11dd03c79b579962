SPECIFICATION Spec
CONSTANTS
  None = None
  Same = Same
  old = old
  new = new
  own = own
  other = other
  Patchers = {old, new}
  Names = {own, other}
  Bundles = {old, new, empty}
  Rests = {r1, r2}
  TargetOf <- MCTargetOf
  BundleOf <- MCBundleOf
INVARIANTS
  TypeOK
  OkMeansPatched
PROPERTIES
  OnlyBundleChanges
