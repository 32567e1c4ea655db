SPECIFICATION Spec
CONSTANTS
  Services <- Nothing
  Specs <- MinimalSpecs
  None = None
  Lagging <- OnlyBinding
  ReadFaults = FALSE
  MaxGen = 1
  MaxUid = 1
  MaxFaults = 0
  MaxOutages = 0
  MaxDrift = 0
INVARIANTS
  BindingGuarded
CHECK_DEADLOCK FALSE
