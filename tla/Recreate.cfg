SPECIFICATION Spec
CONSTANTS
  Services <- Nothing
  Specs <- MinimalSpecs
  None = None
  Lagging <- OnlyKubeNova
  ReadFaults = FALSE
  MaxGen = 1
  MaxUid = 2
  MaxFaults = 1
  MaxOutages = 0
  MaxDrift = 0
INVARIANTS
  BindingInv
  BindingHandled
PROPERTIES
  ImplementsLifecycle
CHECK_DEADLOCK FALSE
