SPECIFICATION LiveSpec
CONSTANTS
  Nil = Nil
  KubeNovas <- Instance
  MaxUid = 1
  MaxFailures = 1
INVARIANTS
  BindingsNeeded
  BindingKept
  Unmixed
PROPERTIES
  NothingLeft
CHECK_DEADLOCK FALSE
