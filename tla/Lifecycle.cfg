SPECIFICATION Spec
CONSTANTS
  Services <- OneService
  Specs <- EditedSpecs
  None = None
  Lagging <- OnlyKubeNova
  ReadFaults = FALSE
  MaxGen = 2
  MaxUid = 1
  MaxFaults = 1
  MaxOutages = 1
  MaxDrift = 0
INVARIANTS
  TypeOK
  ReadyMeansApplied
  ReadyMeansRunning
PROPERTIES
  ObservedMonotone
  ImplementsLifecycle
CHECK_DEADLOCK FALSE
