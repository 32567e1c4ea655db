SPECIFICATION Spec
CONSTANTS
  Services <- Nothing
  Specs <- FaultySpecs
  None = None
  Lagging <- ThreeCreated
  ReadFaults = TRUE
  MaxGen = 3
  MaxUid = 1
  MaxFaults = 1
  MaxOutages = 0
  MaxDrift = 1
INVARIANTS
  StatusCoherent
  NoLostWakeup
  ReadyMeansApplied
  ReadyMeansRunning
  BindingHandled
CHECK_DEADLOCK FALSE
