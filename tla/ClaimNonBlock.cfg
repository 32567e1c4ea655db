SPECIFICATION Spec
CONSTANTS
  Services <- Nothing
  Specs <- BlockingSpecs
  None = None
  Lagging <- Nothing
  ReadFaults = FALSE
  MaxGen = 1
  MaxUid = 1
  MaxFaults = 0
  MaxOutages = 0
  MaxDrift = 0
PROPERTIES
  FinalizerKeepsSpec
CHECK_DEADLOCK FALSE
