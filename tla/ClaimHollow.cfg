SPECIFICATION LiveSpec
CONSTANTS
  Services <- Nothing
  Specs <- MinimalSpecs
  None = None
  Lagging <- Nothing
  ReadFaults = FALSE
  MaxGen = 1
  MaxUid = 2
  MaxFaults = 0
  MaxOutages = 0
  MaxDrift = 0
PROPERTIES
  ReadyNotHollow
CHECK_DEADLOCK FALSE
