SPECIFICATION LiveSpec
CONSTANTS
  Services <- Nothing
  Specs <- TwoImages
  None = None
  Lagging <- OnlyKubeNova
  ReadFaults = FALSE
  MaxGen = 2
  MaxUid = 1
  MaxFaults = 1
  MaxOutages = 0
  MaxDrift = 0
PROPERTIES
  Settles
  DeletionCompletes
CHECK_DEADLOCK FALSE
