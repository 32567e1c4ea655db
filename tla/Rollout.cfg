SPECIFICATION LiveSpec
CONSTANTS
  Nil = Nil
  Images = {"good", "better", "bad"}
  Bad = "bad"
  Specs <- EditedSpecs
  Pods = {p1, p2, p3}
  MaxGen = 3
  MaxFailures = 1
  MaxCrashes = 1
INVARIANTS
  NewPodsReadNewConfig
PROPERTIES
  RollsOut
