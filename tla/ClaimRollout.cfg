SPECIFICATION Spec
CONSTANTS
  Nil = Nil
  Images = {"good", "better"}
  Bad = "bad"
  Specs <- GoodSpecs
  Pods = {p1, p2, p3}
  MaxGen = 2
  MaxFailures = 0
  MaxCrashes = 0
INVARIANTS
  ReadyMeansRolledOut
