SPECIFICATION Spec
CONSTANTS
  Nil = Nil
  Specs <- EditedSpecs
  Workloads <- Followed
INVARIANTS
  EditsReachPods
  Wired
PROPERTIES
  OnlyRealChanges
