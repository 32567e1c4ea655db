SPECIFICATION Spec
CONSTANTS
  Nil = Nil
  Specs <- EditedSpecs
  Nodes = {n1, n2}
  Ports <- SomePorts
  ObjectPaths <- SomeObjects
  MayDrift = TRUE
SYMMETRY AnyNode
INVARIANTS
  EndpointFollowsService
  URLServed
  IngressServed
