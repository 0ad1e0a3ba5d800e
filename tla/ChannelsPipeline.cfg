SPECIFICATION Spec
CONSTANTS
  Channel <- ChainChannel
  Root = "root"
  Parent <- ChainParent
  Above <- ChainAbove
  Capacity <- ChainCapacity
  Sequential = {}
  Throttle <- NoThrottle
  Job = {1, 2, 3}
  Prio = {1}
  Eta = {}
  NoEta = 0
  Name <- AnyName
  MaxTime = 1
INVARIANT PipelineConsistent
PROPERTIES
  NeverOverfilled
  ImplementsJobPool
