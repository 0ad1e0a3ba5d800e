SPECIFICATION Spec
CONSTANTS
  Channel <- PairChannel
  Root = "root"
  Parent <- PairParent
  Above <- PairAbove
  Capacity <- PairCapacity
  Sequential = {"S"}
  Throttle <- RootThrottled
  Job = {1, 2}
  Prio = {1, 2}
  Eta = {3}
  NoEta = 0
  Name <- PairChannel
  MaxTime = 3
PROPERTIES
  ThrottleSpacing
  NoMissedWakeup
  NoBusyWakeup
  SequentialOrder
  EtaRespected
