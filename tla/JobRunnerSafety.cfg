SPECIFICATION Spec
CONSTANTS
  Job = {j1, j2}
  Worker = {w1, w2}
  NoJob = NoJob
  Capacity = 1
  MaxGets = 2
  Fault <- AllFaults
  MaxFaults = 3
SYMMETRY Symmetry
INVARIANTS
  RunnerInv
  NothingMissed
  ActiveRowsOccupy
  WithinCapacity
  ExecutionInv
  SingleExecution
CHECK_DEADLOCK FALSE
