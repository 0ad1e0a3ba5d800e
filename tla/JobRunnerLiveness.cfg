SPECIFICATION FairSpec
CONSTANTS
  Job = {j1, j2}
  Worker = {w1, w2}
  NoJob = NoJob
  Capacity = 1
  MaxGets = 2
  Fault = {"requeue_failed", "set_done", "delete", "timeout", "lost", "retry", "runner"}
  MaxFaults = 2
CHECK_DEADLOCK FALSE
PROPERTY EveryJobSettles
