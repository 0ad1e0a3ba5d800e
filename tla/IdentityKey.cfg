SPECIFICATION KeySpec
CONSTANTS
  Job = {j1, j2, j3}
  Caller = {t1, t2}
  NoJob = NoJob
SYMMETRY Symmetry
INVARIANT DuplicatesExplained
CHECK_DEADLOCK FALSE
