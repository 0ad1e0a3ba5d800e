SPECIFICATION Spec
CONSTANTS
  WorkLog = {"w"}
  Issue = {"i"}
  Project = {"p", "q"}
  IssueOf <- SingleIssue
  ProjectOf <- IssueProject
  MaxTime = 4
  MaxFaults = 2
  MaxCopies = 2
INVARIANTS
  ChangesArrive
  DeletionsArrive
  OneTimeLog
CHECK_DEADLOCK FALSE
