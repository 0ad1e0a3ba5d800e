SPECIFICATION Spec
CONSTANTS
  Transactions = {t1, t2}
  Source = {s1, s2}
  Cloned = s1
  InitSprints = {2}
  None = None
  Sprint = {1, 2}
  BoardRow <- MCBoardRow
  EpicKeys = {1}
  InitServer <- MCServer
  InitIssues <- MCIssues
  PageSize = 1
  MaxKeys = 4
  MaxRows = 5
  MaxOpened = 2
  MaxChanges = 1
SYMMETRY Symmetry
INVARIANTS
  CopiesExplained
  SprintExplained
  ExportsAccounted
PROPERTIES
  QuietImportExact
CHECK_DEADLOCK FALSE
