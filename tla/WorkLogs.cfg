SPECIFICATION ChainSpec
CONSTANTS
  Issue <- Family
  User = {u1, u2}
  Source = {"web", "ext", "chain"}
  NoIssue = "none"
  Parent <- FamilyParent
  LogsToParent = {"task"}
  Floor = 1
  Unit = 3
  Day = 5
  Rounds = 2
  Scenes <- MCScenes
  MaxLogs = 4
  Chained <- MCChained
  LogToIssue = "story"
  Chain = "chain"
  LogUnits <- MCLogUnits
  MaxAge = 1
  Tab = {tab1, tab2}
SYMMETRY Symmetry
INVARIANTS
  WorkCanBeEnded
  
  OneLogInProgress
  TimeOnLine
  ChainBilled
CHECK_DEADLOCK FALSE
