SPECIFICATION TablesSpec
CONSTANTS
  User = {"admin", "manager"}
  Process = {p1, p2}
  Key = {"K", "L"}
  Listed <- Shown
  SeesAll = {"admin"}
  Scenes <- MCScenes
  Person = {"open", "hidden", "tester"}
  Visible = {"open", "tester"}
  Nobody = "nobody"
  Status = {"s"}
  Item = {"i"}
  Issue <- Issues
  HasBoard = {"K", "L"}
SYMMETRY Symmetry
INVARIANTS
  AccessExplained
  TablesExplained
CHECK_DEADLOCK FALSE
