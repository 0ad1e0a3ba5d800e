SPECIFICATION Spec
CONSTANTS
  Issue = {i1, i2}
  raw = raw
  round = round
  Text = {raw, round}
  Rounded <- RoundedUp
  None = None
  Gone = Gone
  Nesting = 2
  MaxLogs = 2
  MaxPosts = 3
  MaxSteps = 5
SYMMETRY Symmetry
INVARIANTS
  Accounted
  CountedOnce
  HeldOnce
  SameIssue
  MarkTruthful
CHECK_DEADLOCK FALSE
