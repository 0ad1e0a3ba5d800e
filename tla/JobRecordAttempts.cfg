SPECIFICATION Spec
CONSTANTS
  MaxRetries = 3
  RetryPattern <- ShortPattern
  RetryInterval = 2
  PgRetry = 1
  ErrorSeconds = {0, 1}
  StuckDelta = 2
  RemovalInterval = 2
  MaxTime = 7
  MaxAttempts = 4
CHECK_DEADLOCK FALSE
INVARIANTS
  RecordConsistent
  LimitEnforced
PROPERTY ScheduleKept
