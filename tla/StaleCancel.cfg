CONSTANTS
  Verifies = {v1, v2}
  Creates = {c1}
  MaxFiles = 1
  MaxReads = 1
  QueueLimit = 1
SPECIFICATION StaleSpec
INVARIANT OnlyRunningIsCanceled
CHECK_DEADLOCK FALSE
