CONSTANTS
  Verifies = {v1}
  Creates = {c1}
  MaxFiles = 2
  MaxReads = 1
  QueueLimit = 1
SPECIFICATION Spec
PROPERTY EveryOperationEnds
CHECK_DEADLOCK FALSE
