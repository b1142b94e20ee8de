CONSTANTS
  Verifies = {v1}
  Creates = {c1}
  MaxFiles = 1
  MaxReads = 2
  QueueLimit = 2
  MaxOpen = 2
SPECIFICATION FairLoopSpec

PROPERTY NoGuiQuits
CHECK_DEADLOCK FALSE
