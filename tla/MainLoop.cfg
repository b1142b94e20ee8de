CONSTANTS
  Verifies = {v1}
  Creates = {c1}
  MaxFiles = 1
  MaxReads = 2
  QueueLimit = 2
  MaxOpen = 2
SPECIFICATION FairLoopSpec
INVARIANTS LoopTypeOK NoLostWakeup OutputIsComplete
PROPERTIES ShutdownReturns EventsAreDispatched PostedIsFinished
CHECK_DEADLOCK FALSE
