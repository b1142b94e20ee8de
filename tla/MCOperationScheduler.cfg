CONSTANTS
  Verifies = {v1}
  Creates = {c1}
  MaxFiles = 2
  MaxReads = 1
  QueueLimit = 1
  MaxLag = 6
SPECIFICATION Spec
CONSTRAINT LagBound
INVARIANTS TypeOK CountsBounded WorkInOrder ReportedInOrder
PROPERTY HandlerContract
CHECK_DEADLOCK FALSE
