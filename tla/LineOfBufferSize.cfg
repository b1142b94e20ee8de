CONSTANTS
  READ_BUFFER_SIZE = 2
  MaxLength = 6
SPECIFICATION Spec
INVARIANT OnlyLongLinesFail
CHECK_DEADLOCK FALSE
