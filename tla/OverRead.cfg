CONSTANTS
  BufferSize = 2
  MaxSize = 5
  MaxHashed = 8
SPECIFICATION FairSpec
PROPERTY FileCheckCompletes
CHECK_DEADLOCK FALSE
