CONSTANTS
  READ_BUFFER_SIZE = 2
  MaxLength = 6
SPECIFICATION FairSpec
INVARIANTS ReaderTypeOK LinesOfTheFile RejectsForAReason
PROPERTY ReadingEnds
CHECK_DEADLOCK FALSE
