CONSTANTS
  BufferSize = 2
  MaxSize = 5
  MaxHashed = 8
SPECIFICATION FairSpec
INVARIANTS HashTypeOK BuffersAreFree HashedInOrder DigestOfData
PROPERTIES ProgressGrows HashEnds CancelEnds
CHECK_DEADLOCK FALSE
