CONSTANTS
  Parts = {"input", "folder", "formats", "utf", "rar", "digests", "window"}
  Files = {"a", "b", "c"}
  NoFile = "none"
  Size <- ThreeSizes
  ReadSizes = {1, 2, 4}
  Offsets <- SomeOffsets
  MaxPosition = 6
  OpenAtEnd = FALSE
  Names = {"a", "b", "c"}
  Base <- TwoNames
  Folders <- SmallFolders
  MaxDepth = 2
  DigestLength = 1
  MaxLine = 4
  MaxPath = 2
  Texts <- LimitTexts
  ByteRanges <- KindRanges
  MaxGrowth = 2
  Bytes <- SignatureBytes
  High = 4
  Signature <- ThreeByteSignature
  CrcSize = 2
  MaxBytes = 7
  MaxVInt = 2
  Word = 8
  EmptyOperands = FALSE
  FreshHasher = FALSE
  Variables = {"x", "y"}
  Plugins = {"sha1", "other"}
  Chunks = {1}
  MaxChunks = 1
  MaxBlocks = 2
  N = 3
  Times = {0, 1, 3, 7}
  BufferSize = 4
  Second = 10
  MaxReads = 7
SPECIFICATION MCSpec
INVARIANTS InBounds FolderIsListed ReadsBack TextSurvives ArchiveIsRead BandwidthOfLastReads
PROPERTIES ImplementsFileReader ImplementsDigestValue ConversionGoesOn
CHECK_DEADLOCK FALSE
