CONSTANTS
  Parts = {"list", "command", "providers", "settings"}
  Verifies = {v1}
  Creates = {c1}
  MaxFiles = 2
  FileName <- TwoFiles
  NameLength <- Lengths
  MessageName = 2
  Lines <- ShortLines
  ArgLists <- ShortLists
  BuiltIn <- SfvAndMd5
  Plugins <- PluginKinds
  MaxPlugins = 3
  FileNames <- SomeFileNames
  Windows = {"v", "w"}
  Machines = {"new", "old"}
  supportsAvx512 <- NewSupports
  Placements = {1, 2}
  NoPlacement = 1
  MaxKeys = 2
CONSTRAINT SecondIsShort
SPECIFICATION MCSpec
INVARIANTS InBounds CountsMatchList OriginalOrder AllFilesOK CommandLineAnswered FormatIsChosen OptionsAreAsked
PROPERTIES SingleDeletion Restores
CHECK_DEADLOCK FALSE
