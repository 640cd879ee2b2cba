\* Every file and path, several lengths of a chunk, highest compression that uses several windows.
SPECIFICATION Spec
CONSTANTS
  Files <- PackedFiles
  Options <- CommandLines
  FeedLen = 16
  Requests <- AllRequests
  Extension <- Extensions
  NoLen = NoLen
  TestLen = 3
  ChunkLens = {1, 4, 5, 15, 89, 100}
  TokenMax = 2
  Parts <- Substitutions
INVARIANTS
  FileAsStored
  TemplateAsSubstituted
  NothingLeaks
PROPERTIES
  EachCallAdvances
CHECK_DEADLOCK FALSE
