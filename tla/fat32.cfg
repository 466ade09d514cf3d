SPECIFICATION Spec
CONSTANTS
  Last = 6
  Slots = 2
  PerSector = 7
  StackDepth = 2
  Names = {"A", "B"}
  x = x
  y = y
  Blocks = {x, y}
  Contents <- MCContents
  Paths <- MCPaths
  Rooms = {1, 2}
  Shell = {shell}
  Programs = {}
  Calls = {"write", "overwrite", "mkdir", "delete", "rename", "read", "readdir", "chdir"}
  Events = {}
INVARIANTS ChainsSound NothingLost CwdNamed
PROPERTIES ImplementsVolume ReturnsTruth AnswersTruth
