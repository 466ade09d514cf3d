SPECIFICATION Spec
CONSTANTS
  Last = 6
  Slots = 2
  PerSector = 4
  StackDepth = 2
  Names = {"A", "B"}
  x = x
  y = y
  Blocks = {x, y}
  Contents <- MCLong
  Paths <- MCDown
  Rooms = {2}
  Shell = {shell}
  Programs = {}
  Calls = {"write", "mkdir", "chdir"}
  Events = {"tight", "crash", "readFail", "writeFail"}
INVARIANT ChainsSound
PROPERTY ReturnsTruth
