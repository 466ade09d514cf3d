SPECIFICATION Spec
CONSTANTS
  Last = 5
  Slots = 4
  PerSector = 6
  StackDepth = 2
  Names = {"A", "B"}
  x = x
  y = y
  Blocks = {x, y}
  Contents <- MCCreations
  Paths <- MCDown
  Rooms = {2}
  Shell = {shell}
  Programs = {prog}
  Calls = {"write", "mkdir", "chdir"}
  Events = {"preempt"}
PROPERTY BufferSafe
CHECK_DEADLOCK FALSE
