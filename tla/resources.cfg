SPECIFICATION ResourcesSpec
CONSTANTS
  PipeBuf = 4
  Byte = {x, y}
  Writers = {w1}
  Messages <- MCMessages
  MaxMsg = 3
  Lens = {1, 3}
  MaxSent = 6
  MaxTasks = 2
  MaxFds = 3
  FirstFd = 1
  MaxPipes = 1
  Capacity = 1
  Amounts = {1, 2}
  Events = {}
  P = 2
  R = 13
  KernelTop = 2
  RamTop = 22
  HeapRegion = 12
  HeapPages = 1
  Images <- MCImages
  StackPages <- MCStack
  Procs = {p1, p2, p3}
  NULL = NULL
INVARIANTS NoByteLost CountsExact MemorySound
PROPERTIES Implements EofReached WriteReturns EofSound EofDelivered ForkCopiesAll LossBounded
CHECK_DEADLOCK FALSE
