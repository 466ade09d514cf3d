SPECIFICATION SpacesSpec
CONSTANTS
  P = 2
  R = 13
  KernelTop = 2
  RamTop = 22
  HeapRegion = 12
  HeapPages = 1
  Images <- MCImages
  StackPages <- MCStack
  Procs = {p1, p2, p3}
  NULL = NULL
INVARIANT Reclaimed
