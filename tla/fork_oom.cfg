SPECIFICATION Spec
CONSTANTS
  MaxTasks = 4
  Spaces = {s1, s2, s3}
  Blocks = {b1, b2, b3, b4, b5, b6}
  KernelPT = kernelPT
  NULL = null
  Events = {"forkOOM"}
INVARIANTS StacksOwned
CHECK_DEADLOCK FALSE
