SPECIFICATION Spec
CONSTANTS
  MaxTasks = 3
  Spaces = {s1, s2}
  Blocks = {b1, b2, b3, b4}
  KernelPT = kernelPT
  NULL = null
  Events = {"forkOOM", "childFault", "foreignWait", "kill", "killChild", "secondElf"}
INVARIANTS TypeOK OneRunning
CHECK_DEADLOCK FALSE
