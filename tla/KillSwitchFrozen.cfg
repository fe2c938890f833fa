CONSTANTS
  Dev = {s1}
  Auth = {s1}
  VM = {v1, v2}
  Levels = {"suspend"}
  Cap = 1
  KernelCap = 1
  MaxPull = 1
CHECK_DEADLOCK FALSE
SPECIFICATION Spec
PROPERTY AllVmsFrozen
