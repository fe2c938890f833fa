CONSTANTS
  Dev = {s1, s2}
  Auth = {s1, s2}
  VM = {v1}
  Levels = {"suspend"}
  Cap = 1
  KernelCap = 1
  MaxPull = 1
CHECK_DEADLOCK FALSE
SPECIFICATION Spec
PROPERTY PanicNeedsNoStick
