CONSTANTS
  Dev = {s1, d}
  Auth = {s1}
  VM = {v1}
  Levels = {"lock", "suspend", "nuke"}
  Cap = 1
  KernelCap = 1
  MaxPull = 2
CHECK_DEADLOCK FALSE
SPECIFICATION FairSpec
INVARIANT RemovalsAccounted
PROPERTIES
  RemovalsHandled
  NukeEndsOff
