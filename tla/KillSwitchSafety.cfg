CONSTANTS
  Dev = {s1}
  Auth = {s1}
  VM = {v1, v2}
  Levels = {"lock", "suspend", "nuke"}
  Cap = 1
  KernelCap = 1
  MaxPull = 2
SYMMETRY Symmetry
CHECK_DEADLOCK FALSE
SPECIFICATION Spec
INVARIANTS
  TypeOK
PROPERTIES
  ListedVmsFirst
  OneAlarmPerPull
