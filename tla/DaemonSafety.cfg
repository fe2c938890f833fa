CONSTANTS
  Client = {c1, c2}
  VM = {v1, v2}
  Unknown = unknown
  NoClient = none
  MaxDomid = 2
SYMMETRY Symmetry
SPECIFICATION Spec
INVARIANTS
  TypeOK
  WaitersQueued
  GuardStillHolds
  DomidCurrent
  NoSharedDomain
  LossAccounted
PROPERTY AtomicService
