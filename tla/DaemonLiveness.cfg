CONSTANTS
  Client = {c1, c2}
  VM = {v1}
  Unknown = unknown
  NoClient = none
  MaxDomid = 1
SPECIFICATION FairSpec
PROPERTY EveryRequestAnswered
