CONSTANTS
  Stick = {st1, st2}
  Run = {r1, r2}
  SlotMax = 1
  MaxKey = 2
  Gpt = Gpt
  Blank = Blank
  None = None
  Timeouts = {0, 1}
SPECIFICATION FairSpec
INVARIANTS
  TypeOK
  NoDeadSlot
  ReportedStickOpens
  RevokedStaysOut
PROPERTIES
  GivesUpRightly
  GoodStickBoots
  KeysLiveOnce
