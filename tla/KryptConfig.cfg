CONSTANTS
  a = a
  b = b
  bad = bad
  s1 = s1
  s2 = s2
  badSerial = badSerial
  Name = {a, b, bad}
  GoodName = {a, b}
  Serial = {s1, s2, badSerial}
  GoodSerial = {s1, s2}
  Files <- MCFiles
  Edits <- MCEdits
  Missing = Missing
  Garbled = Garbled
  NoAnswer = NoAnswer
SPECIFICATION FairSpec
INVARIANTS
  TypeOK
  EveryBlockCounts
PROPERTIES
  AcceptsExactlyWellFormed
  ServesOneReading
  RepairedFileServes
