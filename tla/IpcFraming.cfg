SPECIFICATION FairSpec
CONSTANTS
  status = status
  list = list
  junk = junk
  long = long
  raw = raw
  Call <- Kinds
  CallLen <- KindLen
  ReplyLen <- KindAnswer
  Garbled = {junk}
  Unchecked = {raw}
  MaxFrame = 2
  HeaderLen = 2
  Cap = 2
  MaxBackoff = 2
  MaxCalls = 3
  None = None
INVARIANTS TypeOK
PROPERTIES CallsAreOnce CallsReturn TasksEnd
