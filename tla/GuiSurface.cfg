SPECIFICATION FairSpec
CONSTANTS
  N = 2
  Dims <- GuiDims
  Stub <- GuiStub
  U32Max = 31
  I32Max = 15
  MaxBytes = 8
  Events = 1
INVARIANTS TypeOK NoProtocolError BufferHoldsPicture ShownIsPainted InFlightIsOutstanding OneCallback
PROPERTIES WindowsAppear PingsAnswered ShutdownEnds EachWindowItsShow
CHECK_DEADLOCK FALSE
