SPECIFICATION DispatchSpec
CONSTANTS
  CallBackIDs = {1, 2}
  Sizes = {1}
  CopySizes = {1}
  MAXBUFFERSIZE = 1
  MaxCalls = 1
  MAXSERVICES = 3
  MaxRegs = 2
INVARIANT IDIdentifiesEvent
