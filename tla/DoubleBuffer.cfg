SPECIFICATION FairSpec
CONSTANTS
  CallBackIDs = {1, 2}
  Sizes = {1, 2, 3}
  CopySizes = {1, 2}
  MAXBUFFERSIZE = 2
  MaxCalls = 4
INVARIANTS
  NoSharedCopy
  ResultIntact
PROPERTIES
  ImplementsChannel
  CallbackReturns
  DataFetched
