SPECIFICATION FairDispatch
CONSTANTS
  CallBackIDs = {1, 2}
  Sizes = {1}
  CopySizes = {1}
  MAXBUFFERSIZE = 1
  MaxCalls = 2
  MAXSERVICES = 3
  MaxRegs = 2
INVARIANTS
  SubscriptionsRegistered
  FreedIsForgotten
  ExecutingFlag
  DispatchedToOwner
PROPERTIES
  ApplicationReturns
