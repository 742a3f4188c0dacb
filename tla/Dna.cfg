SPECIFICATION FairSpec
CONSTANTS
  Numbers = {1}
  Partners = {"p"}
  MaxConns = 1
  MaxPackets = 2
  HeaderSize = 1
  BodySize = 2
  MaxRead = 2
  MaxWrite = 2
  MaxTimedOut = 2
INVARIANTS
  RememberedOnce
PROPERTIES
  ImplementsPacketChannel
  InStep
  PassedInTheEnd
CHECK_DEADLOCK FALSE
