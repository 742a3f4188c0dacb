SPECIFICATION FairSpec
CONSTANTS
  StdServices = 1
  MaxIDs = 3
  MaxBreaks = 1
  MaxUpdates = 1
INVARIANTS
  NameServerKnows
  Reachable
  ServicesKept
PROPERTIES
  ServicesAnnounced
  StopsReturn
CHECK_DEADLOCK FALSE
