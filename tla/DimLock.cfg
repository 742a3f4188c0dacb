SPECIFICATION LockFairSpec
CONSTANTS
  Threads = {t1, t2, t3}
  MaxDepth = 3
INVARIANTS
  MutualExclusion
PROPERTIES
  ImplementsLock
  LockMovesOn
