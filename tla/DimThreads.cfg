SPECIFICATION FairSpec
CONSTANTS
  Callers = {t1, t2, t3}
  MaxCount = 2
INVARIANTS
  SignalHeard
  ThreadsUp
PROPERTIES
  WaitReturns
  StopReturns
CHECK_DEADLOCK FALSE
