SPECIFICATION Spec
CONSTANTS
  Names = {n1, n2}
  Updaters = {u1, u2}
  ExitCodes = {1}
  DIMDNSEXIT = 4
  MAXSERVICES = 3
  MaxAdds = 3
INVARIANTS
  SlotsDeclared
  ServicesOwned
  NoLeak
  DeclaredHasBuffer
