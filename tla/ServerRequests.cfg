SPECIFICATION Spec
CONSTANTS
  Services = {s1, s2}
  Conns = {c1, c2}
  Requests = {r1, r2}
  Updaters = {u1, u2}
SYMMETRY Symmetry
INVARIANTS
  UpdateUsesLive
  DeletionRemembered
  UpdateReachesAll
  RequestsServed
  HangsOnlyInUpdates
