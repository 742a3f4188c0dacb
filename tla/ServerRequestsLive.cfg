SPECIFICATION FairSpec
CONSTANTS
  Services = {s1, s2}
  Conns = {c1}
  Requests = {r1, r2}
  Updaters = {u1}
PROPERTY
  DeletionDone
