SPECIFICATION Spec
CONSTANTS
  Services = {"a", "b"}
  Clients = {c1, c2, c3}
  Buckets = {1}
  Hash <- HashOf
  MaxNew = 2
SYMMETRY Symmetry
INVARIANTS
  ListsAgree
  NewEntriesCounted
