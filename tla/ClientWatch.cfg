SPECIFICATION Spec
SYMMETRY Symmetry
CONSTANTS
  Conns = {c1, c2, c3}
  Peers = {p, q, r}
  MaxWishes = 2
  MaxInUse = 2
INVARIANTS
  ClientListRight
  EndsAreTrue
