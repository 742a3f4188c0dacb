--------------------------- MODULE MCClientWatch ---------------------------
(* Connections, and the partners they lead to, are interchangeable.        *)
EXTENDS ClientWatch, TLC

Symmetry == Permutations(Conns) \cup Permutations(Peers)
=============================================================================
