--------------------------- MODULE MCServiceList ---------------------------
(* All services share a bucket of the hash table.                          *)
EXTENDS ServiceList, TLC

HashOf == [s \in Services |-> 1]

Symmetry == Permutations(Clients)
=============================================================================
