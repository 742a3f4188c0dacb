-------------------------- MODULE MCServerRequests --------------------------
(* Symmetry for the safety checks of ServerRequests.                         *)
EXTENDS ServerRequests, TLC

Symmetry == Permutations(Services) \cup Permutations(Conns)
            \cup Permutations(Requests) \cup Permutations(Updaters)
=============================================================================
