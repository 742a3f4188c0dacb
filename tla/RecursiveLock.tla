---------------------------- MODULE RecursiveLock ----------------------------
(***************************************************************************)
(* What every module of DIM takes DISABLE_AST and ENABLE_AST for: a lock   *)
(* that one thread holds at a time, that its holder may take again without *)
(* waiting, and that is free for others when it has been given back as     *)
(* often as it was taken.                                                  *)
(*                                                                         *)
(* The module models no code of its own; DimLock implements it.            *)
(***************************************************************************)
EXTENDS Naturals

CONSTANT Threads

VARIABLE held    (* how many times each thread holds the lock            *)

Init == held = [t \in Threads |-> 0]

Take(t) ==
  /\ \A u \in Threads \ {t} : held[u] = 0
  /\ held' = [held EXCEPT ![t] = @ + 1]

Give(t) ==
  /\ held[t] > 0
  /\ held' = [held EXCEPT ![t] = @ - 1]

Next == \E t \in Threads : Take(t) \/ Give(t)

Spec == Init /\ [][Next]_held
=============================================================================
