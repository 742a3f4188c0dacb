------------------------------- MODULE DimLock -------------------------------
(***************************************************************************)
(* DIM's global lock on Unix (dim_thr.c): dim_lock and dim_unlock, which   *)
(* DISABLE_AST and ENABLE_AST stand for, make a recursive lock of a mutex  *)
(* that is not.  Dim_thr_locker, the thread that holds it, is tested       *)
(* before the mutex is taken, so that it is read while another thread may  *)
(* be writing it; Dim_thr_counter counts the calls to be undone.           *)
(*                                                                         *)
(* Every action is one access to the shared variables.                     *)
(***************************************************************************)
EXTENDS Naturals

CONSTANTS
  Threads,    (* those of the application and the two of DIM              *)
  MaxDepth    (* bounds the calls of dim_lock a thread nests              *)

ASSUME DimLockAssumption == 0 \notin Threads /\ MaxDepth \in Nat

VARIABLES
  mutex,      (* the thread that has Global_DIM_mutex, or 0                *)
  locker,     (* Dim_thr_locker                                            *)
  thrCounter, (* Dim_thr_counter                                           *)
  at,         (* where each thread is; "run" outside of the two functions  *)
  depth       (* the calls of dim_lock each thread has made and not undone *)

lockVars == <<mutex, locker, thrCounter, at, depth>>

LockInit ==
  /\ mutex = 0 /\ locker = 0 /\ thrCounter = 0
  /\ at = [t \in Threads |-> "run"]
  /\ depth = [t \in Threads |-> 0]

MoveTo(t, from, to) == at[t] = from /\ at' = [at EXCEPT ![t] = to]

-----------------------------------------------------------------------------
(* dim_lock                                                                *)

(* Wrong: anyone's lock will do.                                           *)
TakeAny(t) ==
  /\ depth[t] < MaxDepth
  /\ MoveTo(t, "run", IF locker = 0 THEN "acquire" ELSE "count")
  /\ UNCHANGED <<mutex, locker, thrCounter, depth>>

TakeLock(t) ==
  /\ depth[t] < MaxDepth
  /\ MoveTo(t, "run", IF locker # t THEN "acquire" ELSE "count")
  /\ UNCHANGED <<mutex, locker, thrCounter, depth>>

Acquire(t) ==
  /\ MoveTo(t, "acquire", "own")
  /\ mutex = 0
  /\ mutex' = t
  /\ UNCHANGED <<locker, thrCounter, depth>>

Own(t) ==
  /\ MoveTo(t, "own", "count")
  /\ locker' = t
  /\ UNCHANGED <<mutex, thrCounter, depth>>

Count(t) ==
  /\ MoveTo(t, "count", "run")
  /\ thrCounter' = thrCounter + 1
  /\ depth' = [depth EXCEPT ![t] = @ + 1]
  /\ UNCHANGED <<mutex, locker>>

-----------------------------------------------------------------------------
(* dim_unlock, which DIM calls only for a dim_lock before.                 *)

(* Wrong: the first dim_unlock undoes all.                                 *)
GiveAll(t) ==
  /\ depth[t] > 0
  /\ MoveTo(t, "run", "disown")
  /\ thrCounter' = 0
  /\ depth' = [depth EXCEPT ![t] = @ - 1]
  /\ UNCHANGED <<mutex, locker>>

GiveLock(t) ==
  /\ depth[t] > 0
  /\ MoveTo(t, "run", "test")
  /\ thrCounter' = thrCounter - 1
  /\ depth' = [depth EXCEPT ![t] = @ - 1]
  /\ UNCHANGED <<mutex, locker>>

(* Wrong: one short.                                                       *)
TestEarly(t) ==
  /\ MoveTo(t, "test", IF thrCounter = 1 THEN "disown" ELSE "run")
  /\ UNCHANGED <<mutex, locker, thrCounter, depth>>

Test(t) ==
  /\ MoveTo(t, "test", IF thrCounter = 0 THEN "disown" ELSE "run")
  /\ UNCHANGED <<mutex, locker, thrCounter, depth>>

Disown(t) ==
  /\ MoveTo(t, "disown", "release")
  /\ locker' = 0
  /\ UNCHANGED <<mutex, thrCounter, depth>>

Release(t) ==
  /\ MoveTo(t, "release", "run")
  /\ mutex' = 0
  /\ UNCHANGED <<locker, thrCounter, depth>>

-----------------------------------------------------------------------------
(* A thread inside dim_lock or dim_unlock, which goes on; the rest of the  *)
(* time it does as it likes.                                               *)
Step(t) ==
  Acquire(t) \/ Own(t) \/ Count(t) \/ Test(t) \/ Disown(t) \/ Release(t)

LockNext == \E t \in Threads : TakeLock(t) \/ GiveLock(t) \/ Step(t)

LockSpec == LockInit /\ [][LockNext]_lockVars

(* The threads are scheduled.  Who gets the mutex when several wait for it *)
(* is up to the system, which need not be fair.                            *)
LockFairSpec == LockSpec /\ \A t \in Threads : WF_lockVars(Step(t))

-----------------------------------------------------------------------------
(* Properties.                                                             *)

LockTypeOK ==
  /\ mutex \in Threads \cup {0}
  /\ locker \in Threads \cup {0}
  /\ thrCounter \in Nat
  /\ at \in [Threads -> {"run", "acquire", "own", "count", "test", "disown",
                         "release"}]
  /\ depth \in [Threads -> Nat]

(* The thread that has the mutex is the one with the lock, or on its way   *)
(* into or out of it.                                                      *)
HasMutex(t) == depth[t] > 0 \/ at[t] \in {"own", "count", "test", "disown", "release"}

MutexOwned == \A t \in Threads : HasMutex(t) <=> mutex = t

(* Dim_thr_locker names the thread itself only if it holds the mutex: what *)
(* dim_lock concludes from it stays true although it is read without it.   *)
LockerOwns ==
  \A t \in Threads :
    locker = t <=> mutex = t /\ at[t] \notin {"own", "release"}

(* Dim_thr_counter counts the calls of the thread that holds the lock.     *)
CounterIsDepth ==
  thrCounter = IF mutex = 0 THEN 0 ELSE depth[mutex]

OutsideNested ==
  \A t \in Threads :
    /\ at[t] \in {"acquire", "own", "disown", "release"} => depth[t] = 0
    /\ at[t] = "run" /\ depth[t] = 0 => mutex # t

(* Together with the types these are preserved by every step.              *)
LockInv == LockTypeOK /\ MutexOwned /\ LockerOwns /\ CounterIsDepth /\ OutsideNested

(* No two threads hold DIM's lock, however deep each has nested it: what   *)
(* one module does under DISABLE_AST no other thread interrupts.           *)
MutualExclusion ==
  \A t, u \in Threads : depth[t] > 0 /\ depth[u] > 0 => t = u

Abstract == INSTANCE RecursiveLock WITH held <- depth

(* dim_lock and dim_unlock are a recursive lock.                           *)
ImplementsLock == Abstract!Spec

(* The lock does not get lost: while a thread waits for it somebody gets   *)
(* it, if whoever has it gives it back as often as it took it.             *)
HoldersReturn == \A t \in Threads : depth[t] > 0 ~> depth[t] = 0
LockMovesOn ==
  HoldersReturn =>
    ((\E t \in Threads : at[t] = "acquire") ~> (\E t \in Threads : at[t] = "own"))
=============================================================================
