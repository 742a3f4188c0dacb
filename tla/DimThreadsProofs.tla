-------------------------- MODULE DimThreadsProofs --------------------------
(***************************************************************************)
(* Proofs about DIM's threads, for any number of callers: no signal to     *)
(* dim_wait is lost, and the two threads are started once and stopped      *)
(* whole.  The two arguments do not meet: one is about the counters of     *)
(* dim_wait_cond, the other about how far dim_init and dim_stop have come. *)
(*                                                                         *)
(* They take DIM's lock for what DimLock shows it to be; the proofs about  *)
(* DimLock, for any threads and any depth of nesting, are at the end.      *)
(***************************************************************************)
EXTENDS DimThreads, DimLock, FiniteSetTheorems, TLAPS

USE DimThreadsAssumption

CondInv == SignalHeard /\ CounterSays
LifeInv == OneBusy /\ PhaseState /\ QuietState

LEMMA InitInv == Init => Inv
<1> SUFFICES ASSUME Init PROVE Inv
  OBVIOUS
<1>1. Waiting = {}
  BY DEF Init, Waiting
<1>2. TypeOK
  <2>1. waiters = Cardinality(Waiting)
    BY <1>1, FS_EmptySet DEF Init
  <2>2. /\ thread \in [DimThreads -> {"none"}] /\ pc \in [Callers -> {"run"}]
        /\ wait \in [Callers -> {"no"}]
    BY DEF Init
  <2>3. initDone \in BOOLEAN /\ fresh \in BOOLEAN
    BY Zenon DEF Init
  <2>4. counter \in Int /\ sema \in Nat
    BY DEF Init
  <2>5. known \subseteq DimThreads /\ cancelled \subseteq known /\ holder = "nobody"
    BY DEF Init
  <2> QED BY <2>1, <2>2, <2>3, <2>4, <2>5 DEF TypeOK
<1>3. SignalHeard /\ CounterSays /\ OneBusy /\ PhaseState /\ QuietState
  BY DEF Init, SignalHeard, CounterSays, OneBusy, PhaseState, QuietState
<1> QED BY <1>2, <1>3 DEF Inv

-----------------------------------------------------------------------------
(* The number of waiters.                                                  *)

LEMMA WaitingFinite == IsFiniteSet(Waiting) /\ Cardinality(Waiting) \in Nat
<1>1. Waiting \in SUBSET Callers
  BY DEF Waiting
<1> QED BY <1>1, FS_Subset, FS_CardinalityType

LEMMA WaitingSame ==
  ASSUME UNCHANGED wait PROVE Waiting' = Waiting
  BY DEF Waiting

LEMMA SomebodyWaits ==
  ASSUME TypeOK PROVE waiters \in Nat /\ (waiters = 0 <=> Waiting = {})
  BY WaitingFinite, FS_EmptySet DEF TypeOK

-----------------------------------------------------------------------------
(* dim_wait and the signals.                                               *)

LEMMA SignalKeepsCond ==
  ASSUME Inv, NEW k \in DimThreads, Signal(k) PROVE TypeOK' /\ CondInv'
<1>1. Waiting' = Waiting
  BY DEF Signal, Waiting, Inv, TypeOK
<1>2. waiters \in Nat /\ (waiters = 0 => \A t \in Callers : wait[t] = "no")
  BY SomebodyWaits DEF Inv, Waiting
<1>3. TypeOK'
  BY <1>1 DEF Inv, TypeOK, Signal, Become
<1>4. SignalHeard'
  BY <1>2 DEF Inv, TypeOK, SignalHeard, Signal
<1>5. CounterSays'
  BY <1>2 DEF Inv, TypeOK, CounterSays, Signal
<1> QED BY <1>3, <1>4, <1>5 DEF CondInv

LEMMA WaitBeginKeepsCond ==
  ASSUME Inv, NEW t \in Callers, WaitBegin(t) PROVE TypeOK' /\ CondInv'
<1>1. CASE counter = 0
  <2>1. Waiting' = Waiting \cup {t} /\ t \notin Waiting
    BY <1>1 DEF WaitBegin, Free, Waiting, Inv, TypeOK
  <2>2. waiters' = Cardinality(Waiting)'
    BY <1>1, <2>1, WaitingFinite, FS_AddElement DEF WaitBegin, Inv, TypeOK
  <2>3. waiters \in Nat /\ ~fresh /\ fresh' = fresh /\ counter' = 0
    BY <1>1, SomebodyWaits DEF Inv, CounterSays, TypeOK, WaitBegin
  <2>4. TypeOK'
    BY <1>1, <2>2 DEF Inv, TypeOK, WaitBegin, lifeVars
  <2>5. CondInv'
    BY <2>3 DEF CondInv, SignalHeard, CounterSays
  <2> QED BY <2>4, <2>5
<1>2. CASE counter # 0
  <2>1. Waiting' = Waiting
    BY <1>2, WaitingSame DEF WaitBegin
  <2>2. TypeOK'
    <3>1. counter' \in Int /\ waiters' = Cardinality(Waiting')
      BY <1>2, <2>1 DEF Inv, TypeOK, WaitBegin
    <3> QED BY <1>2, <3>1 DEF Inv, TypeOK, WaitBegin, lifeVars
  <2>3. CondInv'
    BY <1>2 DEF Inv, TypeOK, CondInv, SignalHeard, CounterSays, WaitBegin
  <2> QED BY <2>2, <2>3
<1> QED BY <1>1, <1>2

LEMMA WakeUnaskedKeepsCond ==
  ASSUME Inv, NEW t \in Callers, WakeUnasked(t) PROVE TypeOK' /\ CondInv'
<1>1. Waiting' = Waiting
  BY DEF WakeUnasked, Waiting, Inv, TypeOK
<1>2. TypeOK'
  BY <1>1 DEF Inv, TypeOK, WakeUnasked, lifeVars
<1>3. CondInv'
  BY DEF Inv, TypeOK, CondInv, SignalHeard, CounterSays, WakeUnasked
<1> QED BY <1>2, <1>3

LEMMA WaitEndKeepsCond ==
  ASSUME Inv, NEW t \in Callers, WaitEnd(t) PROVE TypeOK' /\ CondInv'
<1>1. Waiting' = Waiting \ {t} /\ t \in Waiting
  BY DEF WaitEnd, Waiting, Inv, TypeOK
<1>2. waiters' = Cardinality(Waiting)'
  BY <1>1, WaitingFinite, FS_RemoveElement DEF WaitEnd, Inv, TypeOK
<1>3. waiters \in Nat /\ waiters # 0
  BY <1>1, SomebodyWaits DEF Inv
<1>4. TypeOK'
  <2>1. counter' \in Int
    BY DEF Inv, TypeOK, WaitEnd
  <2>2. wait' \in [Callers -> {"no", "sleep", "woken"}]
    BY DEF Inv, TypeOK, WaitEnd
  <2> QED BY <1>2, <2>1, <2>2 DEF Inv, TypeOK, WaitEnd, lifeVars
<1>5. CondInv'
  BY <1>3 DEF Inv, TypeOK, CondInv, SignalHeard, CounterSays, WaitEnd
<1> QED BY <1>4, <1>5

LEMMA OthersKeepCond ==
  ASSUME Inv, UNCHANGED condVars PROVE CondInv'
  BY DEF Inv, CondInv, SignalHeard, CounterSays, condVars

-----------------------------------------------------------------------------
(* dim_init and dim_stop.                                                  *)

LEMMA BusyIsPhase ==
  ASSUME Inv
  PROVE  ~Starting /\ ~Stopping <=> \A t \in Callers : pc[t] = "run"
  BY DEF Inv, TypeOK, Starting, Stopping

(* At any time one place in dim_init or dim_stop says what the threads     *)
(* are like, or there is nobody in either.                                 *)
LEMMA OthersRun ==
  ASSUME Inv, NEW t \in Callers, pc[t] # "run"
  PROVE  initDone /\ \A u \in Callers \ {t} : pc[u] = "run"
  BY DEF Inv, OneBusy

LEMMA InitStartKeepsLife ==
  ASSUME Inv, NEW t \in Callers, InitStart(t) PROVE TypeOK' /\ LifeInv'
<1>1. \A u \in Callers : pc[u] = "run"
  BY DEF Inv, OneBusy, InitStart
<1>2. known = {} /\ cancelled = {} /\ \A k \in DimThreads : thread[k] = "none"
  BY <1>1 DEF Inv, QuietState, InitStart
<1>3. Waiting' = Waiting
  BY WaitingSame DEF InitStart, condVars
<1>4. TypeOK'
  BY <1>3 DEF Inv, TypeOK, InitStart, Goto, Become, condVars, DimThreads
<1>5. OneBusy'
  BY <1>1 DEF Inv, TypeOK, OneBusy, InitStart, Goto
<1>6. PhaseState' /\ QuietState'
  BY <1>1, <1>2
     DEF Inv, TypeOK, PhaseState, QuietState, InitStart, Goto, Become, Rising, DimThreads
<1> QED BY <1>4, <1>5, <1>6 DEF LifeInv

LEMMA InitStepKeepsLife ==
  ASSUME Inv, NEW t \in Callers, InitStep(t) PROVE TypeOK' /\ LifeInv'
<1>1. pc[t] # "run"
  BY DEF InitStep, Await, InitStartIo, Goto
<1>2. initDone /\ \A u \in Callers \ {t} : pc[u] = "run"
  BY <1>1, OthersRun
<1>3. Waiting' = Waiting
  BY WaitingSame DEF InitStep, Await, InitStartIo, condVars
<1> USE DEF Inv, TypeOK, OneBusy, PhaseState, QuietState, LifeInv, Goto, Become,
            Rising, Runs, DimThreads
<1>4. CASE Await(t, "awaitAlrm", "startIo")
  BY <1>2, <1>3, <1>4 DEF Await, condVars
<1>5. CASE InitStartIo(t)
  BY <1>2, <1>3, <1>5 DEF InitStartIo, condVars
<1>6. CASE Await(t, "awaitIo", "run")
  BY <1>2, <1>3, <1>6 DEF Await, condVars
<1> QED BY <1>4, <1>5, <1>6 DEF InitStep

LEMMA StopBeginKeepsLife ==
  ASSUME Inv, NEW t \in Callers, StopBegin(t) PROVE TypeOK' /\ LifeInv'
<1>1. \A u \in Callers : pc[u] = "run"
  BY BusyIsPhase DEF StopBegin
<1>2. sema = 0 /\ \A k \in DimThreads : Runs(k)
  BY <1>1 DEF Inv, QuietState, StopBegin
<1>3. Waiting' = Waiting
  BY WaitingSame DEF StopBegin, condVars
<1>4. TypeOK'
  BY <1>3 DEF Inv, TypeOK, StopBegin, Goto, condVars
<1>5. known = DimThreads
  BY <1>2 DEF Inv, TypeOK, Runs
<1>6. LifeInv'
  BY <1>1, <1>2, <1>5
     DEF Inv, TypeOK, OneBusy, PhaseState, QuietState, LifeInv, StopBegin, Goto,
         Runs, Falling, DimThreads
<1> QED BY <1>4, <1>6

LEMMA StopStepKeepsLife ==
  ASSUME Inv, NEW t \in Callers, StopStep(t) PROVE TypeOK' /\ LifeInv'
<1>1. pc[t] # "run"
  BY DEF StopStep, Join, StopEnd, Goto
<1>2. initDone /\ \A u \in Callers \ {t} : pc[u] = "run"
  BY <1>1, OthersRun
<1>3. Waiting' = Waiting
  BY WaitingSame DEF StopStep, Join, StopEnd, condVars
<1> USE DEF Inv, TypeOK, OneBusy, PhaseState, QuietState, LifeInv, Goto, Become,
            Falling, DimThreads
<1>4. CASE Join(t, "io", "joinIo", "joinAlrm")
  BY <1>2, <1>3, <1>4 DEF Join, condVars
<1>5. CASE Join(t, "alrm", "joinAlrm", "stopped")
  BY <1>2, <1>3, <1>5 DEF Join, condVars
<1>6. CASE StopEnd(t)
  BY <1>2, <1>3, <1>6 DEF StopEnd, condVars
<1> QED BY <1>4, <1>5, <1>6 DEF StopStep

(* What one of DIM's threads does to itself.                               *)
LEMMA ThreadKeepsLife ==
  ASSUME Inv, NEW k \in DimThreads,
         Event(k) \/ Record(k) \/ Report(k) \/ Lock(k) \/ Unlock(k) \/ End(k)
  PROVE  TypeOK' /\ LifeInv'
<1>1. Waiting' = Waiting
  BY WaitingSame DEF Event, Record, Report, Lock, Unlock, End, condVars
<1> USE DEF Inv, TypeOK, Become
<1>2. CASE Event(k)
  <2>1. TypeOK'
    BY <1>1, <1>2 DEF Event, condVars
  <2>2. LifeInv'
    BY <1>2 DEF Event,
              LifeInv, OneBusy, PhaseState, QuietState, Rising, Runs, Falling, DimThreads
  <2> QED BY <2>1, <2>2
<1>3. CASE Record(k)
  <2>1. TypeOK'
    BY <1>1, <1>3 DEF Record, condVars
  <2>2. LifeInv'
    BY <1>3 DEF Record,
              LifeInv, OneBusy, PhaseState, QuietState, Rising, Runs, Falling, DimThreads
  <2> QED BY <2>1, <2>2
<1>4. CASE Report(k)
  <2>1. TypeOK'
    BY <1>1, <1>4 DEF Report, condVars
  <2>2. LifeInv'
    BY <1>4 DEF Report, Starting,
              LifeInv, OneBusy, PhaseState, QuietState, Rising, Runs, Falling, DimThreads
  <2> QED BY <2>1, <2>2
<1>5. CASE Lock(k)
  <2>1. TypeOK'
    BY <1>1, <1>5 DEF Lock, condVars
  <2>2. LifeInv'
    BY <1>5 DEF Lock,
              LifeInv, OneBusy, PhaseState, QuietState, Rising, Runs, Falling, DimThreads
  <2> QED BY <2>1, <2>2
<1>6. CASE Unlock(k)
  <2>1. TypeOK'
    BY <1>1, <1>6 DEF Unlock, condVars
  <2>2. LifeInv'
    BY <1>6 DEF Unlock,
              LifeInv, OneBusy, PhaseState, QuietState, Rising, Runs, Falling, DimThreads
  <2> QED BY <2>1, <2>2
<1>7. CASE End(k)
  <2>1. TypeOK'
    BY <1>1, <1>7 DEF End, condVars
  <2>2. LifeInv'
    BY <1>7 DEF End,
              LifeInv, OneBusy, PhaseState, QuietState, Rising, Runs, Falling, DimThreads
  <2> QED BY <2>1, <2>2
<1> QED BY <1>2, <1>3, <1>4, <1>5, <1>6, <1>7

LEMMA SignalKeepsLife ==
  ASSUME Inv, NEW k \in DimThreads, Signal(k) PROVE LifeInv'
  BY DEF Inv, TypeOK, Become, Signal, LifeInv, OneBusy, PhaseState, QuietState,
         Rising, Runs, Falling, DimThreads

LEMMA OthersKeepLife ==
  ASSUME Inv, UNCHANGED lifeVars PROVE LifeInv'
  BY DEF Inv, LifeInv, OneBusy, PhaseState, QuietState, Rising, Runs, Falling, lifeVars

LEMMA AppKeepsType ==
  ASSUME Inv, NEW t \in Callers, AppLock(t) \/ AppUnlock(t) PROVE TypeOK'
<1>1. Waiting' = Waiting
  BY WaitingSame DEF AppLock, AppUnlock, condVars
<1> QED BY <1>1 DEF Inv, TypeOK, AppLock, AppUnlock, lifeVars, condVars

-----------------------------------------------------------------------------
LEMMA InvParts == ASSUME TypeOK', CondInv', LifeInv' PROVE Inv'
  BY DEF Inv, CondInv, LifeInv

LEMMA NextKeepsInv == Inv /\ [Next]_vars => Inv'
<1> SUFFICES ASSUME Inv, [Next]_vars PROVE Inv'
  OBVIOUS
<1>1. ASSUME NEW k \in DimThreads, Event(k) \/ (ThreadStep(k) /\ ~Signal(k)) PROVE Inv'
  <2>1. UNCHANGED condVars
    BY <1>1 DEF Event, ThreadStep, Record, Report, Lock, Unlock, End
  <2> QED BY <1>1, <2>1, ThreadKeepsLife, OthersKeepCond, InvParts DEF ThreadStep
<1>2. ASSUME NEW k \in DimThreads, Signal(k) PROVE Inv'
  BY <1>2, SignalKeepsCond, SignalKeepsLife, InvParts
<1>3. ASSUME NEW t \in Callers, InitStart(t) \/ InitStep(t) \/ StopBegin(t) \/ StopStep(t)
      PROVE  Inv'
  <2>1. UNCHANGED condVars
    BY <1>3 DEF InitStart, InitStep, Await, InitStartIo, StopBegin, StopStep, Join, StopEnd
  <2> QED BY <1>3, <2>1, InitStartKeepsLife, InitStepKeepsLife, StopBeginKeepsLife,
             StopStepKeepsLife, OthersKeepCond, InvParts
<1>4. ASSUME NEW t \in Callers, WaitBegin(t) \/ WakeUnasked(t) \/ WaitEnd(t) PROVE Inv'
  <2>1. UNCHANGED lifeVars
    BY <1>4 DEF WaitBegin, WakeUnasked, WaitEnd
  <2> QED BY <1>4, <2>1, WaitBeginKeepsCond, WakeUnaskedKeepsCond, WaitEndKeepsCond,
             OthersKeepLife, InvParts
<1>5. ASSUME NEW t \in Callers, AppLock(t) \/ AppUnlock(t) PROVE Inv'
  <2>1. UNCHANGED <<lifeVars, condVars>>
    BY <1>5 DEF AppLock, AppUnlock
  <2> QED BY <1>5, <2>1, AppKeepsType, OthersKeepLife, OthersKeepCond, InvParts
<1>6. CASE UNCHANGED vars
  <2>1. TypeOK'
    BY <1>6, WaitingSame DEF Inv, TypeOK, vars, lifeVars, condVars
  <2> QED BY <1>6, <2>1, OthersKeepLife, OthersKeepCond, InvParts DEF vars
<1> QED BY <1>1, <1>2, <1>3, <1>4, <1>5, <1>6 DEF Next

(* The inductive invariant of DIM's threads.                               *)
THEOREM ThreadsInvariance == Spec => []Inv
  BY InitInv, NextKeepsInv, PTL DEF Spec

(* Every variable keeps its type, and Global_cond_waiters is the number of *)
(* threads in dim_wait_cond.                                               *)
THEOREM ThreadsTypeCorrect == Spec => []TypeOK
<1>1. Inv => TypeOK
  BY DEF Inv
<1> QED BY <1>1, ThreadsInvariance, PTL

(* After dim_signal_cond nobody sleeps in dim_wait before somebody has     *)
(* returned from it.                                                       *)
THEOREM SignalsAreHeard == Spec => []SignalHeard
<1>1. Inv => SignalHeard
  BY DEF Inv
<1> QED BY <1>1, ThreadsInvariance, PTL

(* Two threads or none, and never a second one of a kind.                  *)
THEOREM ThreadsStartOnce == Spec => []ThreadsUp
<1>1. Inv => ThreadsUp
  <2> SUFFICES ASSUME Inv PROVE ThreadsUp
    OBVIOUS
  <2>1. ASSUME ~Starting, ~Stopping
        PROVE  /\ sema = 0
               /\ IF initDone
                    THEN known = DimThreads /\ \A k \in DimThreads : thread[k] \notin {"none", "new", "dead"}
                    ELSE known = {} /\ \A k \in DimThreads : thread[k] = "none"
    BY <2>1, BusyIsPhase DEF Inv, TypeOK, QuietState, Runs
  <2>2. \A t \in Callers : pc[t] \in {"awaitAlrm", "startIo"} => thread["io"] = "none"
    BY DEF Inv, PhaseState
  <2> QED BY <2>1, <2>2 DEF ThreadsUp
<1> QED BY <1>1, ThreadsInvariance, PTL

-----------------------------------------------------------------------------
(* DIM's global lock, for any threads and any depth of nesting.            *)

USE DimLockAssumption

LEMMA LockInitInv == LockInit => LockInv
  BY DEF LockInit, LockInv, LockTypeOK, MutexOwned, HasMutex, LockerOwns, CounterIsDepth,
         OutsideNested

(* The parts of the invariant, step by step.                               *)
LEMMA TakeKeepsInv ==
  ASSUME LockInv, NEW t \in Threads, TakeLock(t) PROVE LockInv'
<1>1. LockTypeOK'
  BY DEF LockInv, LockTypeOK, TakeLock, MoveTo
<1>2. MutexOwned' /\ LockerOwns' /\ CounterIsDepth' /\ OutsideNested'
  BY DEF LockInv, LockTypeOK, MutexOwned, HasMutex, LockerOwns, CounterIsDepth,
         OutsideNested, TakeLock, MoveTo
<1> QED BY <1>1, <1>2 DEF LockInv

LEMMA GiveKeepsInv ==
  ASSUME LockInv, NEW t \in Threads, GiveLock(t) PROVE LockInv'
<1>1. mutex = t /\ thrCounter = depth[t]
  BY DEF LockInv, LockTypeOK, MutexOwned, HasMutex, CounterIsDepth, GiveLock
<1>2. LockTypeOK'
  BY <1>1 DEF LockInv, LockTypeOK, GiveLock, MoveTo
<1>3. MutexOwned' /\ LockerOwns' /\ CounterIsDepth' /\ OutsideNested'
  BY <1>1 DEF LockInv, LockTypeOK, MutexOwned, HasMutex, LockerOwns, CounterIsDepth,
              OutsideNested, GiveLock, MoveTo
<1> QED BY <1>2, <1>3 DEF LockInv

LEMMA StepKeepsInv ==
  ASSUME LockInv, NEW t \in Threads, Step(t) PROVE LockInv'
<1> USE DEF LockInv, LockTypeOK, MutexOwned, HasMutex, LockerOwns, CounterIsDepth,
            OutsideNested, MoveTo
<1>1. CASE Acquire(t)
  BY <1>1 DEF Acquire
<1>2. CASE Own(t)
  BY <1>2 DEF Own
<1>3. CASE Count(t)
  BY <1>3 DEF Count
<1>4. CASE Test(t)
  BY <1>4 DEF Test
<1>5. CASE Disown(t)
  BY <1>5 DEF Disown
<1>6. CASE Release(t)
  BY <1>6 DEF Release
<1> QED BY <1>1, <1>2, <1>3, <1>4, <1>5, <1>6 DEF Step

LEMMA StutterKeepsInv == ASSUME LockInv, UNCHANGED lockVars PROVE LockInv'
  BY DEF lockVars, LockInv, LockTypeOK, MutexOwned, HasMutex, LockerOwns, CounterIsDepth,
         OutsideNested

LEMMA LockNextKeepsInv == LockInv /\ [LockNext]_lockVars => LockInv'
  BY TakeKeepsInv, GiveKeepsInv, StepKeepsInv, StutterKeepsInv DEF LockNext

(* The owner of the mutex, the locker, the counter and the nesting of each *)
(* thread agree in every reachable state.                                  *)
THEOREM LockInvariance == LockSpec => []LockInv
  BY LockInitInv, LockNextKeepsInv, PTL DEF LockSpec

(* The only thread that can hold the lock is the one with the mutex.       *)
LEMMA InvExcludes == LockInv => MutualExclusion
  BY DEF LockInv, MutexOwned, HasMutex, MutualExclusion

(* No two threads hold DIM's lock.                                         *)
THEOREM LockExcludes == LockSpec => []MutualExclusion
  BY LockInvariance, InvExcludes, PTL

(* dim_lock takes and dim_unlock gives the abstract lock at the moment the *)
(* counter changes; all other steps are invisible.                         *)
LEMMA StepImplements ==
  ASSUME LockInv, NEW t \in Threads, TakeLock(t) \/ GiveLock(t) \/ Step(t)
  PROVE  [Abstract!Next]_depth
<1>1. CASE Count(t)
  <2>1. \A u \in Threads \ {t} : depth[u] = 0
    BY <1>1 DEF LockInv, LockTypeOK, MutexOwned, HasMutex, Count, MoveTo
  <2> QED BY <1>1, <2>1 DEF Count, Abstract!Next, Abstract!Take
<1>2. CASE GiveLock(t)
  BY <1>2 DEF GiveLock, Abstract!Next, Abstract!Give
<1>3. CASE TakeLock(t) \/ (Step(t) /\ ~Count(t))
  BY <1>3 DEF TakeLock, Step, Acquire, Own, Test, Disown, Release
<1> QED BY <1>1, <1>2, <1>3 DEF Step

LEMMA InitImplements == LockInit => Abstract!Init
  BY DEF LockInit, Abstract!Init

LEMMA NextImplements == LockInv /\ [LockNext]_lockVars => [Abstract!Next]_depth
  BY StepImplements DEF LockNext, lockVars

(* dim_lock and dim_unlock implement a recursive lock.                     *)
THEOREM LockImplemented == LockSpec => ImplementsLock
  BY LockInvariance, InitImplements, NextImplements, PTL
     DEF LockSpec, ImplementsLock, Abstract!Spec
=============================================================================
