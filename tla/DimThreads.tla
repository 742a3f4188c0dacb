----------------------------- MODULE DimThreads -----------------------------
(***************************************************************************)
(* DIM's two threads on Unix (dim_thr.c): dim_init starts one for timers   *)
(* and one for the network and returns when both have reported with a      *)
(* semaphore; dim_stop cancels and joins them; dim_wait lets a thread of   *)
(* the application sleep until one of them has done something.             *)
(*                                                                         *)
(* DIM's lock is what DimLock shows it to be: one thread has it at a time. *)
(* A thread is cancelled where it waits for events or calls the system,    *)
(* but not while it waits for a mutex, and nothing gives back what it      *)
(* holds.                                                                  *)
(***************************************************************************)
EXTENDS Integers, FiniteSets

CONSTANTS
  Callers,     (* threads of the application                               *)
  MaxCount     (* bounds Global_cond_counter, above and below              *)

DimThreads == {"alrm", "io"}

ASSUME DimThreadsAssumption ==
  /\ Callers \cap (DimThreads \cup {"nobody", "gone"}) = {}
  /\ IsFiniteSet(Callers) /\ MaxCount \in Nat

VARIABLES
  initDone,    (* DIM_THR_init_done                                        *)
  sema,        (* DIM_INIT_Sema                                            *)
  known,       (* those of IO_thread and ALRM_thread that are set          *)
  thread,      (* what each of DIM's threads is at                         *)
  cancelled,   (* those asked to end                                       *)
  holder,      (* who has DIM's lock; "gone" if it ended with the lock     *)
  pc,          (* where each caller is in dim_init or dim_stop, or "run"   *)
  wait,        (* where each caller is in dim_wait                         *)
  counter,     (* Global_cond_counter                                      *)
  waiters,     (* Global_cond_waiters                                      *)
  fresh        (* since the last signal no call of dim_wait has returned   *)

condVars == <<wait, counter, waiters, fresh>>
lifeVars == <<initDone, sema, known, thread, cancelled, pc>>
vars == <<lifeVars, holder, condVars>>

Init ==
  /\ initDone = FALSE /\ sema = 0 /\ known = {} /\ cancelled = {}
  /\ thread = [k \in DimThreads |-> "none"]
  /\ holder = "nobody"
  /\ pc = [t \in Callers |-> "run"]
  /\ wait = [t \in Callers |-> "no"]
  /\ counter = 0 /\ waiters = 0 /\ fresh = FALSE

Starting == \E t \in Callers : pc[t] \in {"awaitAlrm", "startIo", "awaitIo"}
Stopping == \E t \in Callers : pc[t] \in {"joinIo", "joinAlrm", "stopped"}
Goto(t, from, to) == pc[t] = from /\ pc' = [pc EXCEPT ![t] = to]
Become(k, from, to) == thread[k] = from /\ thread' = [thread EXCEPT ![k] = to]
Free(t) == pc[t] = "run" /\ wait[t] = "no"

-----------------------------------------------------------------------------
(* dim_init.  Its first call is made by one thread; any later one returns  *)
(* at once, even if the first has not yet.                                 *)

InitStart(t) ==
  /\ Free(t) /\ ~initDone
  /\ initDone' = TRUE
  /\ sema' = 0
  /\ Goto(t, "run", "awaitAlrm")
  /\ Become("alrm", thread["alrm"], "new")
  /\ UNCHANGED <<known, cancelled, holder, condVars>>

Await(t, from, to) ==
  /\ Goto(t, from, to)
  /\ sema > 0 /\ sema' = sema - 1
  /\ UNCHANGED <<initDone, known, thread, cancelled, holder, condVars>>

InitStartIo(t) ==
  /\ Goto(t, "startIo", "awaitIo")
  /\ Become("io", thread["io"], "new")
  /\ UNCHANGED <<initDone, sema, known, cancelled, holder, condVars>>

InitStep(t) ==
  Await(t, "awaitAlrm", "startIo") \/ InitStartIo(t) \/ Await(t, "awaitIo", "run")

-----------------------------------------------------------------------------
(* dim_tcpip_thread and dim_dtq_thread                                     *)

Record(k) ==
  /\ Become(k, "new", "ready")
  /\ known' = known \cup {k}
  /\ UNCHANGED <<initDone, sema, cancelled, holder, pc, condVars>>

(* INIT_thread is set as long as somebody waits for the threads.           *)
Report(k) ==
  /\ Become(k, "ready", "idle")
  /\ sema' = IF Starting THEN sema + 1 ELSE sema
  /\ UNCHANGED <<initDone, known, cancelled, holder, pc, condVars>>

(* tcpip_task and dtq_task: wait for something to do, do it with the lock. *)
Event(k) ==
  /\ Become(k, "idle", "lock") /\ k \notin cancelled
  /\ UNCHANGED <<initDone, sema, known, cancelled, holder, pc, condVars>>

Lock(k) ==
  /\ Become(k, "lock", "work")
  /\ holder = "nobody" /\ holder' = k
  /\ UNCHANGED <<initDone, sema, known, cancelled, pc, condVars>>

Unlock(k) ==
  /\ Become(k, "work", "signal")
  /\ holder' = "nobody"
  /\ UNCHANGED <<initDone, sema, known, cancelled, pc, condVars>>

(* A thread that was cancelled ends where the system looks for that.       *)
End(k) ==
  /\ k \in cancelled
  /\ thread[k] \in {"idle", "work"}
  /\ thread' = [thread EXCEPT ![k] = "dead"]
  /\ holder' = IF holder = k THEN "gone" ELSE holder
  /\ UNCHANGED <<initDone, sema, known, cancelled, pc, condVars>>

(* Wrong: counts the signal but wakes nobody.                              *)
SignalSilently(k) ==
  /\ Become(k, "signal", "idle")
  /\ fresh' = TRUE
  /\ counter' = IF waiters = 0 \/ counter < 1 THEN 1 ELSE counter
  /\ UNCHANGED <<initDone, sema, known, cancelled, holder, pc, wait, waiters>>

(* dim_signal_cond                                                         *)
Signal(k) ==
  /\ Become(k, "signal", "idle")
  /\ fresh' = TRUE
  /\ IF waiters = 0
       THEN counter' = 1 /\ UNCHANGED wait
       ELSE /\ counter < MaxCount /\ counter' = counter + 1
            /\ wait' = [t \in Callers |-> IF wait[t] = "sleep" THEN "woken" ELSE wait[t]]
  /\ UNCHANGED <<initDone, sema, known, cancelled, holder, pc, waiters>>

ThreadStep(k) == Record(k) \/ Report(k) \/ Lock(k) \/ Unlock(k) \/ End(k) \/ Signal(k)

-----------------------------------------------------------------------------
(* dim_wait, that is dim_wait_cond, for a thread that is not one of DIM's. *)

(* With a signal in store it returns at once.                              *)
WaitBegin(t) ==
  /\ Free(t) /\ holder # t
  /\ IF counter = 0
       THEN /\ waiters' = waiters + 1
            /\ wait' = [wait EXCEPT ![t] = "sleep"]
            /\ UNCHANGED <<counter, fresh>>
       ELSE /\ counter > -MaxCount
            /\ counter' = IF waiters = 0 THEN counter - 1 ELSE counter
            /\ fresh' = FALSE
            /\ UNCHANGED <<wait, waiters>>
  /\ UNCHANGED <<lifeVars, holder>>

(* pthread_cond_wait may return without a signal.                          *)
WakeUnasked(t) ==
  /\ wait[t] = "sleep" /\ counter > -MaxCount
  /\ wait' = [wait EXCEPT ![t] = "woken"]
  /\ UNCHANGED <<lifeVars, holder, counter, waiters, fresh>>

(* Wrong: everyone takes a signal away.                                    *)
WaitEndEach(t) ==
  /\ wait[t] = "woken" /\ counter > -MaxCount
  /\ wait' = [wait EXCEPT ![t] = "no"]
  /\ waiters' = waiters - 1
  /\ counter' = counter - 1
  /\ fresh' = FALSE
  /\ UNCHANGED <<lifeVars, holder>>

(* The last of those that wait takes one signal away.                      *)
WaitEnd(t) ==
  /\ wait[t] = "woken"
  /\ wait' = [wait EXCEPT ![t] = "no"]
  /\ waiters' = waiters - 1
  /\ counter' = IF waiters = 1 THEN counter - 1 ELSE counter
  /\ fresh' = FALSE
  /\ UNCHANGED <<lifeVars, holder>>

-----------------------------------------------------------------------------
(* The application takes DIM's lock in whatever it calls.                  *)

AppLock(t) ==
  /\ Free(t)
  /\ holder = "nobody" /\ holder' = t
  /\ UNCHANGED <<lifeVars, condVars>>

AppUnlock(t) ==
  /\ pc[t] = "run" /\ holder = t
  /\ holder' = "nobody"
  /\ UNCHANGED <<lifeVars, condVars>>

-----------------------------------------------------------------------------
(* dim_stop, called by dis_stop_serving: not while the threads are being   *)
(* started, nor twice at a time.  The end of an update may call it with    *)
(* the lock.                                                               *)

(* Wrong: only the network's.                                              *)
StopBeginIo(t) ==
  /\ Free(t) /\ initDone /\ ~Starting /\ ~Stopping
  /\ cancelled' = known \ {"alrm"}
  /\ Goto(t, "run", "joinIo")
  /\ UNCHANGED <<initDone, sema, known, thread, holder, condVars>>

StopBegin(t) ==
  /\ Free(t) /\ initDone /\ ~Starting /\ ~Stopping
  /\ cancelled' = known
  /\ Goto(t, "run", "joinIo")
  /\ UNCHANGED <<initDone, sema, known, thread, holder, condVars>>

(* Wrong: does not wait for the end.                                       *)
JoinNot(t, k, from, to) ==
  /\ Goto(t, from, to)
  /\ thread' = IF thread[k] = "dead" THEN [thread EXCEPT ![k] = "none"] ELSE thread
  /\ UNCHANGED <<initDone, sema, known, cancelled, holder, condVars>>

Join(t, k, from, to) ==
  /\ Goto(t, from, to)
  /\ IF k \in known THEN Become(k, "dead", "none") ELSE UNCHANGED thread
  /\ UNCHANGED <<initDone, sema, known, cancelled, holder, condVars>>

StopEnd(t) ==
  /\ Goto(t, "stopped", "run")
  /\ known' = {} /\ cancelled' = {} /\ initDone' = FALSE
  /\ UNCHANGED <<sema, thread, holder, condVars>>

StopStep(t) ==
  Join(t, "io", "joinIo", "joinAlrm") \/ Join(t, "alrm", "joinAlrm", "stopped") \/ StopEnd(t)

-----------------------------------------------------------------------------
Next ==
  \/ \E k \in DimThreads : Event(k) \/ ThreadStep(k)
  \/ \E t \in Callers :
       \/ InitStart(t) \/ InitStep(t) \/ StopBegin(t) \/ StopStep(t)
       \/ WaitBegin(t) \/ WakeUnasked(t) \/ WaitEnd(t)
       \/ AppLock(t) \/ AppUnlock(t)

Spec == Init /\ [][Next]_vars

(* Threads run, callers give the lock back, and neither keeps taking it    *)
(* away from one of DIM's threads for ever.                                *)
FairSpec ==
  /\ Spec
  /\ \A k \in DimThreads : WF_vars(ThreadStep(k)) /\ SF_vars(Lock(k))
  /\ \A t \in Callers :
       WF_vars(InitStep(t)) /\ WF_vars(StopStep(t)) /\ WF_vars(WaitEnd(t)) /\ WF_vars(AppUnlock(t))

-----------------------------------------------------------------------------
(* Properties.                                                             *)

Waiting == {t \in Callers : wait[t] # "no"}

TypeOK ==
  /\ initDone \in BOOLEAN /\ sema \in Nat
  /\ known \subseteq DimThreads /\ cancelled \subseteq known
  /\ thread \in [DimThreads -> {"none", "new", "ready", "idle", "lock", "work", "signal", "dead"}]
  /\ holder \in Callers \cup DimThreads \cup {"nobody", "gone"}
  /\ pc \in [Callers -> {"run", "awaitAlrm", "startIo", "awaitIo", "joinIo", "joinAlrm", "stopped"}]
  /\ wait \in [Callers -> {"no", "sleep", "woken"}]
  /\ counter \in Int /\ waiters = Cardinality(Waiting)
  /\ fresh \in BOOLEAN

(* No signal is lost: after dim_signal_cond nobody sleeps in dim_wait, and *)
(* nobody begins to, before somebody has returned from it, whatever the    *)
(* order in which the waiters come and go and however often the system     *)
(* wakes them unasked.                                                     *)
SignalHeard == fresh => \A t \in Callers : wait[t] # "sleep"

(* Outside of the first dim_init and of dim_stop there are two threads,    *)
(* both known to dim_wait and dim_stop, or none; dim_init never starts a   *)
(* second one of a kind, nor leaves a report for the next dim_init.        *)
ThreadsUp ==
  /\ ~Starting /\ ~Stopping =>
       /\ sema = 0
       /\ IF initDone
            THEN known = DimThreads /\ \A k \in DimThreads : thread[k] \notin {"none", "new", "dead"}
            ELSE known = {} /\ \A k \in DimThreads : thread[k] = "none"
  /\ \A t \in Callers : pc[t] \in {"awaitAlrm", "startIo"} => thread["io"] = "none"

(* A caller of dim_wait returns, as long as DIM's threads do something.    *)
WaitReturns ==
  []<><<\E k \in DimThreads : Signal(k)>>_vars =>
    \A t \in Callers : wait[t] = "sleep" ~> wait[t] = "no"

(* dim_stop returns, unless its caller has the lock, for which one of      *)
(* DIM's threads may be waiting, or one of them ends while it has it.      *)
StopReturns ==
  \A t \in Callers :
    pc[t] = "joinIo" /\ holder # t ~> pc[t] = "run" \/ holder = "gone"

-----------------------------------------------------------------------------
(* What the proofs rest on.                                                *)

(* A signal that nobody has answered is in store; while somebody waits     *)
(* nobody takes one away.                                                  *)
CounterSays ==
  /\ fresh => counter >= 1
  /\ waiters # 0 => counter >= 0

(* One caller at a time starts or stops the threads, and only after        *)
(* DIM_THR_init_done is set.                                               *)
OneBusy ==
  \A t \in Callers :
    pc[t] # "run" => initDone /\ \A u \in Callers \ {t} : pc[u] = "run"

Runs(k) == k \in known /\ thread[k] \in {"idle", "lock", "work", "signal"}

(* A thread that its starter waits for: on its way, or ready and reported. *)
Rising(k) ==
  \/ thread[k] = "new" /\ k \notin known /\ sema = 0
  \/ thread[k] = "ready" /\ k \in known /\ sema = 0
  \/ Runs(k) /\ sema = 1

Falling(k) == k \in known /\ thread[k] \in {"idle", "lock", "work", "signal", "dead"}

(* The threads at each point of dim_init and dim_stop.                     *)
PhaseState ==
  \A t \in Callers :
    /\ pc[t] \in {"awaitAlrm", "startIo", "awaitIo"} => cancelled = {}
    /\ pc[t] = "awaitAlrm" => Rising("alrm") /\ thread["io"] = "none" /\ "io" \notin known
    /\ pc[t] = "startIo" =>
         Runs("alrm") /\ sema = 0 /\ thread["io"] = "none" /\ "io" \notin known
    /\ pc[t] = "awaitIo" => Runs("alrm") /\ Rising("io")
    /\ pc[t] \in {"joinIo", "joinAlrm", "stopped"} => sema = 0 /\ known = DimThreads
    /\ pc[t] = "joinIo" => Falling("io") /\ Falling("alrm")
    /\ pc[t] = "joinAlrm" => thread["io"] = "none" /\ Falling("alrm")
    /\ pc[t] = "stopped" => \A k \in DimThreads : thread[k] = "none"

(* And outside of both.                                                    *)
QuietState ==
  (\A t \in Callers : pc[t] = "run") =>
    /\ sema = 0 /\ cancelled = {}
    /\ IF initDone THEN \A k \in DimThreads : Runs(k)
                   ELSE known = {} /\ \A k \in DimThreads : thread[k] = "none"

(* The inductive invariant.                                                *)
Inv ==
  /\ TypeOK /\ SignalHeard /\ CounterSays
  /\ OneBusy /\ PhaseState /\ QuietState
=============================================================================
