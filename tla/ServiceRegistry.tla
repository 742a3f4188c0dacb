--------------------------- MODULE ServiceRegistry ---------------------------
(***************************************************************************)
(* The services of a server in DimWrapper.c: disAddService,                *)
(* disUpdateService and disRemoveService, which keep a service's data in a *)
(* buffer of their own and have DIM read them there, the array services    *)
(* they share without a lock, the end of serving and of the library, and   *)
(* the exit command a client may send.                                     *)
(*                                                                         *)
(* One thread of the application adds and removes services (LabVIEW        *)
(* serialises these calls), stops serving and unloads the library; others  *)
(* update services and may do so to the end.  Blocks of memory, and        *)
(* services in DIM, are numbered with the calls of disAddService that      *)
(* allocate or declare them: a block that is freed and allocated again is  *)
(* a different one.                                                        *)
(***************************************************************************)
EXTENDS Integers, FiniteSets

CONSTANTS
  Names,        (* of services                                             *)
  Updaters,     (* threads that call disUpdateService                      *)
  ExitCodes,    (* that a client or the name server may send               *)
  DIMDNSEXIT,   (* the code of DIM's error when the name server ends it    *)
  MAXSERVICES,  (* length of services; its element 0 is never used         *)
  MaxAdds       (* bounds the calls of disAddService                       *)

ASSUME ServiceRegistryAssumption ==
  /\ ExitCodes \subseteq Int /\ DIMDNSEXIT \in Int
  /\ MAXSERVICES \in Nat \ {0, 1}
  /\ MaxAdds \in Nat

VARIABLES
  services,            (* the array of services                            *)
  lastServiceCreated,  (* where the search for a free element begins       *)
  heap,                (* the blocks of memory allocated                   *)
  adds,                (* number of calls of disAddService                 *)
  dim,                 (* the services DIM has declared                    *)
  delayed, doomed,     (* those of them with delay_delete, because they    *)
                       (* are being updated, and with to_delete, because   *)
                       (* they are to go then                              *)
  serverActive, errorCode,
  owner,               (* the call that adds, removes or stops, and its    *)
                       (* service                                          *)
  closing,             (* where deinitMyLib is in its loop                 *)
  swept,               (* the services that dis_stop_serving has removed   *)
  up                   (* the calls of disUpdateService                    *)

vars == <<services, lastServiceCreated, heap, adds, dim, delayed, doomed,
          serverActive, errorCode, owner, closing, swept, up>>

Slots    == 0..(MAXSERVICES - 1)
Fresh    == [my_serviceID |-> -1, name |-> 0, buffer |-> 0, serviceId |-> 0]
NoUpdate == [pc |-> "idle", slot |-> 0, id |-> 0]

(* initMyLib blocks element 0 with an ID that is not its index.            *)
Init ==
  /\ services = [i \in Slots |->
       IF i = 0 THEN [Fresh EXCEPT !.my_serviceID = 1] ELSE Fresh]
  /\ lastServiceCreated = -1
  /\ heap = {} /\ adds = 0 /\ dim = {}
  /\ delayed = {} /\ doomed = {}
  /\ serverActive = TRUE /\ errorCode = 0
  /\ owner = [pc |-> "idle", slot |-> 0]
  /\ closing = -1 /\ swept = {}
  /\ up = [u \in Updaters |-> NoUpdate]

Valid(i)    == services[i].my_serviceID = i
Declared    == {d.id : d \in dim}
Idle        == owner.pc = "idle" /\ closing = -1
Goto(pc, i) == owner' = [pc |-> pc, slot |-> i]

-----------------------------------------------------------------------------
(* disAddService                                                           *)

(* The first free element after the one created last, or else the first    *)
(* free one.                                                               *)
FreeSlots == {i \in Slots : services[i].my_serviceID = -1}
Least(S)  == CHOOSE i \in S : \A j \in S : i <= j
NextUnchecked ==                               \* wrong: no search
  IF lastServiceCreated + 1 \in 1..(MAXSERVICES - 1)
  THEN lastServiceCreated + 1 ELSE 1
NextSlot  ==
  LET later == {i \in FreeSlots : i > lastServiceCreated}
  IN  IF later # {} THEN Least(later) ELSE Least(FreeSlots)

(* After an exit command, for too much data, or with no element free,      *)
(* nothing happens; the block may not be allocated either.                 *)
AddNoMemory ==
  /\ Idle /\ adds < MaxAdds
  /\ serverActive /\ FreeSlots # {}
  /\ adds' = adds + 1
  /\ lastServiceCreated' = NextSlot
  /\ UNCHANGED <<services, heap, dim, delayed, doomed, serverActive, errorCode, owner,
                 closing, swept, up>>

(* From here on the element is valid, and disUpdateService finds it.  The  *)
(* application gives each of its services a name of its own.               *)
AddService(name) ==
  /\ Idle /\ adds < MaxAdds
  /\ serverActive /\ FreeSlots # {}
  /\ \A i \in Slots : Valid(i) => services[i].name # name
  /\ adds' = adds + 1
  /\ heap' = heap \cup {adds'}
  /\ services' = [services EXCEPT ![NextSlot] =
       [my_serviceID |-> NextSlot, name |-> name, buffer |-> adds',
        serviceId |-> @.serviceId]]
  /\ lastServiceCreated' = NextSlot
  /\ Goto("declare", NextSlot)
  /\ UNCHANGED <<dim, delayed, doomed, serverActive, errorCode, closing, swept, up>>

(* dis_add_service returns 0 if DIM has a service of that name already.    *)
AddDeclare ==
  LET i     == owner.slot
      taken == \E d \in dim : d.name = services[i].name
      id    == IF taken THEN 0 ELSE adds
  IN  /\ owner.pc = "declare"
      /\ dim' = IF taken THEN dim ELSE dim \cup
           {[id |-> adds, name |-> services[i].name, buffer |-> services[i].buffer]}
      /\ services' = [services EXCEPT ![i].serviceId = id]
      /\ Goto("idle", 0)
      /\ UNCHANGED <<lastServiceCreated, heap, adds, delayed, doomed, serverActive,
                     errorCode, closing, swept, up>>

-----------------------------------------------------------------------------
(* disRemoveService                                                        *)

(* Wrong: leaves the element valid until the end.                          *)
RemoveBeginKeeps(i) ==
  /\ owner.pc = "idle"
  /\ Valid(i)
  /\ Goto("undeclare", i)
  /\ UNCHANGED <<services, lastServiceCreated, heap, adds, dim, delayed, doomed,
                 serverActive, errorCode, swept, up>>

(* Wrong: frees the buffer at the beginning.                               *)
RemoveBeginFrees(i) ==
  /\ owner.pc = "idle"
  /\ Valid(i)
  /\ services' = [services EXCEPT ![i].my_serviceID = -1]
  /\ heap' = heap \ {services[i].buffer}
  /\ Goto("undeclare", i)
  /\ UNCHANGED <<lastServiceCreated, adds, dim, delayed, doomed, serverActive,
                 errorCode, swept, up>>

RemoveBegin(i) ==
  /\ owner.pc = "idle"
  /\ Valid(i)
  /\ services' = [services EXCEPT ![i].my_serviceID = -1]
  /\ Goto("undeclare", i)
  /\ UNCHANGED <<lastServiceCreated, heap, adds, dim, delayed, doomed, serverActive,
                 errorCode, swept, up>>

RemoveService(i) == Idle /\ RemoveBegin(i) /\ UNCHANGED closing

(* After a wait that guarantees nothing, dis_remove_service, which does    *)
(* not know an ID of 0 and puts it off while the service is updated.       *)
RemoveUndeclare ==
  LET id == services[owner.slot].serviceId
  IN  /\ owner.pc = "undeclare"
      /\ IF id \in delayed
         THEN doomed' = doomed \cup {id} /\ UNCHANGED dim
         ELSE dim' = {d \in dim : d.id # id} /\ UNCHANGED doomed
      /\ Goto("free", owner.slot)
      /\ UNCHANGED <<services, lastServiceCreated, heap, adds, delayed,
                     serverActive, errorCode, closing, swept, up>>

(* Wrong: does not free the buffer.                                        *)
RemoveKeeps ==
  /\ owner.pc = "free"
  /\ services' = [services EXCEPT ![owner.slot].serviceId = 0]
  /\ lastServiceCreated' = owner.slot - 1
  /\ Goto("idle", 0)
  /\ UNCHANGED <<heap, adds, dim, delayed, doomed, serverActive, errorCode, closing, swept, up>>

RemoveFree ==
  /\ owner.pc = "free"
  /\ heap' = heap \ {services[owner.slot].buffer}
  /\ services' = [services EXCEPT ![owner.slot].serviceId = 0]
  /\ lastServiceCreated' = owner.slot - 1
  /\ Goto("idle", 0)
  /\ UNCHANGED <<adds, dim, delayed, doomed, serverActive, errorCode, closing, swept, up>>

-----------------------------------------------------------------------------
(* disUpdateService                                                        *)

UpdateGoto(u, from, update) ==
  /\ up[u].pc = from
  /\ up' = [up EXCEPT ![u] = update]
  /\ UNCHANGED <<services, lastServiceCreated, heap, adds, serverActive,
                 errorCode, owner, closing, swept>>

UpdateCheck(u, i) ==
  /\ UpdateGoto(u, "idle", [NoUpdate EXCEPT !.pc = "check", !.slot = i])
  /\ serverActive
  /\ Valid(i)
  /\ UNCHANGED <<dim, delayed, doomed>>

(* The data go to the buffer, where DIM may be reading them.               *)
UpdateCopy(u) ==
  /\ UpdateGoto(u, "check", [up[u] EXCEPT !.pc = "copied"])
  /\ Valid(up[u].slot)
  /\ UNCHANGED <<dim, delayed, doomed>>

UpdateNotify(u) ==
  /\ UpdateGoto(u, "copied", [up[u] EXCEPT !.pc = "notify",
                                           !.id = services[up[u].slot].serviceId])
  /\ Valid(up[u].slot)
  /\ UNCHANGED <<dim, delayed, doomed>>

(* Either time disUpdateService looks again, it may find the service gone. *)
UpdateGone(u) ==
  /\ ~Valid(up[u].slot)
  /\ \/ UpdateGoto(u, "check", NoUpdate)
     \/ UpdateGoto(u, "copied", NoUpdate)
  /\ UNCHANGED <<dim, delayed, doomed>>

(* dis_update_service: it reads the service's buffer for one client after  *)
(* another, if DIM knows the service.                                      *)
UpdateUnknown(u) ==
  /\ UpdateGoto(u, "notify", NoUpdate)
  /\ up[u].id \notin Declared
  /\ UNCHANGED <<dim, delayed, doomed>>

UpdateSend(u) ==
  /\ UpdateGoto(u, "notify", [up[u] EXCEPT !.pc = "sending"])
  /\ up[u].id \in Declared
  /\ delayed' = delayed \cup {up[u].id}
  /\ UNCHANGED <<dim, doomed>>

(* delay_delete does not count: the first update that ends is the last.    *)
UpdateEnd(u) ==
  /\ UpdateGoto(u, "sending", NoUpdate)
  /\ delayed' = delayed \ {up[u].id}
  /\ doomed' = doomed \ {up[u].id}
  /\ dim' = {d \in dim : d.id = up[u].id => d.id \notin doomed}

-----------------------------------------------------------------------------
(* disStopServing and deinitMyLib                                          *)

(* dis_stop_serving removes whatever DIM has; services keeps its elements. *)
StopServing ==
  /\ Idle /\ serverActive
  /\ Goto("stop", 0)
  /\ UNCHANGED <<services, lastServiceCreated, heap, adds, dim, delayed, doomed,
                 serverActive, errorCode, closing, swept, up>>

(* One service after the other, and those that are being updated again and *)
(* again until they are gone.                                              *)
StopRemove(d) ==
  /\ owner.pc = "stop" /\ d \in dim
  /\ swept' = swept \cup {d.id}
  /\ IF d.id \in delayed
       THEN doomed' = doomed \cup {d.id} /\ UNCHANGED dim
       ELSE dim' = dim \ {d} /\ UNCHANGED doomed
  /\ UNCHANGED <<services, lastServiceCreated, heap, adds, delayed, serverActive,
                 errorCode, owner, closing, up>>

StopEnd ==
  /\ owner.pc = "stop" /\ dim = {}
  /\ Goto("idle", 0)
  /\ UNCHANGED <<services, lastServiceCreated, heap, adds, dim, delayed, doomed,
                 serverActive, errorCode, closing, swept, up>>

(* The library is unloaded (DllMain, my_fini): deinitMyLib goes through    *)
(* the elements and removes the service with the ID it finds in each; the  *)
(* one in element 0 is that of the next.                                   *)
DeinitBegin ==
  /\ Idle
  /\ closing' = 0
  /\ UNCHANGED <<services, lastServiceCreated, heap, adds, dim, delayed, doomed,
                 serverActive, errorCode, owner, swept, up>>

DeinitNext ==
  /\ owner.pc = "idle" /\ closing \in Slots
  /\ closing' = closing + 1
  /\ LET id == services[closing].my_serviceID IN
       IF id # -1 /\ Valid(id)
         THEN RemoveBegin(id)
         ELSE UNCHANGED <<services, lastServiceCreated, heap, adds, dim, delayed, doomed,
                          serverActive, errorCode, owner, swept, up>>

DeinitStop ==
  /\ owner.pc = "idle" /\ closing = MAXSERVICES
  /\ closing' = closing + 1
  /\ Goto("stop", 0)
  /\ UNCHANGED <<services, lastServiceCreated, heap, adds, dim, delayed, doomed,
                 serverActive, errorCode, swept, up>>

-----------------------------------------------------------------------------
(* The end of the server, asked for from outside.                          *)

(* exit_user_routine                                                       *)
Exit(code) ==
  /\ serverActive' = FALSE
  /\ errorCode' = -code
  /\ UNCHANGED <<services, lastServiceCreated, heap, adds, dim, delayed, doomed, owner,
                 closing, swept, up>>

(* The command EXIT of a client, which exit_handler executes.              *)
ExitCommand(code) == Exit(code)

(* error_handler: an error that is fatal ends the server too, with the     *)
(* code that comes with it or, if that is -1, its own.                     *)
FatalError(error, code) == Exit(IF code = -1 THEN error ELSE code)

(* The name server asks for the end, with a code or without.               *)
NameServerExit(code) == FatalError(DIMDNSEXIT, code)

Next ==
  \/ AddNoMemory \/ AddDeclare
  \/ \E name \in Names : AddService(name)
  \/ \E i \in Slots : RemoveService(i)
  \/ RemoveUndeclare \/ RemoveFree
  \/ StopServing \/ (\E d \in dim : StopRemove(d)) \/ StopEnd
  \/ DeinitBegin \/ DeinitNext \/ DeinitStop
  \/ \E u \in Updaters :
       \/ \E i \in Slots : UpdateCheck(u, i)
       \/ UpdateCopy(u) \/ UpdateNotify(u)
       \/ UpdateGone(u) \/ UpdateUnknown(u) \/ UpdateSend(u) \/ UpdateEnd(u)
  \/ \E code \in ExitCodes : ExitCommand(code)
  \/ \E code \in ExitCodes \cup {-1} : NameServerExit(code)

Spec == Init /\ [][Next]_vars

-----------------------------------------------------------------------------
(* Properties.                                                             *)

Service == [id : 1..MaxAdds, name : Names, buffer : 1..MaxAdds]

TypeOK ==
  /\ services \in [Slots -> [my_serviceID : Slots \cup {-1}, name : Names \cup {0},
                             buffer : 0..MaxAdds, serviceId : 0..MaxAdds]]
  /\ lastServiceCreated \in Slots \cup {-1}
  /\ heap \subseteq 1..MaxAdds
  /\ adds \in 0..MaxAdds
  /\ dim \subseteq Service
  /\ delayed \subseteq Declared /\ doomed \subseteq delayed
  /\ serverActive \in BOOLEAN /\ errorCode \in Int
  /\ owner \in [pc : {"idle", "declare", "undeclare", "free", "stop"}, slot : Slots]
  /\ closing \in -1..(MAXSERVICES + 1) /\ swept \subseteq 1..MaxAdds
  /\ up \in [Updaters -> [pc : {"idle", "check", "copied", "notify", "sending"},
                          slot : Slots, id : 0..MaxAdds]]

(* The elements that have a service: the valid ones, and the one that the  *)
(* call under way adds or removes.                                         *)
Held(i) == Valid(i) \/ (owner.slot = i /\ owner.pc \notin {"idle", "stop"})

(* A valid element of services with a DIM service has that service and     *)
(* nobody else has: DIM knows it under its name and reads its buffer,      *)
(* until serving is stopped.                                               *)
SlotsDeclared ==
  \A i \in Slots : Valid(i) /\ services[i].serviceId \notin swept \cup {0} =>
    /\ [id |-> services[i].serviceId, name |-> services[i].name,
        buffer |-> services[i].buffer] \in dim
    /\ services[i].serviceId \notin doomed
    /\ \A j \in Slots \ {i} : services[j].serviceId # services[i].serviceId

(* Every service that DIM offers is one the application can still update   *)
(* and remove, or is removing, or goes when an update under way is over.   *)
ServicesOwned ==
  \A d \in dim :
    \/ \E i \in Slots : services[i].serviceId = d.id /\ (Valid(i) \/ owner.slot = i)
    \/ d.id \in doomed /\ \E u \in Updaters : up[u].pc = "sending" /\ up[u].id = d.id

(* No memory is lost, whatever fails on the way: the blocks allocated are  *)
(* the buffers of the services there are, and of the one being removed;    *)
(* once the library is unloaded nothing is left of either.                 *)
NoLeak ==
  /\ heap = {services[i].buffer : i \in {j \in Slots : Held(j)}}
  /\ closing = MAXSERVICES + 1 /\ owner.pc = "idle" => heap = {} /\ dim = {}

(* DIM has no service whose buffer is freed, but those whose removal an    *)
(* update has put off.                                                     *)
DeclaredHasBuffer == \A d \in dim : d.id \notin doomed => d.buffer \in heap

-----------------------------------------------------------------------------
(* What the proofs rest on.                                                *)

ElementZero ==
  /\ services[0].my_serviceID = 1 /\ services[0].serviceId = 0
  /\ \A i \in Slots \ {0} : services[i].my_serviceID \in {i, -1}

(* What a call under way has of its service.  The number of one that is    *)
(* being declared is new to DIM; DIM has let go of one whose buffer is     *)
(* about to be freed, or will.                                             *)
OwnerState ==
  LET s == services[owner.slot] IN
    /\ owner.pc \in {"idle", "stop"} <=> owner.slot = 0
    /\ owner.pc = "declare" =>
         /\ Valid(owner.slot) /\ s.name \in Names
         /\ s.serviceId = 0 /\ s.buffer = adds
         /\ adds \notin Declared \cup swept
    /\ owner.pc \in {"undeclare", "free"} => ~Valid(owner.slot)
    /\ owner.pc = "free" => s.serviceId \notin Declared \ doomed

(* Every element that has a service has a block of its own, the ID of the  *)
(* service is the number of the block, and without a service there is none.*)
OwnBlocks ==
  \A i \in Slots :
    /\ services[i].serviceId \in {0, services[i].buffer}
    /\ ~Held(i) => services[i].serviceId = 0
    /\ Held(i) =>
         /\ services[i].buffer \in 1..adds
         /\ \A j \in Slots \ {i} : Held(j) => services[j].buffer # services[i].buffer

Numbered ==
  /\ \A d \in dim : d.buffer = d.id /\ d.id <= adds
  /\ swept \subseteq 1..adds

DelayedSent ==
  \A id \in delayed : \E u \in Updaters : up[u].pc = "sending" /\ up[u].id = id

(* How far deinitMyLib has come.                                           *)
Closed ==
  /\ \A i \in Slots : i < closing => ~Valid(i)
  /\ closing = MAXSERVICES + 1 =>
       owner.pc = "stop" \/ (owner.pc = "idle" /\ dim = {})

(* The inductive invariant.                                                *)
Inv ==
  /\ TypeOK /\ ElementZero /\ OwnerState /\ OwnBlocks /\ Numbered
  /\ DelayedSent /\ Closed /\ SlotsDeclared /\ ServicesOwned /\ NoLeak
=============================================================================
