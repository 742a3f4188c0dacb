---------------------------- MODULE EventDispatch ----------------------------
(***************************************************************************)
(* Registration, delivery and removal of callbacks in DimWrapper.c.  The   *)
(* application registers a service (dicInfoService) or a command           *)
(* (disAddCommand) in the array callBacks and in DIM; DIM calls receivedCB *)
(* with the index, the callback ID; receivedCB hands the data over through *)
(* the double buffer; dimWaitForData returns them with the LabVIEW         *)
(* reference that callBacks holds for the ID; removeMyService undoes the   *)
(* registration and frees the ID for the next one.                         *)
(*                                                                         *)
(* Three threads take part: the one of DIM that runs receivedCB, the one   *)
(* that calls dimWaitForData, and the one of the application that          *)
(* registers and removes.  DIM's global lock is held during a callback and *)
(* taken by the DIM calls that register and release; it is the condition   *)
(* LockFree.                                                               *)
(***************************************************************************)
EXTENDS DoubleBuffer, FiniteSets

CONSTANTS
  MAXSERVICES,  (* length of callBacks; its element 0 is never used        *)
  MaxRegs       (* bounds the registrations                                *)

ASSUME EventDispatchAssumption ==
  /\ MAXSERVICES \in Nat \ {0}
  /\ CallBackIDs = 1..(MAXSERVICES - 1)
  /\ MaxRegs \in Nat

VARIABLES
  callBacks,              (* the array of registered callbacks             *)
  lastCallBackRegistered, (* where the search for a free element begins    *)
  executingCallback,      (* ID of the callback being executed, or 0       *)
  ignoreCallbackID,       (* ID of the callback being removed, or -1       *)
  securityEnabled,        (* data from nodes not allowed are refused       *)
  subs,                   (* the callbacks DIM knows                       *)
  regs,                   (* number of registrations; the references that  *)
                          (* the application passes are numbered with it   *)
  entryPc, entry,         (* where receivedCB is, and what it is called for*)
  refOf,                  (* which registration each call's data came for  *)
  outRef,                 (* the reference dimWaitForData returns          *)
  appPc, appID            (* where the application is, and for which ID    *)

bufferVars   == vars
registryVars == <<callBacks, lastCallBackRegistered, subs, regs>>
entryVars    == <<entryPc, entry, refOf>>
appVars      == <<appPc, appID, ignoreCallbackID>>
dispatchVars == <<bufferVars, registryVars, entryVars, appVars,
                  executingCallback, securityEnabled, outRef>>

Slots == 0..(MAXSERVICES - 1)
Types == {1, 2}    \* callBackType: 1 command, 2 service

(* An element of callBacks that initMyLib and removeMyService have left.   *)
Fresh  == [callBackID |-> -1, refNum |-> 0, serviceId |-> 0, callBackType |-> 0]
Unused == [callBackID |-> -1, refNum |-> 0, serviceId |-> -1, callBackType |-> -1]

(* A callback as DIM knows it.  The service ID that DIM gives it is unique,*)
(* and so is its reference: one number stands for both.                    *)
Subscription == [id : CallBackIDs, ref : Nat \ {0}, type : Types]
NoEntry      == [id |-> 0, ref |-> 0, type |-> 1]

LockFree == entryPc = "out"

(* initMyLib blocks element 0 with an ID that is not its index.            *)
DispatchInit ==
  /\ Init
  /\ callBacks = [i \in Slots |->
       IF i = 0 THEN [Fresh EXCEPT !.callBackID = 1] ELSE Fresh]
  /\ lastCallBackRegistered = -1
  /\ executingCallback = 0
  /\ ignoreCallbackID = -1
  /\ securityEnabled = FALSE
  /\ subs = {} /\ regs = 0
  /\ entryPc = "out" /\ entry = NoEntry /\ refOf = << >>
  /\ outRef = 0
  /\ appPc = "idle" /\ appID = 0

-----------------------------------------------------------------------------
(* receivedCB up to the double buffer.                                     *)

EntryGoto(from, to) ==
  /\ entryPc = from
  /\ entryPc' = to
  /\ UNCHANGED <<bufferVars, registryVars, appVars, securityEnabled, outRef,
                 entry, refOf>>

(* DIM calls receivedCB for one of its callbacks.                          *)
EnterCallback(s) ==
  /\ s \in subs
  /\ LockFree
  /\ calls < MaxCalls
  /\ entryPc' = "checkID"
  /\ entry' = s
  /\ UNCHANGED <<bufferVars, registryVars, appVars, executingCallback,
                 securityEnabled, outRef, refOf>>

(* A call without data returns at once, ...                                *)
NoDataReceived ==
  /\ EntryGoto("checkID", "out")
  /\ UNCHANGED executingCallback

(* ... so does one for an ID that is not registered, ...                   *)
CheckID ==
  /\ EntryGoto("checkID", IF callBacks[entry.id].callBackID = entry.id
                          THEN "checkIgnore" ELSE "out")
  /\ UNCHANGED executingCallback

(* ... and so does one for an ID that is being removed.                    *)
IgnoredID ==
  /\ EntryGoto("checkIgnore", "out")
  /\ entry.id = ignoreCallbackID
  /\ UNCHANGED executingCallback

AcceptedID ==
  /\ EntryGoto("checkIgnore", "announce")
  /\ entry.id # ignoreCallbackID
  /\ UNCHANGED executingCallback

Announce ==
  /\ EntryGoto("announce", "security")
  /\ executingCallback' = entry.id

(* Wrong: refuses and leaves the flag up.                                  *)
RefuseQuietly ==
  /\ EntryGoto("security", "out")
  /\ securityEnabled
  /\ UNCHANGED executingCallback

(* Which nodes are allowed is the application's choice; with security      *)
(* enabled any sender may be refused.                                      *)
RefuseNode ==
  /\ EntryGoto("security", "out")
  /\ securityEnabled
  /\ executingCallback' = 0

(* The data go to the double buffer.                                       *)
StartHandOver(size) ==
  /\ entryPc = "security"
  /\ entryPc' = "body"
  /\ CBArrive(entry.id, size)
  /\ refOf' = Append(refOf, entry.ref)
  /\ UNCHANGED <<registryVars, appVars, executingCallback, securityEnabled,
                 outRef, entry>>

HandOver ==
  /\ entryPc = "body"
  /\ CBStep
  /\ cbPc' # "idle"
  /\ UNCHANGED <<registryVars, entryVars, appVars, executingCallback,
                 securityEnabled, outRef>>

LeaveCallback ==
  /\ entryPc = "body"
  /\ entryPc' = "out"
  /\ CBReturn
  /\ executingCallback' = 0
  /\ UNCHANGED <<registryVars, appVars, securityEnabled, outRef, entry, refOf>>

(* The steps of a callback under way.                                      *)
CallbackStep ==
  \/ NoDataReceived \/ CheckID \/ IgnoredID \/ AcceptedID \/ Announce \/ RefuseNode
  \/ \E size \in Sizes : StartHandOver(size)
  \/ HandOver
  \/ LeaveCallback

-----------------------------------------------------------------------------
(* dimWaitForData.  It returns, with the data, the reference registered    *)
(* for their callback ID at that time.                                     *)

StartWait ==
  /\ \E size \in CopySizes : WaitBegin(size)
  /\ outRef' = 0
  /\ UNCHANGED <<registryVars, entryVars, appVars, executingCallback,
                 securityEnabled>>

FetchReference ==
  /\ WaitCopyHigh
  /\ outRef' = callBacks[newDataFlag[waitIndex]].refNum
  /\ UNCHANGED <<registryVars, entryVars, appVars, executingCallback,
                 securityEnabled>>

ContinueWait ==
  /\ WaitStep
  /\ waitPc # "copyHigh"
  /\ UNCHANGED <<registryVars, entryVars, appVars, executingCallback,
                 securityEnabled, outRef>>

(* dimGetServiceInfo: the element of an ID that is registered.             *)
ServiceInfo(id) == {info \in {callBacks[id]} : info.callBackID = id}

-----------------------------------------------------------------------------
(* dicInfoService and disAddCommand.                                       *)

(* The first free element after the one registered last, or else the first *)
(* free one.                                                               *)
FreeSlots == {i \in Slots : callBacks[i].callBackID = -1}
Least(S)  == CHOOSE i \in S : \A j \in S : i <= j
NextUnchecked ==                              \* wrong: one short, unchecked
  IF lastCallBackRegistered \in CallBackIDs THEN lastCallBackRegistered ELSE 1
NextSlot  ==
  LET later == {i \in FreeSlots : i > lastCallBackRegistered}
  IN  IF later # {} THEN Least(later) ELSE Least(FreeSlots)

Register(type) ==
  /\ appPc = "idle"
  /\ regs < MaxRegs
  /\ FreeSlots # {}
  /\ callBacks' = [callBacks EXCEPT ![NextSlot] =
       [callBackID |-> NextSlot, refNum |-> regs + 1,
        serviceId |-> @.serviceId, callBackType |-> type]]
  /\ lastCallBackRegistered' = NextSlot
  /\ regs' = regs + 1
  /\ appID' = NextSlot
  /\ appPc' = "subscribe"
  /\ UNCHANGED <<bufferVars, entryVars, executingCallback, ignoreCallbackID,
                 securityEnabled, subs, outRef>>

(* dic_info_service or dis_add_cmnd: from here on DIM calls receivedCB.    *)
Subscribe ==
  /\ appPc = "subscribe"
  /\ LockFree
  /\ subs' = subs \cup {[id |-> appID, ref |-> callBacks[appID].refNum,
                         type |-> callBacks[appID].callBackType]}
  /\ appPc' = "store"
  /\ UNCHANGED <<bufferVars, entryVars, executingCallback, ignoreCallbackID,
                 securityEnabled, callBacks, lastCallBackRegistered, regs,
                 appID, outRef>>

(* The ID it returns is stored without the lock, when DIM may have called  *)
(* receivedCB already.                                                     *)
StoreServiceId ==
  /\ appPc = "store"
  /\ callBacks' = [callBacks EXCEPT ![appID].serviceId = callBacks[appID].refNum]
  /\ appPc' = "idle"
  /\ UNCHANGED <<bufferVars, entryVars, executingCallback, ignoreCallbackID,
                 securityEnabled, lastCallBackRegistered, subs, regs, appID,
                 outRef>>

-----------------------------------------------------------------------------
(* removeMyService.                                                        *)

AppGoto(from, to) ==
  /\ appPc = from
  /\ appPc' = to
  /\ UNCHANGED <<bufferVars, entryVars, executingCallback, securityEnabled,
                 regs, outRef>>

(* Wrong: gives up the reference before DIM has let go of the ID.          *)
RemoveBeginReset(id) ==
  /\ AppGoto("idle", "await")
  /\ callBacks[id].callBackID = id
  /\ callBacks' = [callBacks EXCEPT ![id].refNum = 0]
  /\ appID' = id
  /\ ignoreCallbackID' = id
  /\ UNCHANGED <<lastCallBackRegistered, subs>>

RemoveBegin(id) ==
  /\ AppGoto("idle", "await")
  /\ callBacks[id].callBackID = id
  /\ appID' = id
  /\ ignoreCallbackID' = id
  /\ UNCHANGED <<callBacks, lastCallBackRegistered, subs>>

(* After 100 us, which guarantee nothing, it polls executingCallback.      *)
RemoveAwait ==
  /\ AppGoto("await", "release")
  /\ executingCallback # appID
  /\ UNCHANGED <<callBacks, lastCallBackRegistered, subs, appID,
                 ignoreCallbackID>>

(* Wrong: releases services and forgets commands.                          *)
ReleaseServicesOnly ==
  /\ AppGoto("release", "reset")
  /\ LockFree
  /\ subs' = {s \in subs : ~ /\ s.ref = callBacks[appID].serviceId
                             /\ s.type = 2}
  /\ UNCHANGED <<callBacks, lastCallBackRegistered, appID, ignoreCallbackID>>

(* dic_release_service or dis_remove_service, by the type of callback.     *)
RemoveRelease ==
  /\ AppGoto("release", "reset")
  /\ LockFree
  /\ subs' = {s \in subs : ~ /\ s.ref = callBacks[appID].serviceId
                             /\ s.type = callBacks[appID].callBackType}
  /\ UNCHANGED <<callBacks, lastCallBackRegistered, appID, ignoreCallbackID>>

(* The ID is free again and will be the next one to be used.               *)
RemoveReset ==
  /\ AppGoto("reset", "end")
  /\ callBacks' = [callBacks EXCEPT ![appID] = Unused]
  /\ lastCallBackRegistered' = appID - 1
  /\ UNCHANGED <<subs, appID, ignoreCallbackID>>

RemoveEnd ==
  /\ AppGoto("end", "idle")
  /\ ignoreCallbackID' = -1
  /\ UNCHANGED <<callBacks, lastCallBackRegistered, subs, appID>>

(* dimEnableSecurity and dimDisableSecurity.                               *)
SetSecurity ==
  /\ appPc = "idle"
  /\ securityEnabled' = ~securityEnabled
  /\ UNCHANGED <<bufferVars, registryVars, entryVars, appVars,
                 executingCallback, outRef>>

-----------------------------------------------------------------------------
Remove == RemoveAwait \/ RemoveRelease \/ RemoveReset \/ RemoveEnd

DispatchNext ==
  \/ \E s \in subs : EnterCallback(s)
  \/ CallbackStep
  \/ StartWait \/ FetchReference \/ ContinueWait
  \/ \E type \in Types : Register(type)
  \/ Subscribe \/ StoreServiceId
  \/ \E id \in CallBackIDs : RemoveBegin(id)
  \/ Remove
  \/ SetSecurity

DispatchSpec == DispatchInit /\ [][DispatchNext]_dispatchVars

(* A callback under way goes on, since its own wait is bounded; so does    *)
(* a call of the application, which gets DIM's lock although callbacks     *)
(* take it again and again.  The application need not call dimWaitForData. *)
DispatchFairness ==
  /\ WF_dispatchVars(CallbackStep)
  /\ WF_dispatchVars(StoreServiceId \/ RemoveAwait \/ RemoveReset \/ RemoveEnd)
  /\ SF_dispatchVars(RemoveRelease)
  /\ SF_dispatchVars(Subscribe)

FairDispatch == DispatchSpec /\ DispatchFairness

-----------------------------------------------------------------------------
(* Properties.                                                             *)

DispatchTypeOK ==
  /\ TypeOK
  /\ callBacks \in [Slots -> [callBackID : Slots \cup {-1, 1}, refNum : Nat,
                              serviceId : Nat \cup {-1},
                              callBackType : Types \cup {-1, 0}]]
  /\ lastCallBackRegistered \in Slots \cup {-1}
  /\ executingCallback \in Slots
  /\ ignoreCallbackID \in CallBackIDs \cup {-1}
  /\ securityEnabled \in BOOLEAN
  /\ subs \in SUBSET Subscription
  /\ regs \in Nat
  /\ entryPc \in {"out", "checkID", "checkIgnore", "announce", "security", "body"}
  /\ entry \in Subscription \cup {NoEntry}
  /\ refOf \in Seq(Nat)
  /\ outRef \in Nat
  /\ appPc \in {"idle", "subscribe", "store", "await", "release", "reset", "end"}
  /\ appID \in Slots

(* The service IDs an element of callBacks may have for a callback of DIM: *)
(* none as long as its own is still to be stored.                          *)
ServiceIdOf(s) == IF appPc = "store" /\ appID = s.id THEN {0, -1} ELSE {s.ref}

(* What DIM knows and what callBacks says agree: DIM calls receivedCB only *)
(* for IDs that are registered, with the reference and type of that very   *)
(* registration, and its service ID, or none as long as that is still to   *)
(* be stored; and no two of its callbacks share an ID.                     *)
SubscriptionsRegistered ==
  \A s \in subs :
    /\ callBacks[s.id].callBackID = s.id
    /\ callBacks[s.id].refNum = s.ref
    /\ callBacks[s.id].serviceId \in ServiceIdOf(s)
    /\ callBacks[s.id].callBackType = s.type
    /\ \A t \in subs : t.id = s.id => t = s

(* An application that asks dimGetServiceInfo about an ID it has got data  *)
(* for hears what DIM has subscribed with it: never of the registration    *)
(* that had the ID before, but perhaps of no service ID yet.               *)
InfoRight ==
  \A s \in subs : \E info \in ServiceInfo(s.id) :
    /\ info.refNum = s.ref /\ info.callBackType = s.type
    /\ info.serviceId \in ServiceIdOf(s)

(* A removed ID leaves nothing behind in DIM: an element of callBacks that *)
(* is free, or taken by a registration still under way, is not one DIM     *)
(* would call receivedCB for.                                              *)
FreedIsForgotten ==
  \A i \in Slots :
    callBacks[i].callBackID = -1 \/ (appPc = "subscribe" /\ appID = i)
      => \A s \in subs : s.id # i

(* removeMyService waits for executingCallback: the flag is up only while  *)
(* a callback runs, with the ID of that callback, on every path through    *)
(* receivedCB.                                                             *)
ExecutingFlag ==
  executingCallback = IF entryPc \in {"security", "body"} THEN entry.id ELSE 0

(* Data are dispatched to the reference they were subscribed for.  The ID  *)
(* in the buffer is resolved only when the data are fetched; by then its   *)
(* registration may have been removed, and the ID reused, but then nobody  *)
(* is left whom the data were for.                                         *)
DispatchedToOwner ==
  ~out.timedOut =>
    \/ outRef = refOf[out.low.n]
    \/ \A s \in subs : s.ref # refOf[out.low.n]

(* What keeps these four true from step to step.  A callback under way is  *)
(* one of DIM's, because removal waits for DIM's lock; ...                 *)
CallbackHoldsLock ==
  /\ entryPc # "out" => entry \in subs
  /\ entryPc = "body" <=> cbPc # "idle"
  /\ entryPc = "body" =>
       /\ cbData.n = calls /\ calls > 0
       /\ cbData.id = entry.id
       /\ refOf[calls] = entry.ref

(* ... the element of callBacks that the application is working on is its  *)
(* own, and has no service ID before it is stored; ...                     *)
ApplicationHoldsSlot ==
  /\ callBacks[0].callBackID = 1
  /\ \A i \in Slots : callBacks[i].callBackID = -1 => callBacks[i].serviceId \in {0, -1}
  /\ appPc \in {"subscribe", "store", "await", "release", "reset"} =>
       /\ appID \in CallBackIDs
       /\ callBacks[appID].callBackID = appID
  /\ appPc = "subscribe" =>
       /\ callBacks[appID].refNum = regs
       /\ callBacks[appID].serviceId \in {0, -1}
       /\ callBacks[appID].callBackType \in Types
       /\ regs > 0
  /\ appPc = "reset" => \A s \in subs : s.id # appID

(* ... references are never given out twice; ...                           *)
Issued(r) == r <= regs /\ (appPc = "subscribe" => r < regs)

ReferencesUnique ==
  /\ \A s \in subs : Issued(s.ref)
  /\ \A s, t \in subs : s.ref = t.ref => s = t
  /\ Len(refOf) = calls
  /\ \A n \in 1..calls : Issued(refOf[n])

(* ... and the flag of a full buffer is the ID of the one who subscribed   *)
(* to its data, as long as there is one.                                   *)
BuffersAddressed ==
  /\ \A b \in Buffers : Full(b) =>
       /\ tempBuff[b].low.n \in 1..calls
       /\ \A s \in subs :
            s.ref = refOf[tempBuff[b].low.n] => s.id = newDataFlag[b]
  /\ ~out.timedOut => out.low.n \in 1..calls

DispatchInv ==
  /\ DispatchTypeOK
  /\ Inv
  /\ SubscriptionsRegistered
  /\ FreedIsForgotten
  /\ ExecutingFlag
  /\ DispatchedToOwner
  /\ CallbackHoldsLock
  /\ ApplicationHoldsSlot
  /\ ReferencesUnique
  /\ BuffersAddressed

(* DimWrapper.c says of callBacks: "Each registered LabVIEW event is       *)
(* identified by one element of this array."  Then data that came for one  *)
(* registration would never be returned with the reference of another.     *)
IDIdentifiesEvent ==
  ~out.timedOut => outRef \in {0, refOf[out.low.n]}

(* Registration and removal return, even if nobody fetches data: removal   *)
(* waits for the callback, which waits for the application, but gives up.  *)
ApplicationReturns == appPc # "idle" ~> appPc = "idle"
=============================================================================
