-------------------------- MODULE EventDispatchProofs --------------------------
(***************************************************************************)
(* Theorems of DoubleBuffer, for any callback IDs, sizes and number of     *)
(* calls, and of EventDispatch, which dispatches to the same callbacks,    *)
(* for any number of callbacks, registrations and calls.                   *)
(***************************************************************************)
EXTENDS EventDispatch, WellFoundedInduction, TLAPS

-----------------------------------------------------------------------------
(* The double buffer.                                                      *)

(* The values of the flag that are not callback IDs are told apart from    *)
(* them by their sign.                                                     *)
LEMMA FlagValues ==
  /\ CallBackIDs \subseteq Int
  /\ Inactive \notin CallBackIDs /\ Free \notin CallBackIDs
  /\ Filling \notin CallBackIDs
  /\ \A id \in CallBackIDs : id >= 0 /\ id # -1
  BY DoubleBufferAssumption DEF Inactive, Free, Filling

LEMMA NoDataIsNotData == NoData \notin Data
  BY DEF NoData, Data

LEMMA InitInv == Init => Inv
  <1> SUFFICES ASSUME Init PROVE Inv
    OBVIOUS
  <1>1. TypeOK
    BY DEF Init, TypeOK, Buffers, TimedOut
  <1>2. IndexesAgree
    BY FlagValues DEF Init, IndexesAgree, Full, WriteAt, ReadAt, Buffers
  <1>3. CallbackOwnsBuffer
    BY DEF Init, CallbackOwnsBuffer, CBCopying, Buffers, Inactive, Filling
  <1>4. FullIsWhole
    BY FlagValues DEF Init, FullIsWhole, Full, Buffers
  <1>5. WaitOwnsBuffer
    BY DEF Init, WaitOwnsBuffer, WaitTaking
  <1>6. ResultIntact
    BY DEF Init, ResultIntact, TimedOut
  <1> QED
    BY <1>1, <1>2, <1>3, <1>4, <1>5, <1>6 DEF Inv

(* One step per action of receivedCB.                                      *)
LEMMA CallbackKeepsInv ==
  ASSUME Inv,
         \/ \E id \in CallBackIDs, size \in Sizes : CBArrive(id, size)
         \/ CBStep
  PROVE  Inv'
  <1> USE FlagValues, DoubleBufferAssumption
      DEF Inv, TypeOK, IndexesAgree, CallbackOwnsBuffer, FullIsWhole,
          WaitOwnsBuffer, ResultIntact, Full, WriteAt, ReadAt, Other,
          CBCopying, WaitTaking, Buffers, CBGoto, waitVars
  <1>1. ASSUME NEW id \in CallBackIDs, NEW size \in Sizes, CBArrive(id, size)
        PROVE  Inv'
    <2>1. cbData' \in Data
      BY <1>1 DEF CBArrive, Data
    <2> QED
      BY <1>1, <2>1 DEF CBArrive
  <1>2. CASE CBBufferFree
    BY <1>2 DEF CBBufferFree, Free
  <1>3. CASE CBGiveUp
    BY <1>3 DEF CBGiveUp
  <1>4. CASE CBTooLarge
    BY <1>4 DEF CBTooLarge
  <1>5. CASE CBMark
    BY <1>5 DEF CBMark, Filling, Free
  <1>6. CASE CBCopyLow
    BY <1>6 DEF CBCopyLow, Data
  <1>7. CASE CBCopyHigh
    BY <1>7 DEF CBCopyHigh
  <1>8. CASE CBPublish
    BY <1>8 DEF CBPublish, Data
  <1>9. CASE CBSwitch
    BY <1>9 DEF CBSwitch
  <1>10. CASE CBFire
    BY <1>10 DEF CBFire
  <1>11. CASE CBReturn
    BY <1>11 DEF CBReturn
  <1> QED
    BY <1>1, <1>2, <1>3, <1>4, <1>5, <1>6, <1>7, <1>8, <1>9, <1>10, <1>11
    DEF CBStep

(* One step per action of dimWaitForData.                                  *)
LEMMA WaitKeepsInv ==
  ASSUME Inv,
         \/ \E size \in CopySizes : WaitBegin(size)
         \/ WaitStep
  PROVE  Inv'
  <1> USE FlagValues, DoubleBufferAssumption
      DEF Inv, TypeOK, IndexesAgree, CallbackOwnsBuffer, FullIsWhole,
          WaitOwnsBuffer, ResultIntact, Full, WriteAt, ReadAt, Other,
          CBCopying, WaitTaking, Buffers, WaitGoto, cbVars
  <1>1. ASSUME NEW size \in CopySizes, WaitBegin(size) PROVE Inv'
    BY <1>1 DEF WaitBegin, TimedOut, Inactive, Free, Filling
  <1>2. CASE WaitTimeout
    BY <1>2 DEF WaitTimeout
  <1>3. CASE WaitData
    BY <1>3 DEF WaitData, Inactive, Free, Filling
  <1>4. CASE WaitTooSmall
    BY <1>4 DEF WaitTooSmall, Inactive, Free, Filling
  <1>5. CASE WaitCopyLow
    BY <1>5 DEF WaitCopyLow
  <1>6. CASE WaitCopyHigh
    <2> USE <1>6 DEF WaitCopyHigh
    <2>1. /\ Full(waitIndex) /\ waitIndex \in Buffers
          /\ out.low = tempBuff[waitIndex].low
      OBVIOUS
    <2>2. /\ out'.low = out.low /\ out'.high = tempBuff[waitIndex].high
          /\ out'.callBackID = newDataFlag[waitIndex]
          /\ out'.recSize = tempBuffSize[waitIndex]
      OBVIOUS
    <2>3. ResultIntact'
      BY <2>1, <2>2
    <2>4. TypeOK'
      BY <2>1
    <2>5. IndexesAgree' /\ CallbackOwnsBuffer' /\ FullIsWhole'
      OBVIOUS
    <2>6. WaitOwnsBuffer'
      OBVIOUS
    <2> QED
      BY <2>3, <2>4, <2>5, <2>6
  <1>7. CASE WaitFree
    BY <1>7 DEF WaitFree, Free, Filling
  <1>8. CASE WaitSwitch
    BY <1>8 DEF WaitSwitch
  <1> QED
    BY <1>1, <1>2, <1>3, <1>4, <1>5, <1>6, <1>7, <1>8 DEF WaitStep

LEMMA StutterKeepsInv == Inv /\ UNCHANGED vars => Inv'
  BY DEF Inv, TypeOK, IndexesAgree, CallbackOwnsBuffer, FullIsWhole,
         WaitOwnsBuffer, ResultIntact, Full, WriteAt, ReadAt, Other,
         CBCopying, WaitTaking, vars, cbVars, waitVars

LEMMA NextKeepsInv == Inv /\ [Next]_vars => Inv'
  BY CallbackKeepsInv, WaitKeepsInv, StutterKeepsInv DEF Next

(* The inductive invariant of the protocol.                                *)
THEOREM Invariance == Spec => []Inv
  <1>1. Init => Inv
    BY InitInv
  <1>2. Inv /\ [Next]_vars => Inv'
    BY NextKeepsInv
  <1> QED
    BY <1>1, <1>2, PTL DEF Spec

(* Every variable keeps its type: in particular a flag is never anything   *)
(* but one of its three markers or the ID of a registered callback.        *)
THEOREM TypeCorrect == Spec => []TypeOK
  <1>1. Inv => TypeOK
    BY DEF Inv
  <1> QED
    BY Invariance, <1>1, PTL

(* receivedCB and dimWaitForData never copy to and from the same buffer.   *)
THEOREM CopiesAreExclusive == Spec => []NoSharedCopy
  <1>1. Inv => NoSharedCopy
    BY FlagValues DEF Inv, TypeOK, CallbackOwnsBuffer, WaitOwnsBuffer,
       NoSharedCopy, CBCopying, WaitTaking, Full
  <1> QED
    BY Invariance, <1>1, PTL

(* dimWaitForData returns one whole delivery with its own callback ID and  *)
(* size.                                                                   *)
THEOREM ResultsAreIntact == Spec => []ResultIntact
  <1>1. Inv => ResultIntact
    BY DEF Inv
  <1> QED
    BY Invariance, <1>1, PTL

-----------------------------------------------------------------------------
(* The double buffer implements the data channel: accepting an item is     *)
(* CBPublish, taking it is WaitFree, and every other step of receivedCB or *)
(* dimWaitForData begins or ends a call or cannot be seen.                 *)

LEMMA InitChannel == Init => Channel!Init
  BY FlagValues DEF Init, Channel!Init, Pending, Queue, Returned, CBCopying, Full,
     ReadAt, Buffers, TimedOut, Channel!Nothing

LEMMA CallbackStepsChannel ==
  ASSUME Inv, Inv',
         \/ \E id \in CallBackIDs, size \in Sizes : CBArrive(id, size)
         \/ CBStep
  PROVE  [Channel!Next]_Channel!vars
  <1> USE FlagValues DEF Inv, TypeOK, CallbackOwnsBuffer, Buffers, CBGoto,
      waitVars
  <1> DEFINE Unseen == UNCHANGED <<Queue, Returned>>
  <1>1. ASSUME UNCHANGED <<newDataFlag, tempBuff, waitVars>> PROVE Unseen
    BY <1>1 DEF Queue, Returned, Full, ReadAt
  <1>2. ASSUME NEW id \in CallBackIDs, NEW size \in Sizes, CBArrive(id, size)
        PROVE  Channel!Call
    <2>1. Unseen
      BY <1>1, <1>2 DEF CBArrive
    <2>2. Pending = NoData /\ Pending' = cbData'
      BY <1>2 DEF CBArrive, Pending, CBCopying
    <2>3. cbData' \in Data
      BY <1>2 DEF CBArrive
    <2> QED
      BY <2>1, <2>2, <2>3 DEF Channel!Call
  <1>3. ASSUME \/ CBBufferFree \/ CBSwitch \/ CBFire \/ CBReturn
        PROVE  UNCHANGED Channel!vars
    <2>1. Unseen
      BY <1>1, <1>3 DEF CBBufferFree, CBSwitch, CBFire, CBReturn
    <2>2. Pending' = Pending
      BY <1>3 DEF CBBufferFree, CBSwitch, CBFire, CBReturn, Pending, CBCopying
    <2> QED
      BY <2>1, <2>2 DEF Channel!vars
  <1>4. ASSUME CBGiveUp \/ CBTooLarge PROVE Channel!Drop
    <2>1. Unseen
      BY <1>1, <1>4 DEF CBGiveUp, CBTooLarge
    <2>2. Pending = cbData /\ Pending' = NoData /\ cbData \in Data
      BY <1>4 DEF CBGiveUp, CBTooLarge, Pending, CBCopying
    <2> QED
      BY <2>1, <2>2, NoDataIsNotData DEF Channel!Drop
  <1>5. ASSUME CBMark \/ CBCopyLow \/ CBCopyHigh
        PROVE  UNCHANGED Channel!vars
    <2>1. /\ Pending' = Pending
          /\ Returned' = Returned
          /\ ReadAt' = ReadAt
      BY <1>5 DEF CBMark, CBCopyLow, CBCopyHigh, Pending, CBCopying, Returned,
         ReadAt
    <2>2. ~Full(cbIndex) /\ ~Full(cbIndex)'
      BY <1>5 DEF CBMark, CBCopyLow, CBCopyHigh, Full, CBCopying
    <2>3. \A b \in Buffers \ {cbIndex} :
            /\ Full(b)' = Full(b)
            /\ tempBuff'[b] = tempBuff[b]
      BY <1>5 DEF CBMark, CBCopyLow, CBCopyHigh, Full
    <2>4. Queue' = Queue
      BY <1>5, <2>1, <2>2, <2>3 DEF Queue, ReadAt, Other, CBMark, CBCopyLow, CBCopyHigh
    <2> QED
      BY <2>1, <2>4 DEF Channel!vars
  <1>6. ASSUME CBPublish PROVE Channel!Accept
    <2> USE <1>6 DEF CBPublish
    <2>1. /\ Pending = cbData /\ Pending' = NoData /\ cbData # NoData
          /\ Returned' = Returned
          /\ ReadAt' = ReadAt
      BY NoDataIsNotData DEF Pending, CBCopying, Returned, ReadAt
    <2>2. /\ ~Full(cbIndex) /\ Full(cbIndex)'
          /\ tempBuff'[cbIndex].low = cbData
      BY DEF Full, CBCopying, Data
    <2>3. \A b \in Buffers \ {cbIndex} :
            /\ Full(b)' = Full(b)
            /\ tempBuff'[b] = tempBuff[b]
      BY DEF Full
    <2>4. WriteAt = cbIndex /\ ReadAt \in Buffers
      BY DEF WriteAt, ReadAt, Other
    <2>5. CASE ReadAt = cbIndex
      <3>1. ~Full(Other(cbIndex))
        BY <2>2, <2>4, <2>5 DEF IndexesAgree, Other
      <3>2. Queue = << >> /\ Queue' = <<cbData>>
        BY <2>1, <2>2, <2>3, <2>5, <3>1 DEF Queue, Other
      <3> QED
        BY <2>1, <3>2 DEF Channel!Accept, Channel!Capacity
    <2>6. CASE ReadAt # cbIndex
      <3>1. Full(ReadAt) /\ Other(ReadAt) = cbIndex /\ ReadAt # cbIndex
        BY <2>4, <2>6 DEF IndexesAgree, Other
      <3>2. /\ Queue = <<tempBuff[ReadAt].low>>
            /\ Queue' = <<tempBuff[ReadAt].low, cbData>>
        BY <2>1, <2>2, <2>3, <2>4, <3>1 DEF Queue, Other
      <3> QED
        BY <2>1, <3>2 DEF Channel!Accept, Channel!Capacity
    <2> QED
      BY <2>5, <2>6
  <1> QED
    BY <1>2, <1>3, <1>4, <1>5, <1>6 DEF CBStep, Channel!Next

LEMMA WaitStepsChannel ==
  ASSUME Inv, Inv',
         \/ \E size \in CopySizes : WaitBegin(size)
         \/ WaitStep
  PROVE  [Channel!Next]_Channel!vars
  <1> USE FlagValues DEF Inv, TypeOK, WaitOwnsBuffer, WaitTaking, Buffers,
      WaitGoto, cbVars
  <1>1. Pending' = Pending
    BY DEF Pending, CBCopying, WaitBegin, WaitStep, WaitTimeout, WaitData,
       WaitTooSmall, WaitCopyLow, WaitCopyHigh, WaitFree, WaitSwitch
  <1>2. ASSUME NEW size \in CopySizes, WaitBegin(size) PROVE Channel!Miss
    <2>1. \A b \in Buffers : Full(b)' = Full(b)
      BY <1>2 DEF WaitBegin, Full
    <2>2. ReadAt' = ReadAt /\ ReadAt \in Buffers /\ tempBuff' = tempBuff
      BY <1>2 DEF WaitBegin, ReadAt
    <2>3. Queue' = Queue
      BY <2>1, <2>2 DEF Queue, Other
    <2>4. Returned' = Channel!Nothing
      BY <1>2 DEF WaitBegin, Returned, Channel!Nothing
    <2> QED
      BY <1>1, <2>3, <2>4 DEF Channel!Miss
  <1>3. ASSUME \/ WaitTimeout \/ WaitData \/ WaitTooSmall
               \/ WaitCopyLow \/ WaitCopyHigh
        PROVE  UNCHANGED Channel!vars
    <2>1. Returned' = Returned
      BY <1>3 DEF WaitTimeout, WaitData, WaitTooSmall, WaitCopyLow,
         WaitCopyHigh, Returned
    <2>2. Queue' = Queue
      BY <1>3 DEF WaitTimeout, WaitData, WaitTooSmall, WaitCopyLow,
         WaitCopyHigh, Queue, Full, ReadAt
    <2> QED
      BY <1>1, <2>1, <2>2 DEF Channel!vars
  <1>4. ASSUME WaitSwitch PROVE UNCHANGED Channel!vars
    <2>1. ReadAt' = ReadAt
      BY <1>4 DEF WaitSwitch, ReadAt
    <2>2. Queue' = Queue /\ Returned' = Returned
      BY <1>4, <2>1 DEF WaitSwitch, Queue, Full, Returned
    <2> QED
      BY <1>1, <2>2 DEF Channel!vars
  <1>5. ASSUME WaitFree PROVE Channel!Take \/ Channel!Discard
    <2> USE <1>5 DEF WaitFree
    <2> DEFINE first == tempBuff[waitIndex].low
               second == tempBuff[Other(waitIndex)].low
    <2>1. /\ ReadAt = waitIndex /\ ReadAt' = Other(waitIndex)
          /\ waitIndex \in Buffers /\ Other(waitIndex) \in Buffers
          /\ Other(waitIndex) # waitIndex /\ Other(Other(waitIndex)) = waitIndex
      BY DEF ReadAt, Other
    <2>2. /\ Full(waitIndex) /\ ~Full(waitIndex)'
          /\ Full(Other(waitIndex))' = Full(Other(waitIndex))
          /\ tempBuff' = tempBuff
      BY <2>1 DEF Full
    <2>3. Queue # << >> /\ Head(Queue) = first /\ Queue' = Tail(Queue)
      <3>1. CASE Full(Other(waitIndex))
        <4>1. Queue = <<first, second>> /\ Queue' = <<second>>
          BY <2>1, <2>2, <3>1 DEF Queue, Other
        <4> QED
          BY <4>1
      <3>2. CASE ~Full(Other(waitIndex))
        <4>1. Queue = <<first>> /\ Queue' = << >>
          BY <2>1, <2>2, <3>2 DEF Queue, Other
        <4> QED
          BY <4>1
      <3> QED
        BY <3>1, <3>2
    <2>4. CASE out.timedOut
      <3>1. Returned' = Channel!Nothing
        BY <2>4 DEF Returned, Channel!Nothing
      <3> QED
        BY <1>1, <2>3, <3>1 DEF Channel!Discard
    <2>5. CASE ~out.timedOut
      <3>1. /\ out.low = first /\ out.high = first
            /\ out.callBackID = first.id /\ out.recSize = first.size
        BY <2>5 DEF ResultIntact
      <3>2. Returned' = Channel!Result(first)
        BY <2>5, <3>1 DEF Returned, Channel!Result
      <3> QED
        BY <1>1, <2>3, <3>2 DEF Channel!Take
    <2> QED
      BY <2>4, <2>5
  <1> QED
    BY <1>2, <1>3, <1>4, <1>5 DEF WaitStep, Channel!Next

(* receivedCB and dimWaitForData together are a first-in first-out channel *)
(* of two places that loses whole items only, and only where it says so.   *)
THEOREM Refinement == Spec => ImplementsChannel
  <1>1. Init => Channel!Init
    BY InitChannel
  <1>2. Inv /\ Inv' /\ [Next]_vars => [Channel!Next]_Channel!vars
    <2> SUFFICES ASSUME Inv, Inv', [Next]_vars
                 PROVE  [Channel!Next]_Channel!vars
      OBVIOUS
    <2>1. ASSUME UNCHANGED vars PROVE UNCHANGED Channel!vars
      BY <2>1 DEF vars, cbVars, waitVars, Channel!vars, Pending, Queue,
         Returned, CBCopying, Full, ReadAt
    <2> QED
      BY <2>1, CallbackStepsChannel, WaitStepsChannel DEF Next
  <1> QED
    BY <1>1, <1>2, Invariance, PTL DEF Spec, ImplementsChannel, Channel!Spec

-----------------------------------------------------------------------------
(* Registering and dispatching.                                            *)

(* A set of indexes that is not empty has a least element.                 *)
LEMMA LeastIsMember ==
  ASSUME NEW S, S \subseteq Nat, S # {}
  PROVE  Least(S) \in S
  <1>1. PICK i \in S : \A j \in S : ~(<<j, i>> \in OpToRel(<, Nat))
    BY NatLessThanWellFounded, WFMin, Zenon
  <1>2. \A j \in S : ~(j < i)
    BY <1>1, Zenon DEF OpToRel
  <1>3. \A j \in S : i <= j
    BY <1>2
  <1> QED
    BY <1>3 DEF Least

(* The element dicInfoService chooses is free, and not the blocked one.    *)
LEMMA NextSlotIsFree ==
  ASSUME DispatchTypeOK, ApplicationHoldsSlot, FreeSlots # {}
  PROVE  /\ NextSlot \in Slots /\ NextSlot \in CallBackIDs
         /\ callBacks[NextSlot].callBackID = -1
  <1>1. FreeSlots \subseteq Nat
    BY EventDispatchAssumption DEF FreeSlots, Slots
  <1> DEFINE later == {i \in FreeSlots : i > lastCallBackRegistered}
  <1>2. later # {} => Least(later) \in FreeSlots
    BY <1>1, LeastIsMember
  <1>3. Least(FreeSlots) \in FreeSlots
    BY <1>1, LeastIsMember
  <1>4. NextSlot \in FreeSlots
    BY <1>2, <1>3 DEF NextSlot
  <1> QED
    BY <1>4, EventDispatchAssumption DEF FreeSlots, Slots, ApplicationHoldsSlot

-----------------------------------------------------------------------------
(* Every step is one of the double buffer or leaves it alone.              *)
LEMMA DispatchStepsBuffer ==
  ASSUME DispatchTypeOK, CallbackHoldsLock, [DispatchNext]_dispatchVars
  PROVE  [Next]_vars
  <1> USE DEF bufferVars, Next
  <1>1. CASE UNCHANGED dispatchVars
    BY <1>1 DEF dispatchVars
  <1>2. CASE \E s \in subs : EnterCallback(s)
    BY <1>2 DEF EnterCallback
  <1>3. ASSUME NEW size \in Sizes, StartHandOver(size) PROVE Next
    <2>1. entry.id \in CallBackIDs
      BY <1>3 DEF StartHandOver, CallbackHoldsLock, DispatchTypeOK, Subscription
    <2> QED
      BY <1>3, <2>1 DEF StartHandOver
  <1>4. CASE CallbackStep
    BY <1>3, <1>4 DEF CallbackStep, EntryGoto, NoDataReceived, CheckID, IgnoredID,
       AcceptedID, Announce, RefuseNode, HandOver, LeaveCallback, CBStep
  <1>5. CASE StartWait \/ FetchReference \/ ContinueWait
    BY <1>5 DEF StartWait, FetchReference, ContinueWait, WaitStep
  <1>6. CASE \/ \E type \in Types : Register(type)
          \/ Subscribe \/ StoreServiceId \/ SetSecurity
    BY <1>6 DEF Register, Subscribe, StoreServiceId, SetSecurity
  <1>7. CASE (\E id \in CallBackIDs : RemoveBegin(id)) \/ Remove
    BY <1>7 DEF RemoveBegin, Remove, RemoveAwait, RemoveRelease, RemoveReset,
       RemoveEnd, AppGoto
  <1> QED
    BY <1>1, <1>2, <1>4, <1>5, <1>6, <1>7 DEF DispatchNext

LEMMA DispatchInitInv == DispatchInit => DispatchInv
  <1> SUFFICES ASSUME DispatchInit PROVE DispatchInv
    OBVIOUS
  <1>1. Inv
    BY InitInv DEF DispatchInit
  <1>2. callBacks \in [Slots -> [callBackID : Slots \cup {-1, 1}, refNum : Nat,
                                serviceId : Nat \cup {-1},
                                callBackType : Types \cup {-1, 0}]]
    BY DEF DispatchInit, Fresh
  <1>3. DispatchTypeOK
    <2>1. 0 \in Slots /\ << >> \in Seq(Nat)
      BY EventDispatchAssumption DEF Slots
    <2> QED
      BY <1>1, <1>2, <2>1 DEF DispatchInit, DispatchTypeOK, Inv
  <1>4. /\ callBacks[0].callBackID = 1
        /\ \A i \in Slots : callBacks[i].callBackID = -1 => callBacks[i].serviceId \in {0, -1}
    BY EventDispatchAssumption DEF DispatchInit, Slots, Fresh
  <1>5. ~Full(0) /\ ~Full(1) /\ out.timedOut /\ calls = 0 /\ cbPc = "idle"
    BY FlagValues DEF DispatchInit, Init, Full, Buffers, TimedOut
  <1> QED
    BY <1>1, <1>3, <1>4, <1>5
    DEF DispatchInit, DispatchInv, SubscriptionsRegistered, FreedIsForgotten,
        ExecutingFlag, DispatchedToOwner, CallbackHoldsLock,
        ApplicationHoldsSlot, ReferencesUnique, BuffersAddressed, Buffers

-----------------------------------------------------------------------------
(* What each part of the invariant depends on.                             *)

LEMMA RegistryKept ==
  ASSUME DispatchInv, UNCHANGED <<callBacks, subs, appPc, appID, regs>>
  PROVE  SubscriptionsRegistered' /\ FreedIsForgotten' /\ ApplicationHoldsSlot'
  BY DEF DispatchInv, SubscriptionsRegistered, ServiceIdOf, FreedIsForgotten,
     ApplicationHoldsSlot

LEMMA ReferencesKept ==
  ASSUME DispatchInv, UNCHANGED <<subs, regs, refOf, calls, appPc>>
  PROVE  ReferencesUnique'
  BY DEF DispatchInv, ReferencesUnique, Issued

(* Buffers may be emptied, and stay as they are otherwise.                 *)
LEMMA DataKept ==
  ASSUME DispatchInv, UNCHANGED <<subs, refOf, calls, out, outRef>>,
         \A b \in Buffers : Full(b)' =>
           /\ Full(b)
           /\ newDataFlag'[b] = newDataFlag[b]
           /\ tempBuff'[b] = tempBuff[b]
  PROVE  BuffersAddressed' /\ DispatchedToOwner'
  BY DEF DispatchInv, BuffersAddressed, DispatchedToOwner

LEMMA BuffersKept ==
  ASSUME UNCHANGED bufferVars
  PROVE  /\ UNCHANGED <<calls, out, cbPc, cbData>>
         /\ \A b \in Buffers : Full(b)' =>
              /\ Full(b)
              /\ newDataFlag'[b] = newDataFlag[b]
              /\ tempBuff'[b] = tempBuff[b]
  BY DEF bufferVars, vars, cbVars, waitVars, Full

LEMMA EntryKept ==
  ASSUME DispatchInv, subs \subseteq subs',
         UNCHANGED <<entryPc, entry, refOf, calls, cbPc, cbData,
                     executingCallback>>
  PROVE  CallbackHoldsLock' /\ ExecutingFlag'
  BY DEF DispatchInv, CallbackHoldsLock, ExecutingFlag

-----------------------------------------------------------------------------
(* One step per action of receivedCB.                                      *)
LEMMA EntryKeepsInv ==
  ASSUME DispatchInv, Inv', (\E s \in subs : EnterCallback(s)) \/ CallbackStep
  PROVE  DispatchInv'
  <1> USE DEF registryVars, appVars
  <1> DEFINE Entering == /\ DispatchTypeOK' /\ ExecutingFlag'
                         /\ CallbackHoldsLock'
  (* The steps before the hand-over, and the last one.                     *)
  <1>1. ASSUME UNCHANGED <<registryVars, appVars, refOf, outRef>>,
               UNCHANGED <<newDataFlag, tempBuff, calls, out>>,
               Entering
        PROVE  DispatchInv'
    <2>1. \A b \in Buffers : Full(b)' => Full(b)
      BY <1>1 DEF Full
    <2> QED
      BY <1>1, <2>1, RegistryKept, ReferencesKept, DataKept DEF DispatchInv
  <1>2. ASSUME UNCHANGED bufferVars
        PROVE  UNCHANGED <<newDataFlag, tempBuff, calls, out, cbPc, cbData>>
    BY <1>2 DEF bufferVars, vars, cbVars, waitVars
  <1>3. ASSUME NEW s \in subs, EnterCallback(s) PROVE DispatchInv'
    <2>1. Entering
      BY <1>2, <1>3 DEF EnterCallback, DispatchInv, DispatchTypeOK,
         ExecutingFlag, CallbackHoldsLock, LockFree, Inv
    <2> QED
      BY <1>1, <1>2, <1>3, <2>1 DEF EnterCallback
  <1>4. CASE NoDataReceived \/ CheckID \/ IgnoredID \/ AcceptedID
    <2>1. Entering
      BY <1>2, <1>4 DEF NoDataReceived, CheckID, IgnoredID, AcceptedID, EntryGoto,
         DispatchInv, DispatchTypeOK, ExecutingFlag, CallbackHoldsLock, Inv
    <2> QED
      BY <1>1, <1>2, <1>4, <2>1
      DEF NoDataReceived, CheckID, IgnoredID, AcceptedID, EntryGoto
  <1>5. CASE Announce
    <2>1. entry.id \in Slots /\ entry.id # 0
      BY <1>5, EventDispatchAssumption DEF Announce, EntryGoto, DispatchInv,
         DispatchTypeOK, CallbackHoldsLock, Subscription, Slots
    <2>2. Entering
      BY <1>2, <1>5, <2>1 DEF Announce, EntryGoto, DispatchInv, DispatchTypeOK,
         ExecutingFlag, CallbackHoldsLock, Inv
    <2> QED
      BY <1>1, <1>2, <1>5, <2>2 DEF Announce, EntryGoto
  <1>6. CASE RefuseNode
    <2>1. Entering
      BY <1>2, <1>6, EventDispatchAssumption
      DEF RefuseNode, EntryGoto, DispatchInv, DispatchTypeOK, ExecutingFlag,
          CallbackHoldsLock, Inv, Slots
    <2> QED
      BY <1>1, <1>2, <1>6, <2>1 DEF RefuseNode, EntryGoto
  <1>7. CASE LeaveCallback
    <2>1. /\ UNCHANGED <<newDataFlag, tempBuff, calls, out, cbData>>
          /\ cbPc' = "idle"
      BY <1>7 DEF LeaveCallback, CBReturn, CBGoto, waitVars
    <2>2. Entering
      BY <1>7, <2>1, EventDispatchAssumption
      DEF LeaveCallback, DispatchInv, DispatchTypeOK, ExecutingFlag,
          CallbackHoldsLock, Inv, Slots
    <2> QED
      BY <1>1, <1>7, <2>1, <2>2 DEF LeaveCallback
  (* The hand-over to the double buffer.                                   *)
  <1>8. ASSUME NEW size \in Sizes, StartHandOver(size) PROVE DispatchInv'
    <2>1. /\ UNCHANGED <<registryVars, appVars, executingCallback, outRef,
                          securityEnabled, entry, newDataFlag, tempBuff, out>>
          /\ entryPc = "security" /\ entryPc' = "body" /\ cbPc' # "idle"
          /\ calls' = calls + 1 /\ cbData'.n = calls' /\ cbData'.id = entry.id
          /\ refOf' = Append(refOf, entry.ref)
      BY <1>8 DEF StartHandOver, CBArrive, CBGoto, waitVars
    <2>2. /\ entry \in subs /\ entry.ref \in Nat
          /\ refOf \in Seq(Nat) /\ Len(refOf) = calls /\ calls \in Nat
          /\ Issued(entry.ref)
      BY <2>1 DEF DispatchInv, DispatchTypeOK, CallbackHoldsLock, Inv, TypeOK,
         ReferencesUnique, Subscription
    <2>3. /\ Len(refOf') = calls'
          /\ refOf' \in Seq(Nat)
          /\ refOf'[calls'] = entry.ref
          /\ \A n \in 1..calls : refOf'[n] = refOf[n] /\ n \in 1..calls'
          /\ \A n \in 1..calls' : n \in 1..calls \/ n = calls'
      BY <2>1, <2>2
    <2>4. DispatchTypeOK' /\ ExecutingFlag'
      BY <2>1, <2>3 DEF DispatchInv, DispatchTypeOK, ExecutingFlag, Inv
    <2>5. CallbackHoldsLock'
      BY <2>1, <2>2, <2>3 DEF CallbackHoldsLock
    <2>6. ReferencesUnique'
      BY <2>1, <2>2, <2>3 DEF DispatchInv, ReferencesUnique, Issued
    <2>7. BuffersAddressed' /\ DispatchedToOwner'
      BY <2>1, <2>3 DEF DispatchInv, BuffersAddressed, DispatchedToOwner, Full
    <2> QED
      BY <2>1, <2>4, <2>5, <2>6, <2>7, RegistryKept DEF DispatchInv
  <1>9. CASE HandOver
    <2>1. UNCHANGED <<registryVars, appVars, executingCallback, outRef,
                      securityEnabled, entryPc, entry, refOf>>
      BY <1>9 DEF HandOver, entryVars
    <2>2. UNCHANGED <<calls, cbData, out>> /\ cbPc # "idle" /\ cbPc' # "idle"
      BY <1>9 DEF HandOver, CBStep, CBBufferFree, CBGiveUp, CBTooLarge, CBMark,
         CBCopyLow, CBCopyHigh, CBPublish, CBSwitch, CBFire, CBReturn, CBGoto,
         waitVars
    <2>3. Entering
      BY <2>1, <2>2 DEF DispatchInv, DispatchTypeOK, ExecutingFlag,
         CallbackHoldsLock, Inv
    <2>4. BuffersAddressed' /\ DispatchedToOwner'
      <3>1. CASE UNCHANGED <<newDataFlag, tempBuff>>
        BY <2>1, <2>2, <3>1, DataKept DEF Full
      <3>2. CASE CBMark \/ CBCopyLow \/ CBCopyHigh
        <4>1. /\ cbIndex \in Buffers /\ newDataFlag'[cbIndex] \notin CallBackIDs
              /\ \A b \in Buffers \ {cbIndex} :
                   /\ newDataFlag'[b] = newDataFlag[b]
                   /\ tempBuff'[b] = tempBuff[b]
          BY <3>2, FlagValues DEF CBMark, CBCopyLow, CBCopyHigh, CBGoto,
             CallbackOwnsBuffer, CBCopying, DispatchInv, Inv, TypeOK
        <4>2. \A b \in Buffers : Full(b)' =>
                /\ Full(b)
                /\ newDataFlag'[b] = newDataFlag[b]
                /\ tempBuff'[b] = tempBuff[b]
          BY <4>1 DEF Full
        <4> QED
          BY <2>1, <2>2, <4>2, DataKept
      <3>3. CASE CBPublish
        <4>1. /\ cbIndex \in Buffers /\ tempBuff' = tempBuff
              /\ newDataFlag'[cbIndex] = cbData.id
              /\ \A b \in Buffers \ {cbIndex} :
                   newDataFlag'[b] = newDataFlag[b]
          BY <3>3 DEF CBPublish, DispatchInv, Inv, TypeOK
        <4>2. tempBuff[cbIndex].low = cbData
          BY <3>3 DEF CBPublish, CBGoto, DispatchInv, Inv, CallbackOwnsBuffer
        <4>3. /\ cbData.n = calls /\ calls \in 1..calls
              /\ refOf[calls] = entry.ref /\ cbData.id = entry.id
              /\ entry \in subs
          BY <2>2 DEF DispatchInv, CallbackHoldsLock, Inv, TypeOK
        <4>4. \A s \in subs : s.ref = refOf[calls] => s.id = cbData.id
          BY <4>3 DEF DispatchInv, ReferencesUnique
        <4>5. BuffersAddressed'
          BY <2>1, <2>2, <4>1, <4>2, <4>3, <4>4
          DEF DispatchInv, BuffersAddressed, Full
        <4> QED
          BY <2>1, <2>2, <4>5 DEF DispatchInv, DispatchedToOwner
      <3> QED
        BY <1>9, <3>1, <3>2, <3>3 DEF HandOver, CBStep, CBBufferFree, CBGiveUp,
           CBTooLarge, CBSwitch, CBFire, CBReturn
    <2> QED
      BY <2>1, <2>2, <2>3, <2>4, RegistryKept, ReferencesKept DEF DispatchInv
  <1> QED
    BY <1>3, <1>4, <1>5, <1>6, <1>7, <1>8, <1>9 DEF CallbackStep

(* One step per action of dimWaitForData.                                  *)
LEMMA FetchKeepsInv ==
  ASSUME DispatchInv, Inv', StartWait \/ FetchReference \/ ContinueWait
  PROVE  DispatchInv'
  <1>1. /\ UNCHANGED <<registryVars, entryVars, appVars, executingCallback,
                        securityEnabled>>
        /\ UNCHANGED <<cbPc, cbData, calls, tempBuff>>
    BY DEF StartWait, FetchReference, ContinueWait, WaitBegin, WaitStep,
       WaitTimeout, WaitData, WaitTooSmall, WaitCopyLow, WaitCopyHigh,
       WaitFree, WaitSwitch, cbVars
  <1>2. /\ SubscriptionsRegistered' /\ FreedIsForgotten'
        /\ ApplicationHoldsSlot' /\ ReferencesUnique'
        /\ CallbackHoldsLock' /\ ExecutingFlag'
    BY <1>1, RegistryKept, ReferencesKept, EntryKept
    DEF registryVars, entryVars, appVars
  <1>3. ASSUME outRef' \in Nat PROVE DispatchTypeOK'
    BY <1>1, <1>3 DEF DispatchInv, DispatchTypeOK, Inv, registryVars,
       entryVars, appVars
  <1>4. outRef \in Nat
    BY DEF DispatchInv, DispatchTypeOK
  <1>5. CASE StartWait
    <2>1. \A b \in Buffers : Full(b)' =>
            Full(b) /\ newDataFlag'[b] = newDataFlag[b]
      BY <1>5, FlagValues
      DEF StartWait, WaitBegin, Full, DispatchInv, Inv, TypeOK
    <2>2. out'.timedOut /\ outRef' = 0
      BY <1>5 DEF StartWait, WaitBegin, TimedOut
    <2>3. BuffersAddressed' /\ DispatchedToOwner'
      BY <1>1, <2>1, <2>2
      DEF DispatchInv, BuffersAddressed, DispatchedToOwner, registryVars,
          entryVars
    <2> QED
      BY <1>2, <1>3, <2>2, <2>3 DEF DispatchInv
  <1>6. CASE FetchReference
    <2> DEFINE id == newDataFlag[waitIndex]
               n == tempBuff[waitIndex].low.n
    <2>1. /\ waitIndex \in Buffers /\ Full(waitIndex)
          /\ out.low = tempBuff[waitIndex].low
      BY <1>6 DEF FetchReference, WaitCopyHigh, WaitGoto, DispatchInv, Inv,
         TypeOK, WaitOwnsBuffer, WaitTaking
    <2>2. /\ n \in 1..calls
          /\ \A s \in subs : s.ref = refOf[n] => s.id = id
      BY <2>1 DEF DispatchInv, BuffersAddressed
    <2>3. /\ out'.low = out.low /\ outRef' = callBacks[id].refNum
          /\ newDataFlag' = newDataFlag
      BY <1>6 DEF FetchReference, WaitCopyHigh
    <2>4. callBacks[id].refNum \in Nat
      BY <2>1, EventDispatchAssumption
      DEF Full, Slots, DispatchInv, DispatchTypeOK
    <2>5. DispatchedToOwner'
      BY <1>1, <2>1, <2>2, <2>3 DEF DispatchInv, SubscriptionsRegistered,
         DispatchedToOwner, registryVars, entryVars
    <2>6. BuffersAddressed'
      BY <1>1, <2>1, <2>2, <2>3 DEF DispatchInv, BuffersAddressed, Full,
         registryVars, entryVars
    <2> QED
      BY <1>2, <1>3, <2>3, <2>4, <2>5, <2>6 DEF DispatchInv
  <1>7. CASE ContinueWait
    <2>1. outRef' = outRef
      BY <1>7 DEF ContinueWait
    <2>2. \A b \in Buffers : Full(b)' =>
            Full(b) /\ newDataFlag'[b] = newDataFlag[b]
      <3>1. CASE WaitFree
        BY <3>1, FlagValues DEF WaitFree, Full, DispatchInv, Inv, TypeOK
      <3> QED
        BY <1>7, <3>1 DEF ContinueWait, WaitStep, WaitTimeout, WaitData,
           WaitTooSmall, WaitCopyLow, WaitCopyHigh, WaitSwitch, Full
    <2>3. CASE WaitCopyLow
      <3>1. out'.timedOut
        BY <2>3 DEF WaitCopyLow, WaitGoto, DispatchInv, Inv, WaitOwnsBuffer,
           TypeOK
      <3>2. BuffersAddressed' /\ DispatchedToOwner'
        BY <1>1, <2>2, <3>1 DEF DispatchInv, BuffersAddressed,
           DispatchedToOwner, registryVars, entryVars
      <3> QED
        BY <1>2, <1>3, <1>4, <2>1, <3>2 DEF DispatchInv
    <2>4. CASE UNCHANGED out
      BY <1>1, <1>2, <1>3, <1>4, <2>1, <2>2, <2>4, DataKept
      DEF DispatchInv, registryVars, entryVars
    <2> QED
      BY <1>7, <2>3, <2>4 DEF ContinueWait, WaitStep, WaitTimeout, WaitData,
         WaitTooSmall, WaitCopyHigh, WaitFree, WaitSwitch, WaitGoto
  <1> QED
    BY <1>5, <1>6, <1>7

(* One step per action of the application: dicInfoService, disAddCommand   *)
(* and the security calls ...                                              *)
LEMMA RegistrationKeepsInv ==
  ASSUME DispatchInv, Inv',
         \/ \E type \in Types : Register(type)
         \/ Subscribe \/ StoreServiceId \/ SetSecurity
  PROVE  DispatchInv'
  <1> USE DEF entryVars
  <1>1. ASSUME NEW type \in Types, Register(type) PROVE DispatchInv'
    <2> DEFINE i == NextSlot
    <2>1. /\ i \in Slots /\ i \in CallBackIDs /\ callBacks[i].callBackID = -1
          /\ callBacks[i].serviceId \in {0, -1}
      BY <1>1, NextSlotIsFree DEF Register, DispatchInv, ApplicationHoldsSlot
    <2>2. /\ callBacks' = [callBacks EXCEPT ![i] =
               [callBackID |-> i, refNum |-> regs + 1,
                serviceId |-> callBacks[i].serviceId, callBackType |-> type]]
          /\ UNCHANGED <<bufferVars, entryVars, executingCallback, subs, outRef,
                          ignoreCallbackID, securityEnabled>>
          /\ regs' = regs + 1 /\ appPc = "idle" /\ appPc' = "subscribe"
          /\ appID' = i /\ lastCallBackRegistered' = i
      BY <1>1 DEF Register
    <2> HIDE DEF i
    <2>3. /\ callBacks'[i] =
               [callBackID |-> i, refNum |-> regs + 1,
                serviceId |-> callBacks[i].serviceId, callBackType |-> type]
          /\ \A j \in Slots \ {i} : callBacks'[j] = callBacks[j]
          /\ regs \in Nat
      BY <2>1, <2>2 DEF DispatchInv, DispatchTypeOK
    <2>4. \A s \in subs : s.id \in Slots /\ s.id # i
      BY <2>1, EventDispatchAssumption DEF DispatchInv, DispatchTypeOK,
         SubscriptionsRegistered, Subscription, Slots
    <2>5. DispatchTypeOK'
      BY <2>1, <2>2, <2>3 DEF DispatchInv, DispatchTypeOK, Inv
    <2>6. SubscriptionsRegistered' /\ FreedIsForgotten'
      BY <2>2, <2>3, <2>4 DEF DispatchInv, SubscriptionsRegistered,
         ServiceIdOf, FreedIsForgotten
    <2>7. ApplicationHoldsSlot'
      BY <2>1, <2>2, <2>3, EventDispatchAssumption
      DEF DispatchInv, ApplicationHoldsSlot, Slots
    <2>8. ReferencesUnique'
      BY <2>2, <2>3, BuffersKept DEF DispatchInv, DispatchTypeOK,
         ReferencesUnique, Issued, Subscription
    <2> QED
      BY <2>2, <2>5, <2>6, <2>7, <2>8, BuffersKept, DataKept, EntryKept
      DEF DispatchInv
  <1>2. CASE Subscribe
    <2> DEFINE new == [id |-> appID, ref |-> regs,
                       type |-> callBacks[appID].callBackType]
    <2>1. /\ appID \in CallBackIDs /\ appID \in Slots /\ appID # 0
          /\ callBacks[appID].callBackID = appID
          /\ callBacks[appID].refNum = regs
          /\ callBacks[appID].serviceId \in {0, -1}
          /\ callBacks[appID].callBackType \in Types
          /\ regs \in Nat \ {0}
      BY <1>2, EventDispatchAssumption DEF Subscribe, Slots, DispatchInv,
         DispatchTypeOK, ApplicationHoldsSlot
    <2>2. /\ subs' = subs \cup {new}
          /\ appPc = "subscribe" /\ appPc' = "store"
          /\ UNCHANGED <<bufferVars, entryVars, executingCallback, outRef,
                          ignoreCallbackID, securityEnabled, callBacks, regs,
                          appID, lastCallBackRegistered>>
      BY <1>2, <2>1 DEF Subscribe
    <2>4. /\ \A s \in subs : s.id \in Slots /\ s.id # appID
          /\ \A s \in subs : s.ref \in Nat /\ s.ref < regs
          /\ \A n \in 1..calls : refOf[n] # regs
      BY <2>1, <2>2, EventDispatchAssumption
      DEF DispatchInv, DispatchTypeOK, FreedIsForgotten, ReferencesUnique,
          Issued, Subscription, Slots
    <2>5. DispatchTypeOK'
      BY <2>1, <2>2 DEF DispatchInv, DispatchTypeOK, Inv, Subscription
    <2>6. SubscriptionsRegistered' /\ FreedIsForgotten'
      <3>1. appID # -1
        BY <2>1, EventDispatchAssumption
      <3>2. SubscriptionsRegistered'
        BY <2>1, <2>2, <2>4 DEF DispatchInv, SubscriptionsRegistered, ServiceIdOf
      <3> QED
        BY <2>1, <2>2, <3>1, <3>2 DEF DispatchInv, FreedIsForgotten
    <2>7. ApplicationHoldsSlot'
      BY <2>1, <2>2 DEF DispatchInv, ApplicationHoldsSlot
    <2>8. ReferencesUnique'
      BY <2>1, <2>2, <2>4, BuffersKept DEF DispatchInv, ReferencesUnique, Issued
    <2>9. BuffersAddressed' /\ DispatchedToOwner'
      BY <2>2, <2>4, BuffersKept
      DEF DispatchInv, BuffersAddressed, DispatchedToOwner
    <2> QED
      BY <2>2, <2>5, <2>6, <2>7, <2>8, <2>9, BuffersKept, EntryKept
      DEF DispatchInv
  <1>3. CASE StoreServiceId
    <2>1. /\ appPc = "store" /\ appPc' = "idle"
          /\ appID \in CallBackIDs /\ appID \in Slots
          /\ callBacks[appID].callBackID = appID /\ appID # -1
          /\ UNCHANGED <<bufferVars, entryVars, executingCallback, outRef, subs,
                          ignoreCallbackID, securityEnabled, regs, appID,
                          lastCallBackRegistered>>
      BY <1>3, EventDispatchAssumption DEF StoreServiceId, Slots, DispatchInv,
         DispatchTypeOK, ApplicationHoldsSlot
    <2>2. /\ callBacks'[appID] = [callBacks[appID] EXCEPT !.serviceId = callBacks[appID].refNum]
          /\ \A i \in Slots \ {appID} : callBacks'[i] = callBacks[i]
          /\ DOMAIN callBacks' = Slots
          /\ callBacks' = [i \in Slots |-> callBacks'[i]]
      BY <1>3, <2>1 DEF StoreServiceId, DispatchInv, DispatchTypeOK
    <2>3. DispatchTypeOK'
      <3> DEFINE Element == [callBackID : Slots \cup {-1, 1}, refNum : Nat,
                             serviceId : Nat \cup {-1},
                             callBackType : Types \cup {-1, 0}]
      <3>1. callBacks[appID] \in Element
        BY <2>1 DEF DispatchInv, DispatchTypeOK
      <3>2. callBacks'[appID] \in Element
        BY <2>2, <3>1
      <3>3. callBacks' \in [Slots -> Element]
        BY <2>2, <3>2 DEF DispatchInv, DispatchTypeOK
      <3> QED
        BY <2>1, <3>3 DEF DispatchInv, DispatchTypeOK, Inv
    <2>4. /\ callBacks'[appID].callBackID = appID
          /\ callBacks'[appID].refNum = callBacks[appID].refNum
          /\ callBacks'[appID].serviceId = callBacks[appID].refNum
          /\ callBacks'[appID].callBackType = callBacks[appID].callBackType
      BY <2>1, <2>2 DEF DispatchInv, DispatchTypeOK
    <2>5. \A s \in subs : s.id \in Slots
      BY EventDispatchAssumption
      DEF DispatchInv, DispatchTypeOK, Subscription, Slots
    <2>6. SubscriptionsRegistered'
      <3>1. ASSUME NEW s \in subs, s.id = appID
            PROVE  /\ callBacks'[s.id].callBackID = s.id /\ callBacks'[s.id].refNum = s.ref
                   /\ callBacks'[s.id].serviceId = s.ref /\ callBacks'[s.id].callBackType = s.type
        BY <2>4, <3>1 DEF DispatchInv, SubscriptionsRegistered
      <3>2. ASSUME NEW s \in subs, s.id # appID PROVE callBacks'[s.id] = callBacks[s.id]
        BY <2>2, <2>5, <3>2
      <3> QED
        BY <2>1, <3>1, <3>2 DEF DispatchInv, SubscriptionsRegistered, ServiceIdOf
    <2>7. FreedIsForgotten' /\ ApplicationHoldsSlot'
      <3>1. \A i \in Slots : callBacks'[i].callBackID = -1 =>
              callBacks[i].callBackID = -1 /\ callBacks'[i].serviceId = callBacks[i].serviceId
        BY <2>1, <2>2, <2>4
      <3>2. callBacks'[0].callBackID = 1
        BY <2>1, <2>2, <2>4, EventDispatchAssumption
        DEF DispatchInv, ApplicationHoldsSlot, Slots
      <3> QED
        BY <2>1, <3>1, <3>2 DEF DispatchInv, FreedIsForgotten, ApplicationHoldsSlot
    <2> QED
      BY <2>1, <2>3, <2>6, <2>7, BuffersKept, ReferencesKept, DataKept, EntryKept
      DEF DispatchInv, ReferencesUnique, Issued
  <1>4. CASE SetSecurity
    <2>1. DispatchTypeOK'
      BY <1>4 DEF SetSecurity, DispatchInv, DispatchTypeOK, Inv, registryVars,
         appVars
    <2> QED
      BY <1>4, <2>1, BuffersKept, RegistryKept, ReferencesKept, DataKept,
         EntryKept
      DEF SetSecurity, DispatchInv, registryVars, appVars
  <1> QED
    BY <1>1, <1>2, <1>3, <1>4

(* ... and removeMyService.                                                *)
LEMMA RemovalKeepsInv ==
  ASSUME DispatchInv, Inv', (\E id \in CallBackIDs : RemoveBegin(id)) \/ Remove
  PROVE  DispatchInv'
  <1> USE DEF entryVars
  <1>1. /\ UNCHANGED <<bufferVars, entryVars, executingCallback, outRef,
                        securityEnabled, regs>>
        /\ appPc \notin {"subscribe", "store"} /\ appPc' \notin {"subscribe", "store"}
    BY DEF RemoveBegin, Remove, RemoveAwait, RemoveRelease, RemoveReset,
       RemoveEnd, AppGoto
  <1>2. subs' \subseteq subs
    BY DEF RemoveBegin, Remove, RemoveAwait, RemoveRelease, RemoveReset,
       RemoveEnd
  <1>3. ReferencesUnique' /\ BuffersAddressed' /\ DispatchedToOwner'
    BY <1>1, <1>2, BuffersKept DEF DispatchInv, ReferencesUnique, Issued,
       BuffersAddressed, DispatchedToOwner
  <1>4. CallbackHoldsLock' /\ ExecutingFlag'
    <2>1. CASE subs' = subs
      BY <1>1, <2>1, BuffersKept, EntryKept
    <2>2. CASE entryPc = "out"
      BY <1>1, <2>2, BuffersKept DEF DispatchInv, CallbackHoldsLock,
         ExecutingFlag
    <2> QED
      BY <2>1, <2>2 DEF RemoveBegin, Remove, RemoveAwait, RemoveRelease,
         RemoveReset, RemoveEnd, LockFree
  <1>5. ASSUME DispatchTypeOK', SubscriptionsRegistered', FreedIsForgotten',
               ApplicationHoldsSlot'
        PROVE  DispatchInv'
    BY <1>3, <1>4, <1>5 DEF DispatchInv
  <1>6. ASSUME NEW id \in CallBackIDs, RemoveBegin(id) PROVE DispatchInv'
    <2>1. DispatchTypeOK'
      BY <1>1, <1>6, EventDispatchAssumption DEF RemoveBegin, AppGoto,
         DispatchInv, DispatchTypeOK, Inv, Slots
    <2> QED
      BY <1>1, <1>5, <1>6, <2>1 DEF RemoveBegin, AppGoto, DispatchInv,
         SubscriptionsRegistered, ServiceIdOf, FreedIsForgotten, ApplicationHoldsSlot
  <1>7. CASE RemoveAwait
    <2>1. DispatchTypeOK'
      BY <1>1, <1>7 DEF RemoveAwait, AppGoto, DispatchInv, DispatchTypeOK, Inv
    <2> QED
      BY <1>1, <1>5, <1>7, <2>1 DEF RemoveAwait, AppGoto, DispatchInv,
         SubscriptionsRegistered, ServiceIdOf, FreedIsForgotten, ApplicationHoldsSlot
  <1>8. CASE RemoveRelease
    <2>1. \A s \in subs' : s.id # appID
      BY <1>8 DEF RemoveRelease, AppGoto, DispatchInv, SubscriptionsRegistered,
         ServiceIdOf
    <2>2. DispatchTypeOK'
      BY <1>1, <1>2, <1>8 DEF RemoveRelease, AppGoto, DispatchInv,
         DispatchTypeOK, Inv
    <2> QED
      BY <1>1, <1>2, <1>5, <1>8, <2>1, <2>2 DEF RemoveRelease, AppGoto,
         DispatchInv, SubscriptionsRegistered, ServiceIdOf, FreedIsForgotten,
         ApplicationHoldsSlot
  <1>9. CASE RemoveReset
    <2>1. /\ appID \in CallBackIDs /\ appID \in Slots /\ appID - 1 \in Slots
          /\ appID # 0
          /\ \A s \in subs : s.id # appID /\ s.id \in Slots
      BY <1>9, EventDispatchAssumption DEF RemoveReset, AppGoto, DispatchInv,
         DispatchTypeOK, ApplicationHoldsSlot, Slots, Subscription
    <2>2. /\ callBacks' = [callBacks EXCEPT ![appID] = Unused]
          /\ callBacks'[appID] = Unused
          /\ \A i \in Slots \ {appID} : callBacks'[i] = callBacks[i]
      BY <1>9, <2>1 DEF RemoveReset, DispatchInv, DispatchTypeOK
    <2>3. DispatchTypeOK'
      BY <1>1, <1>9, <2>1, <2>2 DEF RemoveReset, AppGoto, DispatchInv,
         DispatchTypeOK, Inv, Unused
    <2>4. SubscriptionsRegistered' /\ FreedIsForgotten'
      BY <1>1, <1>9, <2>1, <2>2 DEF RemoveReset, DispatchInv,
         SubscriptionsRegistered, ServiceIdOf, FreedIsForgotten
    <2>5. ApplicationHoldsSlot'
      BY <1>9, <2>1, <2>2, EventDispatchAssumption
      DEF RemoveReset, AppGoto, DispatchInv, ApplicationHoldsSlot, Slots, Unused
    <2> QED
      BY <1>5, <2>3, <2>4, <2>5
  <1>10. CASE RemoveEnd
    <2>1. DispatchTypeOK'
      BY <1>1, <1>10 DEF RemoveEnd, AppGoto, DispatchInv, DispatchTypeOK, Inv
    <2> QED
      BY <1>1, <1>5, <1>10, <2>1 DEF RemoveEnd, AppGoto, DispatchInv,
         SubscriptionsRegistered, ServiceIdOf, FreedIsForgotten, ApplicationHoldsSlot
  <1> QED
    BY <1>6, <1>7, <1>8, <1>9, <1>10 DEF Remove

LEMMA StutterKeepsDispatchInv ==
  DispatchInv /\ UNCHANGED dispatchVars => DispatchInv'
  <1> SUFFICES ASSUME DispatchInv, UNCHANGED dispatchVars PROVE DispatchInv'
    OBVIOUS
  <1>1. UNCHANGED <<bufferVars, registryVars, entryVars, appVars,
                    executingCallback, securityEnabled, outRef>>
    BY DEF dispatchVars
  <1>2. Inv'
    BY <1>1, StutterKeepsInv DEF bufferVars, DispatchInv
  <1>3. DispatchTypeOK'
    BY <1>1, <1>2 DEF DispatchInv, DispatchTypeOK, Inv, registryVars, entryVars,
       appVars
  <1> QED
    BY <1>1, <1>2, <1>3, BuffersKept, RegistryKept, ReferencesKept, DataKept,
       EntryKept
    DEF DispatchInv, registryVars, entryVars, appVars

LEMMA DispatchNextKeepsInv ==
  DispatchInv /\ [DispatchNext]_dispatchVars => [Next]_vars /\ DispatchInv'
  <1> SUFFICES ASSUME DispatchInv, [DispatchNext]_dispatchVars
               PROVE  [Next]_vars /\ DispatchInv'
    OBVIOUS
  <1>1. [Next]_vars
    BY DispatchStepsBuffer DEF DispatchInv
  <1>2. Inv'
    BY <1>1, NextKeepsInv DEF DispatchInv
  <1> QED
    BY <1>1, <1>2, EntryKeepsInv, FetchKeepsInv, RegistrationKeepsInv,
       RemovalKeepsInv, StutterKeepsDispatchInv
    DEF DispatchNext

(* The inductive invariant of registration, delivery and removal.          *)
THEOREM DispatchInvariance == DispatchSpec => []DispatchInv
  <1> QED
    BY DispatchInitInv, DispatchNextKeepsInv, PTL DEF DispatchSpec

(* receivedCB and dimWaitForData use the double buffer as DoubleBuffer     *)
(* says: what is proved of the double buffer holds here.                   *)
LEMMA UsesBufferProtocol == DispatchSpec => Spec
  <1>1. DispatchInit => Init
    BY DEF DispatchInit
  <1> QED
    BY <1>1, DispatchNextKeepsInv, DispatchInvariance, PTL
    DEF DispatchSpec, Spec

(* The wrapper as a whole, with registrations coming and going, is the     *)
(* first-in first-out channel of two places that DoubleBuffer implements.  *)
THEOREM WrapperIsChannel == DispatchSpec => ImplementsChannel
  <1> QED
    BY UsesBufferProtocol, Refinement, PTL

(* Every variable keeps its type.                                          *)
THEOREM DispatchTypeCorrect == DispatchSpec => []DispatchTypeOK
  <1>1. DispatchInv => DispatchTypeOK
    BY DEF DispatchInv
  <1> QED
    BY <1>1, DispatchInvariance, PTL

(* What DIM knows and what callBacks says agree, always, but for an ID of  *)
(* DIM's that is still to be stored.                                       *)
THEOREM SubscriptionsStayRegistered == DispatchSpec => []SubscriptionsRegistered
  <1>1. DispatchInv => SubscriptionsRegistered
    BY DEF DispatchInv
  <1> QED
    BY <1>1, DispatchInvariance, PTL

(* dimGetServiceInfo says of an ID what DIM has subscribed with it, or no  *)
(* service ID yet.                                                         *)
THEOREM InfoFollowsSubscription == DispatchSpec => []InfoRight
  <1>1. DispatchInv => InfoRight
    BY DEF DispatchInv, SubscriptionsRegistered, InfoRight, ServiceInfo
  <1> QED
    BY <1>1, DispatchInvariance, PTL

(* A freed element of callBacks is one DIM has forgotten.                  *)
THEOREM RemovalIsComplete == DispatchSpec => []FreedIsForgotten
  <1>1. DispatchInv => FreedIsForgotten
    BY DEF DispatchInv
  <1> QED
    BY <1>1, DispatchInvariance, PTL

(* removeMyService never waits for a callback that is not running.         *)
THEOREM FlagFollowsCallback == DispatchSpec => []ExecutingFlag
  <1>1. DispatchInv => ExecutingFlag
    BY DEF DispatchInv
  <1> QED
    BY <1>1, DispatchInvariance, PTL

(* Data reach the reference they were subscribed for, or come too late for *)
(* anybody.                                                                *)
THEOREM DataReachOwner == DispatchSpec => []DispatchedToOwner
  <1>1. DispatchInv => DispatchedToOwner
    BY DEF DispatchInv
  <1> QED
    BY <1>1, DispatchInvariance, PTL
=============================================================================
