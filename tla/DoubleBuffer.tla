---------------------------- MODULE DoubleBuffer ----------------------------
(***************************************************************************)
(* The double buffer of DimWrapper.c.  DIM calls receivedCB with the data  *)
(* of a service or a command; receivedCB copies them into one of two       *)
(* buffers.  The LabVIEW application fetches them with dimWaitForData.     *)
(* The two run in different threads and share newDataFlag, tempBuffSize    *)
(* and tempBuff without a lock: the flag of a buffer says whose turn it    *)
(* is, and each side keeps the index of the buffer it uses next.           *)
(*                                                                         *)
(* One call of receivedCB runs at a time (DIM calls it with its global     *)
(* lock held) and one of dimWaitForData (DimWrapper.c, "usage").  Each     *)
(* access to a shared variable is a step; memcpy is two steps, the low and *)
(* the high half of the buffer, so that a torn copy is a state.            *)
(***************************************************************************)
EXTENDS Integers, Sequences

CONSTANTS
  CallBackIDs,    (* the IDs that callbacks are registered under           *)
  Sizes,          (* sizes of the data DIM delivers                        *)
  CopySizes,      (* sizes of the copy buffer the application passes       *)
  MAXBUFFERSIZE,  (* size of each of the two buffers                       *)
  MaxCalls        (* bounds the calls of receivedCB                        *)

ASSUME DoubleBufferAssumption ==
  /\ CallBackIDs \subseteq Nat \ {0}
  /\ Sizes \subseteq Nat \ {0}
  /\ CopySizes \subseteq Nat
  /\ MAXBUFFERSIZE \in Nat
  /\ MaxCalls \in Nat

VARIABLES
  newDataFlag,    (* per buffer: Inactive, Free, Filling or a callback ID  *)
  tempBuffSize,   (* per buffer: size of its data                          *)
  tempBuff,       (* per buffer: the data in its low and its high half     *)
  nextBuffCB,     (* the buffer receivedCB uses next                       *)
  nextBuffWait,   (* the buffer dimWaitForData uses next                   *)
  cbPc,           (* where receivedCB is                                   *)
  cbIndex,        (* its buffIndex                                         *)
  cbData,         (* the data it was called with                           *)
  calls,          (* how often it was called                               *)
  waitPc,         (* where dimWaitForData is                               *)
  waitIndex,      (* its buffIndex                                         *)
  copyBufferSize, (* its argument                                          *)
  out             (* the values it returns                                 *)

cbVars   == <<cbPc, cbIndex, cbData, calls, nextBuffCB>>
waitVars == <<waitPc, waitIndex, copyBufferSize, out, nextBuffWait>>
vars     == <<newDataFlag, tempBuffSize, tempBuff, cbVars, waitVars>>

Buffers == {0, 1}

Inactive == -3  \* polling has not begun on this buffer
Free     == -2
Filling  == -1

(* Data are known by the number of the call that brought them.  The ID and *)
(* the size are the arguments of that call.                                *)
Data   == [n : Nat \ {0}, id : CallBackIDs, size : Nat]
NoData == [n |-> 0, id |-> 0, size |-> 0]

(* What dimWaitForData returns when it has nothing.                        *)
TimedOut ==
  [timedOut |-> TRUE, callBackID |-> -1, recSize |-> -1,
   low |-> NoData, high |-> NoData]

(* The ! of C on a flag that is 0 or 1.                                    *)
Other(b) == 1 - b

Init ==
  /\ newDataFlag  = [b \in Buffers |-> Inactive]
  /\ tempBuffSize = [b \in Buffers |-> 0]
  /\ tempBuff     = [b \in Buffers |-> [low |-> NoData, high |-> NoData]]
  /\ nextBuffCB   = 0
  /\ nextBuffWait = 0
  /\ cbPc = "idle" /\ cbIndex = 0 /\ cbData = NoData /\ calls = 0
  /\ waitPc = "idle" /\ waitIndex = 0 /\ copyBufferSize = 0
  /\ out = TimedOut

-----------------------------------------------------------------------------
(* receivedCB, from the point where it has accepted the callback ID.       *)

CBGoto(from, to) == cbPc = from /\ cbPc' = to

(* It takes the index of its buffer.                                       *)
CBArrive(id, size) ==
  /\ CBGoto("idle", "wait")
  /\ calls < MaxCalls
  /\ calls' = calls + 1
  /\ cbData' = [n |-> calls + 1, id |-> id, size |-> size]
  /\ cbIndex' = nextBuffCB
  /\ UNCHANGED <<newDataFlag, tempBuffSize, tempBuff, nextBuffCB, waitVars>>

(* Wrong: takes the buffer without looking at its flag.                    *)
CBBufferUnchecked ==
  /\ CBGoto("wait", "mark")
  /\ cbData.size <= MAXBUFFERSIZE
  /\ UNCHANGED <<newDataFlag, tempBuffSize, tempBuff, cbIndex, cbData, calls,
                 nextBuffCB, waitVars>>

(* It polls the flag until the buffer is free.                             *)
CBBufferFree ==
  /\ CBGoto("wait", "mark")
  /\ newDataFlag[cbIndex] = Free
  /\ cbData.size <= MAXBUFFERSIZE
  /\ UNCHANGED <<newDataFlag, tempBuffSize, tempBuff, cbIndex, cbData, calls,
                 nextBuffCB, waitVars>>

(* Wrong: goes on with a buffer that is not free.                          *)
CBGoOn ==
  /\ CBGoto("wait", "mark")
  /\ newDataFlag[cbIndex] # Free
  /\ UNCHANGED <<newDataFlag, tempBuffSize, tempBuff, cbIndex, cbData, calls,
                 nextBuffCB, waitVars>>

(* Wrong: polls without end.                                               *)
CBPollForever ==
  /\ CBGoto("wait", "wait")
  /\ newDataFlag[cbIndex] # Free
  /\ UNCHANGED vars

(* After 200000 polls, 2 seconds, it gives up and drops the data.          *)
CBGiveUp ==
  /\ CBGoto("wait", "leave")
  /\ newDataFlag[cbIndex] # Free
  /\ UNCHANGED <<newDataFlag, tempBuffSize, tempBuff, cbIndex, cbData, calls,
                 nextBuffCB, waitVars>>

(* The buffer is free but too small for the data: they are dropped.        *)
CBTooLarge ==
  /\ CBGoto("wait", "leave")
  /\ newDataFlag[cbIndex] = Free
  /\ cbData.size > MAXBUFFERSIZE
  /\ UNCHANGED <<newDataFlag, tempBuffSize, tempBuff, cbIndex, cbData, calls,
                 nextBuffCB, waitVars>>

(* Wrong: says that the data are complete before they are copied.          *)
CBMarkEarly ==
  /\ CBGoto("mark", "copyLow")
  /\ newDataFlag' = [newDataFlag EXCEPT ![cbIndex] = cbData.id]
  /\ UNCHANGED <<tempBuffSize, tempBuff, cbIndex, cbData, calls, nextBuffCB,
                 waitVars>>

CBMark ==
  /\ CBGoto("mark", "copyLow")
  /\ newDataFlag' = [newDataFlag EXCEPT ![cbIndex] = Filling]
  /\ UNCHANGED <<tempBuffSize, tempBuff, cbIndex, cbData, calls, nextBuffCB,
                 waitVars>>

CBCopyLow ==
  /\ CBGoto("copyLow", "copyHigh")
  /\ tempBuffSize' = [tempBuffSize EXCEPT ![cbIndex] = cbData.size]
  /\ tempBuff' = [tempBuff EXCEPT ![cbIndex].low = cbData]
  /\ UNCHANGED <<newDataFlag, cbIndex, cbData, calls, nextBuffCB, waitVars>>

CBCopyHigh ==
  /\ CBGoto("copyHigh", "publish")
  /\ tempBuff' = [tempBuff EXCEPT ![cbIndex].high = cbData]
  /\ UNCHANGED <<newDataFlag, tempBuffSize, cbIndex, cbData, calls, nextBuffCB,
                 waitVars>>

(* The callback ID in the flag says that the data are complete.            *)
CBPublish ==
  /\ CBGoto("publish", "switch")
  /\ newDataFlag' = [newDataFlag EXCEPT ![cbIndex] = cbData.id]
  /\ UNCHANGED <<tempBuffSize, tempBuff, cbIndex, cbData, calls, nextBuffCB,
                 waitVars>>

CBSwitch ==
  /\ CBGoto("switch", "fire")
  /\ nextBuffCB' = Other(nextBuffCB)
  /\ UNCHANGED <<newDataFlag, tempBuffSize, tempBuff, cbIndex, cbData, calls,
                 waitVars>>

(* It fires the occurrence, which touches none of the buffers.             *)
CBFire ==
  /\ CBGoto("fire", "leave")
  /\ UNCHANGED <<newDataFlag, tempBuffSize, tempBuff, cbIndex, cbData, calls,
                 nextBuffCB, waitVars>>

CBReturn ==
  /\ CBGoto("leave", "idle")
  /\ UNCHANGED <<newDataFlag, tempBuffSize, tempBuff, cbIndex, cbData, calls,
                 nextBuffCB, waitVars>>

(* The steps of a callback under way.                                      *)
CBStep ==
  \/ CBBufferFree \/ CBGiveUp \/ CBTooLarge
  \/ CBMark \/ CBCopyLow \/ CBCopyHigh \/ CBPublish
  \/ CBSwitch \/ CBFire \/ CBReturn

-----------------------------------------------------------------------------
(* dimWaitForData.                                                         *)

WaitGoto(from, to) == waitPc = from /\ waitPc' = to

(* The first call for a buffer makes it available to receivedCB.           *)
WaitBegin(size) ==
  /\ WaitGoto("idle", "poll")
  /\ waitIndex' = nextBuffWait
  /\ copyBufferSize' = size
  /\ out' = TimedOut
  /\ newDataFlag' = [newDataFlag EXCEPT
       ![nextBuffWait] = IF @ = Inactive THEN Free ELSE @]
  /\ UNCHANGED <<tempBuffSize, tempBuff, nextBuffWait, cbVars>>

(* The timeout expires, or is 0, and there are no data.                    *)
WaitTimeout ==
  /\ WaitGoto("poll", "idle")
  /\ newDataFlag[waitIndex] < 0
  /\ UNCHANGED <<newDataFlag, tempBuffSize, tempBuff, waitIndex,
                 copyBufferSize, out, nextBuffWait, cbVars>>

WaitData ==
  /\ WaitGoto("poll", "copyLow")
  /\ newDataFlag[waitIndex] >= 0
  /\ tempBuffSize[waitIndex] <= copyBufferSize
  /\ UNCHANGED <<newDataFlag, tempBuffSize, tempBuff, waitIndex,
                 copyBufferSize, out, nextBuffWait, cbVars>>

(* The copy buffer is too small: the data are lost, and the call returns   *)
(* as if it had timed out.                                                 *)
WaitTooSmall ==
  /\ WaitGoto("poll", "free")
  /\ newDataFlag[waitIndex] >= 0
  /\ tempBuffSize[waitIndex] > copyBufferSize
  /\ UNCHANGED <<newDataFlag, tempBuffSize, tempBuff, waitIndex,
                 copyBufferSize, out, nextBuffWait, cbVars>>

WaitCopyLow ==
  /\ WaitGoto("copyLow", "copyHigh")
  /\ out' = [out EXCEPT !.low = tempBuff[waitIndex].low]
  /\ UNCHANGED <<newDataFlag, tempBuffSize, tempBuff, waitIndex,
                 copyBufferSize, nextBuffWait, cbVars>>

WaitCopyHigh ==
  /\ WaitGoto("copyHigh", "free")
  /\ out' = [timedOut   |-> FALSE,
             callBackID |-> newDataFlag[waitIndex],
             recSize    |-> tempBuffSize[waitIndex],
             low        |-> out.low,
             high       |-> tempBuff[waitIndex].high]
  /\ UNCHANGED <<newDataFlag, tempBuffSize, tempBuff, waitIndex,
                 copyBufferSize, nextBuffWait, cbVars>>

(* Wrong: forgets to free the buffer.                                      *)
WaitKeep ==
  /\ WaitGoto("free", "switch")
  /\ UNCHANGED <<newDataFlag, tempBuffSize, tempBuff, waitIndex,
                 copyBufferSize, out, nextBuffWait, cbVars>>

WaitFree ==
  /\ WaitGoto("free", "switch")
  /\ newDataFlag' = [newDataFlag EXCEPT ![waitIndex] = Free]
  /\ UNCHANGED <<tempBuffSize, tempBuff, waitIndex, copyBufferSize, out,
                 nextBuffWait, cbVars>>

WaitSwitch ==
  /\ WaitGoto("switch", "idle")
  /\ nextBuffWait' = Other(nextBuffWait)
  /\ UNCHANGED <<newDataFlag, tempBuffSize, tempBuff, waitIndex,
                 copyBufferSize, out, cbVars>>

(* The steps of a call under way.                                          *)
WaitStep ==
  \/ WaitTimeout \/ WaitData \/ WaitTooSmall
  \/ WaitCopyLow \/ WaitCopyHigh \/ WaitFree \/ WaitSwitch

-----------------------------------------------------------------------------
Next ==
  \/ \E id \in CallBackIDs, size \in Sizes : CBArrive(id, size)
  \/ CBStep
  \/ \E size \in CopySizes : WaitBegin(size)
  \/ WaitStep

Spec == Init /\ [][Next]_vars

(* A callback under way goes on: its polling loop is bounded.              *)
FairSpec == Spec /\ WF_vars(CBStep)

-----------------------------------------------------------------------------
(* Properties.                                                             *)

Full(b) == newDataFlag[b] \in CallBackIDs

CBCopying   == cbPc \in {"copyLow", "copyHigh", "publish"}
WaitTaking  == waitPc \in {"copyLow", "copyHigh", "free"}

TypeOK ==
  /\ newDataFlag \in [Buffers -> {Inactive, Free, Filling} \cup CallBackIDs]
  /\ tempBuffSize \in [Buffers -> Nat]
  /\ tempBuff \in [Buffers -> [low : Data \cup {NoData}, high : Data \cup {NoData}]]
  /\ nextBuffCB \in Buffers
  /\ nextBuffWait \in Buffers
  /\ cbPc \in {"idle", "wait", "mark", "copyLow", "copyHigh", "publish",
               "switch", "fire", "leave"}
  /\ cbIndex \in Buffers
  /\ cbData \in Data \cup {NoData}
  /\ calls \in Nat
  /\ waitPc \in {"idle", "poll", "copyLow", "copyHigh", "free", "switch"}
  /\ waitIndex \in Buffers
  /\ copyBufferSize \in Nat
  /\ out \in [timedOut : BOOLEAN, callBackID : CallBackIDs \cup {-1},
              recSize : Nat \cup {-1},
              low : Data \cup {NoData}, high : Data \cup {NoData}]

(* The two memcpy never work on the same buffer at the same time, although *)
(* no lock keeps receivedCB and dimWaitForData apart.                      *)
NoSharedCopy ==
  ~ /\ cbPc \in {"copyLow", "copyHigh"}
    /\ waitPc \in {"copyLow", "copyHigh"}
    /\ cbIndex = waitIndex

(* What dimWaitForData returns is one delivery and not a mixture of two:   *)
(* both halves of the data, the callback ID and the size belong to the     *)
(* same call of receivedCB.                                                *)
ResultIntact ==
  ~out.timedOut =>
    /\ out.low \in Data
    /\ out.high = out.low
    /\ out.callBackID = out.low.id
    /\ out.recSize = out.low.size

(* The buffer each side works on next, ahead of the assignment that        *)
(* records it.                                                             *)
WriteAt == IF cbPc = "switch" THEN Other(nextBuffCB) ELSE nextBuffCB
ReadAt  == IF waitPc = "switch" THEN Other(nextBuffWait) ELSE nextBuffWait

(* The two sides agree on what the buffers hold from the indexes alone:    *)
(* with equal indexes both buffers are full or none is, with different     *)
(* ones exactly the buffer to be read is.  This is what lets each side     *)
(* switch its index without looking at the other's.                        *)
IndexesAgree ==
  IF WriteAt = ReadAt THEN Full(0) <=> Full(1)
                      ELSE Full(ReadAt) /\ ~Full(WriteAt)

(* A buffer is being filled by the callback that has taken it and by       *)
(* nobody else, and a callback about to take one finds it still free.      *)
CallbackOwnsBuffer ==
  /\ cbPc \notin {"idle", "fire", "leave"} => cbIndex = nextBuffCB
  /\ cbPc # "idle" => cbData \in Data
  /\ cbPc = "mark" => newDataFlag[cbIndex] = Free
  /\ \A b \in Buffers :
       newDataFlag[b] = Filling <=> CBCopying /\ cbIndex = b
  /\ cbPc \in {"copyHigh", "publish"} =>
       /\ tempBuffSize[cbIndex] = cbData.size
       /\ tempBuff[cbIndex].low = cbData
  /\ cbPc = "publish" => tempBuff[cbIndex].high = cbData

(* A full buffer holds one delivery, and its flag and size are those of    *)
(* that delivery.                                                          *)
FullIsWhole ==
  \A b \in Buffers : Full(b) =>
    /\ tempBuff[b].low \in Data
    /\ tempBuff[b].high = tempBuff[b].low
    /\ newDataFlag[b] = tempBuff[b].low.id
    /\ tempBuffSize[b] = tempBuff[b].low.size

(* The buffer that dimWaitForData copies from stays full until it is freed.*)
WaitOwnsBuffer ==
  /\ waitPc # "idle" => waitIndex = nextBuffWait
  /\ WaitTaking => Full(waitIndex)
  /\ waitPc \in {"poll", "copyLow", "copyHigh"} => out.timedOut
  /\ waitPc = "copyHigh" \/ (waitPc = "free" /\ ~out.timedOut)
       => out.low = tempBuff[waitIndex].low

(* Together with the types these are preserved by every step.              *)
Inv ==
  /\ TypeOK
  /\ IndexesAgree
  /\ CallbackOwnsBuffer
  /\ FullIsWhole
  /\ WaitOwnsBuffer
  /\ ResultIntact

(* The data channel that the double buffer implements.                     *)
Queue ==
  LET item(b) == tempBuff[b].low
  IN  IF ~Full(ReadAt) THEN << >>
      ELSE IF ~Full(Other(ReadAt)) THEN <<item(ReadAt)>>
      ELSE <<item(ReadAt), item(Other(ReadAt))>>

Returned ==
  IF waitPc \in {"idle", "switch"} /\ ~out.timedOut
  THEN [callBackID |-> out.callBackID, recSize |-> out.recSize,
        data |-> IF out.low = out.high THEN out.low ELSE NoData]
  ELSE [callBackID |-> -1, recSize |-> -1, data |-> NoData]

Pending ==
  IF cbPc = "wait" \/ cbPc = "mark" \/ CBCopying THEN cbData ELSE NoData

Channel == INSTANCE DataChannel WITH
  pending <- Pending, queue <- Queue, got <- Returned

(* receivedCB and dimWaitForData together are a first-in first-out channel *)
(* of two places: no data are duplicated, reordered or torn, and none are  *)
(* lost but those receivedCB gives up or dimWaitForData has no room for.   *)
ImplementsChannel == Channel!Spec

(* A callback always returns: DIM, whose lock it holds, is not blocked by  *)
(* an application that has stopped calling dimWaitForData.                 *)
CallbackReturns == cbPc # "idle" ~> cbPc = "idle"

(* The application calls dimWaitForData again and again, from its polling  *)
(* loop or when the occurrence is fired; a call waits for a bounded time.  *)
ApplicationPolls ==
  /\ WF_vars(WaitStep)
  /\ WF_vars(\E size \in CopySizes : WaitBegin(size))

(* Data in a buffer are fetched, as long as the application keeps calling. *)
DataFetched == ApplicationPolls => \A b \in Buffers : Full(b) ~> ~Full(b)
=============================================================================
