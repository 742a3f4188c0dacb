------------------------ MODULE ServiceRegistryProofs ------------------------
(***************************************************************************)
(* Proofs about the wrapper's services, for arrays of any length, any      *)
(* names, and any number of threads that update.  The argument rests on    *)
(* the numbers of the blocks: each element that has a service has a block  *)
(* of its own, and DIM's number for the service is that of the block.      *)
(***************************************************************************)
EXTENDS ServiceRegistry, WellFoundedInduction, TLAPS

USE ServiceRegistryAssumption

LEMMA InitInv == Init => Inv
<1> SUFFICES ASSUME Init PROVE Inv
  OBVIOUS
<1> USE DEF Init, Slots, Valid, Fresh
<1>1. services[0].my_serviceID = 1 /\ services[0].serviceId = 0
  OBVIOUS
<1>2. \A i \in Slots : ~Valid(i) /\ ~Held(i) /\ services[i].serviceId = 0
  BY DEF Held
<1>3. TypeOK
  <2>1. services \in [Slots -> [my_serviceID : Slots \cup {-1}, name : Names \cup {0},
                                buffer : 0..MaxAdds, serviceId : 0..MaxAdds]]
    OBVIOUS
  <2>2. up \in [Updaters -> [pc : {"idle", "check", "copied", "notify", "sending"},
                             slot : Slots, id : 0..MaxAdds]]
    BY DEF NoUpdate
  <2>3. serverActive \in BOOLEAN
    BY Zenon
  <2>4. owner \in [pc : {"idle", "declare", "undeclare", "free", "stop"}, slot : Slots]
    OBVIOUS
  <2> QED BY <2>1, <2>2, <2>3, <2>4 DEF TypeOK
<1>4. ElementZero /\ OwnerState /\ OwnBlocks /\ Numbered /\ DelayedSent /\ Closed
  BY <1>1, <1>2 DEF ElementZero, OwnerState, OwnBlocks, Numbered, DelayedSent, Closed
<1>5. SlotsDeclared /\ ServicesOwned /\ NoLeak
  BY <1>2 DEF SlotsDeclared, ServicesOwned, NoLeak
<1> QED BY <1>3, <1>4, <1>5 DEF Inv

-----------------------------------------------------------------------------
(* The search for a free element.                                          *)

LEMMA LeastIsMember ==
  ASSUME NEW S, S \subseteq Nat, S # {} PROVE Least(S) \in S
<1>1. PICK i \in S : \A j \in S : <<j, i>> \notin OpToRel(<, Nat)
  BY NatLessThanWellFounded, WFMin, Zenon
<1>2. \A j \in S : ~(j < i)
  BY <1>1, Zenon DEF OpToRel
<1>3. \A j \in S : i <= j
  BY <1>2
<1> QED BY <1>3 DEF Least

LEMMA NextSlotIsFree ==
  ASSUME ElementZero, FreeSlots # {}
  PROVE  NextSlot \in Slots \ {0} /\ services[NextSlot].my_serviceID = -1
<1>1. FreeSlots \subseteq Nat
  BY DEF FreeSlots, Slots
<1> DEFINE later == {i \in FreeSlots : i > lastServiceCreated}
<1>2. later # {} => Least(later) \in FreeSlots
  BY <1>1, LeastIsMember
<1>3. Least(FreeSlots) \in FreeSlots
  BY <1>1, LeastIsMember
<1>4. NextSlot \in FreeSlots
  BY <1>2, <1>3 DEF NextSlot
<1> QED BY <1>4 DEF FreeSlots, ElementZero

-----------------------------------------------------------------------------
(* Types of the parts that the steps below change.                         *)

Element == [my_serviceID : Slots \cup {-1}, name : Names \cup {0},
            buffer : 0..MaxAdds, serviceId : 0..MaxAdds]
Update  == [pc : {"idle", "check", "copied", "notify", "sending"},
            slot : Slots, id : 0..MaxAdds]

LEMMA Indexes ==
  /\ 0 \in Slots /\ Slots \subseteq Nat /\ -1 \notin Slots
  /\ \A i \in Slots \ {0} : i # 0
  BY DEF Slots

(* DIM's services, and a service that an element names.                    *)
LEMMA DimFacts ==
  ASSUME Inv
  PROVE  /\ \A d \in dim : d.id \in 1..adds /\ d.buffer = d.id
         /\ \A id \in doomed : id \in delayed /\ id \in Declared
         /\ 0 \notin delayed /\ 0 \notin Declared
<1>1. \A d \in dim : d.id \in 1..adds /\ d.buffer = d.id
  BY DEF Inv, TypeOK, Service, Numbered
<1> QED BY <1>1 DEF Inv, TypeOK, Declared

(* Two elements never name the same service.                               *)
LEMMA ServiceOfOne ==
  ASSUME Inv, NEW i \in Slots, NEW j \in Slots \ {i}, services[i].serviceId # 0
  PROVE  services[j].serviceId # services[i].serviceId
<1>1. Held(i) /\ services[i].serviceId = services[i].buffer
  BY DEF Inv, OwnBlocks
<1>2. CASE services[j].serviceId = 0
  BY <1>2
<1>3. CASE services[j].serviceId # 0
  <2>1. Held(j) /\ services[j].serviceId = services[j].buffer
    BY <1>3 DEF Inv, OwnBlocks
  <2> QED BY <1>1, <2>1 DEF Inv, OwnBlocks
<1> QED BY <1>2, <1>3

(* A step that leaves the services alone.                                  *)
LEMMA SameServices ==
  ASSUME Inv, UNCHANGED <<services, adds, heap, dim, doomed, owner, closing, swept>>
  PROVE  /\ ElementZero' /\ OwnerState' /\ OwnBlocks' /\ Numbered' /\ Closed'
         /\ SlotsDeclared' /\ NoLeak' /\ Declared' = Declared
<1>1. /\ \A i \in Slots : (Valid(i)' <=> Valid(i)) /\ (Held(i)' <=> Held(i))
      /\ Declared' = Declared
  BY DEF Valid, Held, Declared
<1>2. ElementZero' /\ Numbered' /\ Closed'
  BY <1>1 DEF Inv, ElementZero, Numbered, Closed
<1>3. OwnerState'
  <2>1. services' = services /\ owner' = owner /\ adds' = adds /\ swept' = swept /\ doomed' = doomed
    OBVIOUS
  <2> QED BY <1>1, <2>1, Zenon DEF Inv, OwnerState, Valid
<1>4. OwnBlocks'
  BY <1>1 DEF Inv, OwnBlocks
<1>5. SlotsDeclared'
  BY <1>1 DEF Inv, SlotsDeclared
<1>6. NoLeak'
  <2>1. {j \in Slots : Held(j)'} = {j \in Slots : Held(j)}
    BY <1>1
  <2> QED BY <2>1 DEF Inv, NoLeak
<1> QED BY <1>1, <1>2, <1>3, <1>4, <1>5, <1>6

-----------------------------------------------------------------------------
(* disAddService                                                           *)

LEMMA AddNoMemoryKeepsInv ==
  ASSUME Inv, AddNoMemory PROVE Inv'
<1>1. NextSlot \in Slots \ {0}
  BY NextSlotIsFree DEF Inv, AddNoMemory
<1>2. adds \in Nat /\ adds' = adds + 1 /\ adds' \in 0..MaxAdds
  BY DEF Inv, TypeOK, AddNoMemory
<1>3. TypeOK'
  BY <1>1, <1>2 DEF Inv, TypeOK, AddNoMemory, Declared
<1>4. ElementZero' /\ OwnerState' /\ Closed'
  BY DEF Inv, ElementZero, OwnerState, Closed, AddNoMemory, Valid, Idle
<1>5. OwnBlocks'
  BY <1>2 DEF Inv, OwnBlocks, AddNoMemory, Valid, Held
<1>6. Numbered'
  <2>1. \A d \in dim : d.id \in Int
    BY DEF Inv, TypeOK, Service
  <2> QED BY <1>2, <2>1 DEF Inv, Numbered, AddNoMemory
<1>7. DelayedSent' /\ SlotsDeclared' /\ ServicesOwned' /\ NoLeak'
  BY DEF Inv, DelayedSent, SlotsDeclared, ServicesOwned, NoLeak, AddNoMemory, Valid, Held
<1> QED BY <1>3, <1>4, <1>5, <1>6, <1>7 DEF Inv

LEMMA AddServiceKeepsInv ==
  ASSUME Inv, NEW name \in Names, AddService(name) PROVE Inv'
<1>1. PICK i \in Slots \ {0} : i = NextSlot /\ services[i].my_serviceID = -1
  BY NextSlotIsFree DEF Inv, AddService
<1>2. /\ services' = [services EXCEPT ![i] =
           [my_serviceID |-> i, name |-> name, buffer |-> adds',
            serviceId |-> services[i].serviceId]]
      /\ heap' = heap \cup {adds'} /\ lastServiceCreated' = i
      /\ owner' = [pc |-> "declare", slot |-> i]
      /\ UNCHANGED <<dim, delayed, doomed, serverActive, errorCode, closing, swept, up>>
  BY <1>1 DEF AddService, Goto
<1>3. adds \in Nat /\ adds' = adds + 1 /\ adds' \in 1..MaxAdds
  BY DEF Inv, TypeOK, AddService
<1>4. owner.pc = "idle" /\ closing = -1 /\ owner.slot = 0
  BY DEF AddService, Idle, Inv, OwnerState
<1>5. ~Held(i) /\ services[i].serviceId = 0
  BY <1>1, <1>4, Indexes DEF Held, Valid, Inv, OwnBlocks
<1>6. /\ services'[i] = [my_serviceID |-> i, name |-> name, buffer |-> adds', serviceId |-> 0]
      /\ \A j \in Slots \ {i} : services'[j] = services[j]
  BY <1>2, <1>5 DEF Inv, TypeOK
<1>7. /\ \A j \in Slots \ {i} : (Valid(j)' <=> Valid(j)) /\ (Held(j)' <=> Held(j))
      /\ Valid(i)' /\ Held(i)'
  <2>1. owner'.pc = "declare" /\ owner'.slot = i
    BY <1>2
  <2>2. Valid(i)' /\ \A j \in Slots \ {i} : Valid(j)' <=> Valid(j)
    BY <1>6 DEF Valid
  <2> QED BY <1>4, <2>1, <2>2 DEF Held
<1>8. TypeOK'
  <2>1. services' \in [Slots -> Element]
    BY <1>1, <1>2, <1>3 DEF Inv, TypeOK, Element
  <2>2. heap' \subseteq 1..MaxAdds
    BY <1>2, <1>3 DEF Inv, TypeOK
  <2>3. owner' \in [pc : {"idle", "declare", "undeclare", "free", "stop"}, slot : Slots]
    BY <1>1, <1>2
  <2> QED BY <1>1, <1>2, <1>3, <2>1, <2>2, <2>3 DEF Inv, TypeOK, Element, Declared
<1>9. ElementZero'
  BY <1>1, <1>6 DEF Inv, ElementZero, Slots
<1>10. OwnerState'
  <2>1. adds' \notin Declared' \cup swept'
    BY <1>2, <1>3, DimFacts DEF Inv, Numbered, Declared
  <2>2. owner'.pc = "declare" /\ owner'.slot = i
    BY <1>2
  <2> QED BY <1>1, <1>6, <1>7, <2>1, <2>2 DEF OwnerState
<1>11. OwnBlocks'
  <2>1. \A j \in Slots : Held(j) => services[j].buffer \in 1..adds
    BY DEF Inv, OwnBlocks
  <2> QED BY <1>1, <1>3, <1>6, <1>7, <2>1 DEF Inv, OwnBlocks
<1>12. Numbered'
  <2>1. \A d \in dim : d.id \in Int
    BY DEF Inv, TypeOK, Service
  <2> QED BY <1>2, <1>3, <2>1 DEF Inv, Numbered
<1>13. DelayedSent' /\ Closed'
  BY <1>2, <1>4, Indexes DEF Inv, DelayedSent, Closed
<1>14. SlotsDeclared'
  BY <1>1, <1>2, <1>6, <1>7 DEF Inv, SlotsDeclared
<1>15. ServicesOwned'
  BY <1>1, <1>2, <1>4, <1>5, <1>6, <1>7, DimFacts, Indexes DEF Inv, ServicesOwned, ElementZero
<1>16. NoLeak'
  <2>1. {k \in Slots : Held(k)'} = {k \in Slots : Held(k)} \cup {i}
    BY <1>1, <1>7
  <2>2. \A k \in {j \in Slots : Held(j)} : services'[k].buffer = services[k].buffer
    BY <1>5, <1>6
  <2>3. heap = {services[j].buffer : j \in {k \in Slots : Held(k)}}
    BY DEF Inv, NoLeak
  <2>4. heap' = {services'[j].buffer : j \in {k \in Slots : Held(k)'}}
    BY <1>2, <1>6, <2>1, <2>2, <2>3
  <2>5. owner'.pc # "idle"
    BY <1>2
  <2> QED BY <2>4, <2>5 DEF NoLeak
<1> QED BY <1>8, <1>9, <1>10, <1>11, <1>12, <1>13, <1>14, <1>15, <1>16 DEF Inv

LEMMA AddDeclareKeepsInv ==
  ASSUME Inv, AddDeclare PROVE Inv'
<1> DEFINE i == owner.slot
           taken == \E d \in dim : d.name = services[i].name
           id == IF taken THEN 0 ELSE adds
           new == [id |-> adds, name |-> services[i].name, buffer |-> services[i].buffer]
<1>1. /\ owner.pc = "declare" /\ i \in Slots \ {0} /\ Valid(i)
      /\ services[i].name \in Names /\ services[i].serviceId = 0
      /\ services[i].buffer = adds /\ adds \notin Declared /\ adds \notin swept
      /\ adds \in 1..MaxAdds
  <2>1. owner.pc = "declare" /\ owner.slot # 0
    BY DEF AddDeclare, Inv, OwnerState
  <2>2. Held(owner.slot)
    BY <2>1 DEF Held
  <2> QED BY <2>1, <2>2 DEF Inv, TypeOK, OwnerState, OwnBlocks
<1>2. /\ dim' = IF taken THEN dim ELSE dim \cup {new}
      /\ services' = [services EXCEPT ![i].serviceId = id]
      /\ owner' = [pc |-> "idle", slot |-> 0]
      /\ UNCHANGED <<lastServiceCreated, heap, adds, delayed, doomed, serverActive,
                     errorCode, closing, swept, up>>
  BY DEF AddDeclare, Goto
<1>3. id \in {0, adds} /\ new \in Service
  BY <1>1 DEF Service
<1>0. id = adds <=> ~taken
  BY <1>1
<1> HIDE DEF i, taken, id
<1>4. /\ services'[i] = [services[i] EXCEPT !.serviceId = id]
      /\ \A j \in Slots \ {i} : services'[j] = services[j]
  BY <1>1, <1>2 DEF Inv, TypeOK
<1>5. /\ services'[i].my_serviceID = services[i].my_serviceID
      /\ services'[i].name = services[i].name
      /\ services'[i].buffer = adds /\ services'[i].serviceId = id
  BY <1>1, <1>4 DEF Inv, TypeOK
<1>6. \A j \in Slots : (Valid(j)' <=> Valid(j)) /\ (Held(j)' <=> Held(j))
  BY <1>1, <1>2, <1>4, <1>5 DEF Valid, Held, i
<1>7. Declared \subseteq Declared'
  BY <1>2 DEF Declared
<1>8. TypeOK'
  <2>1. services' \in [Slots -> Element]
    BY <1>1, <1>2, <1>3 DEF Inv, TypeOK, Element
  <2>2. dim' \subseteq Service
    BY <1>2, <1>3 DEF Inv, TypeOK
  <2>3. owner' \in [pc : {"idle", "declare", "undeclare", "free", "stop"}, slot : Slots]
    BY <1>2, Indexes
  <2> QED BY <1>2, <1>7, <2>1, <2>2, <2>3 DEF Inv, TypeOK, Element
<1>9. ElementZero'
  <2>1. services'[0] = services[0]
    BY <1>1, <1>4, Indexes
  <2>2. \A j \in Slots : services'[j].my_serviceID = services[j].my_serviceID
    BY <1>4, <1>5
  <2> QED BY <2>1, <2>2 DEF Inv, ElementZero
<1>10. OwnerState'
  BY <1>2 DEF OwnerState
<1>11. OwnBlocks'
  BY <1>1, <1>2, <1>3, <1>4, <1>5, <1>6 DEF Inv, OwnBlocks, Held
<1>12. Numbered'
  BY <1>1, <1>2 DEF Inv, Numbered
<1>13. DelayedSent' /\ Closed'
  BY <1>1, <1>2, <1>6 DEF Inv, DelayedSent, Closed
<1>14. SlotsDeclared'
  <2>1. SUFFICES ASSUME NEW j \in Slots, Valid(j)', services'[j].serviceId \notin swept' \cup {0}
        PROVE  /\ [id |-> services'[j].serviceId, name |-> services'[j].name,
                   buffer |-> services'[j].buffer] \in dim'
               /\ services'[j].serviceId \notin doomed'
               /\ \A k \in Slots \ {j} : services'[k].serviceId # services'[j].serviceId
    BY DEF SlotsDeclared
  <2>2. \A k \in Slots : services[k].serviceId # 0 => services[k].serviceId # adds
    <3> SUFFICES ASSUME NEW k \in Slots, services[k].serviceId # 0
                 PROVE  services[k].serviceId # adds
      OBVIOUS
    <3>1. Held(k) /\ services[k].serviceId = services[k].buffer /\ k # i
      BY <1>1 DEF Inv, OwnBlocks
    <3>2. Held(i)
      BY <1>1 DEF Held
    <3> QED BY <1>1, <3>1, <3>2 DEF Inv, OwnBlocks
  <2>3. CASE j = i
    <3>1. id = adds /\ ~taken
      BY <1>3, <1>0, <1>5, <2>1, <2>3
    <3>2. adds \notin doomed
      BY <1>1, DimFacts
    <3> QED BY <1>1, <1>2, <1>4, <1>5, <2>1, <2>2, <2>3, <3>1, <3>2
  <2>4. CASE j # i
    <3>1. services'[j] = services[j] /\ Valid(j)
      BY <1>4, <1>6, <2>1, <2>4
    <3> QED BY <1>2, <1>3, <1>4, <1>5, <2>1, <2>2, <2>4, <3>1 DEF Inv, SlotsDeclared
  <2> QED BY <2>3, <2>4
<1>15. ServicesOwned'
  <2>1. SUFFICES ASSUME NEW d \in dim'
        PROVE  \/ \E j \in Slots : services'[j].serviceId = d.id /\ (Valid(j)' \/ owner'.slot = j)
               \/ d.id \in doomed' /\ \E u \in Updaters : up'[u].pc = "sending" /\ up'[u].id = d.id
    BY DEF ServicesOwned
  <2>2. CASE d \in dim
    <3>1. CASE d.id \in doomed /\ \E u \in Updaters : up[u].pc = "sending" /\ up[u].id = d.id
      BY <1>2, <3>1
    <3>2. CASE \E j \in Slots : services[j].serviceId = d.id /\ (Valid(j) \/ owner.slot = j)
      <4>1. PICK j \in Slots : services[j].serviceId = d.id /\ (Valid(j) \/ owner.slot = j)
        BY <3>2
      <4>2. j # i
        BY <1>1, <2>2, <4>1, DimFacts
      <4> QED BY <1>4, <1>6, <4>1, <4>2 DEF i
    <3> QED BY <2>2, <3>1, <3>2 DEF Inv, ServicesOwned
  <2>3. CASE d \notin dim
    <3>1. d = new /\ ~taken
      BY <1>2, <2>1, <2>3
    <3> QED BY <1>1, <1>0, <1>5, <1>6, <3>1
  <2> QED BY <2>2, <2>3
<1>16. NoLeak'
  <2>1. \A j \in Slots : services'[j].buffer = services[j].buffer
    BY <1>1, <1>4, <1>5
  <2>2. heap' = {services'[j].buffer : j \in {k \in Slots : Held(k)'}}
    BY <1>2, <1>6, <2>1 DEF Inv, NoLeak
  <2>3. closing # MAXSERVICES + 1
    BY <1>1 DEF Inv, Closed
  <2> QED BY <1>2, <2>2, <2>3 DEF NoLeak
<1> QED BY <1>8, <1>9, <1>10, <1>11, <1>12, <1>13, <1>14, <1>15, <1>16 DEF Inv

-----------------------------------------------------------------------------
(* disRemoveService                                                        *)

LEMMA RemoveBeginKeepsInv ==
  ASSUME Inv, NEW i \in Slots, RemoveBegin(i),
         closing' \in -1..MAXSERVICES,
         \A j \in Slots : j < closing' => ~Valid(j)'
  PROVE  Inv'
<1>1. /\ services' = [services EXCEPT ![i].my_serviceID = -1]
      /\ owner' = [pc |-> "undeclare", slot |-> i]
      /\ UNCHANGED <<lastServiceCreated, heap, adds, dim, delayed, doomed, serverActive,
                     errorCode, swept, up>>
      /\ owner.pc = "idle" /\ Valid(i)
  BY DEF RemoveBegin, Goto
<1>2. owner.slot = 0 /\ i # 0
  BY <1>1 DEF Inv, OwnerState, ElementZero, Valid
<1>3. owner'.pc = "undeclare" /\ owner'.slot = i
  BY <1>1
<1>4. /\ services'[i].my_serviceID = -1
      /\ \A j \in Slots \ {i} : services'[j] = services[j]
      /\ \A j \in Slots : /\ services'[j].buffer = services[j].buffer
                          /\ services'[j].name = services[j].name
                          /\ services'[j].serviceId = services[j].serviceId
  BY <1>1 DEF Inv, TypeOK
<1>5. ~Valid(i)' /\ \A j \in Slots \ {i} : Valid(j)' <=> Valid(j)
  BY <1>4, Indexes DEF Valid
<1>6. \A j \in Slots : Held(j)' <=> Held(j)
  BY <1>1, <1>3, <1>5 DEF Held
<1>7. TypeOK'
  <2>1. services' \in [Slots -> Element]
    BY <1>1 DEF Inv, TypeOK, Element
  <2>2. owner' \in [pc : {"idle", "declare", "undeclare", "free", "stop"}, slot : Slots]
    BY <1>1
  <2> QED BY <1>1, <2>1, <2>2 DEF Inv, TypeOK, Element, Declared
<1>8. ElementZero'
  <2>1. services'[0] = services[0]
    BY <1>2, <1>4, Indexes
  <2> QED BY <1>4, <2>1 DEF Inv, ElementZero
<1>9. OwnerState'
  BY <1>2, <1>3, <1>5 DEF OwnerState
<1>10. OwnBlocks'
  BY <1>1, <1>4, <1>6 DEF Inv, OwnBlocks
<1>11. Numbered' /\ DelayedSent'
  BY <1>1 DEF Inv, Numbered, DelayedSent
<1>12. Closed'
  BY DEF Closed
<1>13. SlotsDeclared'
  BY <1>1, <1>4, <1>5 DEF Inv, SlotsDeclared
<1>14. ServicesOwned'
  BY <1>1, <1>2, <1>3, <1>4, <1>5, DimFacts, Indexes DEF Inv, ServicesOwned, ElementZero
<1>15. NoLeak'
  <2>1. heap' = {services'[j].buffer : j \in {k \in Slots : Held(k)'}}
    BY <1>1, <1>4, <1>6 DEF Inv, NoLeak
  <2> QED BY <1>3, <2>1 DEF NoLeak
<1> QED BY <1>7, <1>8, <1>9, <1>10, <1>11, <1>12, <1>13, <1>14, <1>15 DEF Inv

LEMMA RemoveServiceKeepsInv ==
  ASSUME Inv, NEW i \in Slots, RemoveService(i) PROVE Inv'
<1>1. RemoveBegin(i) /\ closing' = -1
  BY DEF RemoveService, Idle
<1>2. closing' \in -1..MAXSERVICES /\ \A j \in Slots : ~(j < closing')
  BY <1>1 DEF Slots
<1> QED BY <1>1, <1>2, RemoveBeginKeepsInv

(* The service an element names, while it is being removed.                *)
LEMMA RemoveUndeclareKeepsInv ==
  ASSUME Inv, RemoveUndeclare PROVE Inv'
<1>1. PICK i \in Slots : i = owner.slot
  BY DEF Inv, TypeOK
<1> DEFINE id == services[i].serviceId
<1>2. /\ owner.pc = "undeclare"
      /\ IF id \in delayed
         THEN doomed' = doomed \cup {id} /\ dim' = dim
         ELSE dim' = {d \in dim : d.id # id} /\ doomed' = doomed
      /\ owner' = [pc |-> "free", slot |-> i]
      /\ UNCHANGED <<services, lastServiceCreated, heap, adds, delayed,
                     serverActive, errorCode, closing, swept, up>>
  BY <1>1 DEF RemoveUndeclare, Goto
<1>3. owner'.pc = "free" /\ owner'.slot = i
  BY <1>2
<1>4. i # 0 /\ ~Valid(i)
  BY <1>1, <1>2 DEF Inv, OwnerState
<1>5. \A j \in Slots : (Valid(j)' <=> Valid(j)) /\ (Held(j)' <=> Held(j))
  BY <1>1, <1>2, <1>3 DEF Valid, Held
<1>6. dim' \subseteq dim /\ doomed \subseteq doomed' /\ \A d \in dim : d.id # id => d \in dim'
  BY <1>2
<1>7. TypeOK'
  <2>1. doomed' \subseteq delayed'
    BY <1>2 DEF Inv, TypeOK
  <2>2. delayed' \subseteq Declared'
    <3> SUFFICES ASSUME NEW x \in delayed PROVE x \in Declared'
      BY <1>2
    <3>1. PICK d \in dim : d.id = x
      BY DEF Inv, TypeOK, Declared
    <3>2. d \in dim'
      BY <1>2, <3>1
    <3> QED BY <3>1, <3>2 DEF Declared
  <2>3. owner' \in [pc : {"idle", "declare", "undeclare", "free", "stop"}, slot : Slots]
    BY <1>2
  <2> QED BY <1>2, <1>6, <2>1, <2>2, <2>3 DEF Inv, TypeOK, Element
<1>8. ElementZero' /\ Numbered' /\ DelayedSent' /\ Closed'
  BY <1>2, <1>3, <1>5, <1>6 DEF Inv, ElementZero, Numbered, DelayedSent, Closed
<1>9. OwnerState'
  <2>1. services'[i].serviceId \notin Declared' \ doomed'
    BY <1>2 DEF Declared
  <2> QED BY <1>3, <1>4, <1>5, <2>1 DEF OwnerState
<1>10. OwnBlocks'
  BY <1>2, <1>5 DEF Inv, OwnBlocks
<1>11. SlotsDeclared'
  <2> SUFFICES ASSUME NEW j \in Slots, Valid(j), services[j].serviceId \notin swept \cup {0}
        PROVE  /\ [id |-> services[j].serviceId, name |-> services[j].name,
                   buffer |-> services[j].buffer] \in dim'
               /\ services[j].serviceId \notin doomed'
               /\ \A k \in Slots \ {j} : services[k].serviceId # services[j].serviceId
    BY <1>2, <1>5 DEF SlotsDeclared
  <2>1. services[j].serviceId # id
    BY <1>4, ServiceOfOne
  <2> QED BY <1>2, <1>6, <2>1 DEF Inv, SlotsDeclared
<1>12. ServicesOwned'
  BY <1>1, <1>2, <1>3, <1>5, <1>6 DEF Inv, ServicesOwned
<1>13. NoLeak'
  BY <1>2, <1>3, <1>5 DEF Inv, NoLeak
<1> QED BY <1>7, <1>8, <1>9, <1>10, <1>11, <1>12, <1>13 DEF Inv

LEMMA RemoveFreeKeepsInv ==
  ASSUME Inv, RemoveFree PROVE Inv'
<1>1. PICK i \in Slots : i = owner.slot
  BY DEF Inv, TypeOK
<1>2. /\ owner.pc = "free"
      /\ heap' = heap \ {services[i].buffer}
      /\ services' = [services EXCEPT ![i].serviceId = 0]
      /\ lastServiceCreated' = i - 1
      /\ owner' = [pc |-> "idle", slot |-> 0]
      /\ UNCHANGED <<adds, dim, delayed, doomed, serverActive, errorCode, closing, swept, up>>
  BY <1>1 DEF RemoveFree, Goto
<1>3. owner'.pc = "idle" /\ owner'.slot = 0
  BY <1>2
<1>4. i # 0 /\ ~Valid(i) /\ Held(i) /\ services[i].serviceId \notin Declared \ doomed
  BY <1>1, <1>2 DEF Inv, OwnerState, Held
<1>5. /\ services'[i].serviceId = 0
      /\ \A j \in Slots \ {i} : services'[j] = services[j]
      /\ \A j \in Slots : /\ services'[j].buffer = services[j].buffer
                          /\ services'[j].my_serviceID = services[j].my_serviceID
  BY <1>2 DEF Inv, TypeOK
<1>6. \A j \in Slots : Valid(j)' <=> Valid(j)
  BY <1>5 DEF Valid
<1>7. ~Held(i)' /\ \A j \in Slots \ {i} : Held(j)' <=> Held(j)
  BY <1>1, <1>3, <1>4, <1>6 DEF Held
<1>8. TypeOK'
  <2>1. services' \in [Slots -> Element]
    BY <1>2 DEF Inv, TypeOK, Element
  <2>2. owner' \in [pc : {"idle", "declare", "undeclare", "free", "stop"}, slot : Slots]
    BY <1>2, Indexes
  <2>3. lastServiceCreated' \in Slots \cup {-1}
    BY <1>2, <1>4 DEF Slots
  <2> QED BY <1>2, <2>1, <2>2, <2>3 DEF Inv, TypeOK, Element, Declared
<1>9. ElementZero'
  <2>1. services'[0] = services[0]
    BY <1>4, <1>5, Indexes
  <2> QED BY <1>5, <2>1 DEF Inv, ElementZero
<1>10. OwnerState'
  BY <1>3 DEF OwnerState
<1>11. OwnBlocks'
  BY <1>2, <1>5, <1>7 DEF Inv, OwnBlocks
<1>12. Numbered' /\ DelayedSent' /\ Closed'
  BY <1>2, <1>3, <1>6 DEF Inv, Numbered, DelayedSent, Closed
<1>13. SlotsDeclared'
  <2>1. \A j \in Slots : Valid(j) => services'[j] = services[j]
    BY <1>4, <1>5
  <2> QED BY <1>2, <1>5, <1>6, <2>1 DEF Inv, SlotsDeclared
<1>14. ServicesOwned'
  <2> SUFFICES ASSUME NEW d \in dim
        PROVE  \/ \E j \in Slots : services'[j].serviceId = d.id /\ Valid(j)'
               \/ d.id \in doomed /\ \E u \in Updaters : up[u].pc = "sending" /\ up[u].id = d.id
    BY <1>2 DEF ServicesOwned
  <2>1. CASE services[i].serviceId = d.id
    <3>1. d.id \in doomed
      BY <1>4, <2>1 DEF Declared
    <3> QED BY <3>1, DimFacts DEF Inv, DelayedSent
  <2>2. CASE services[i].serviceId # d.id
    BY <1>1, <1>5, <1>6, <2>2 DEF Inv, ServicesOwned
  <2> QED BY <2>1, <2>2
<1>15. NoLeak'
  <2>1. {j \in Slots : Held(j)'} = {j \in Slots : Held(j)} \ {i}
    BY <1>7
  <2>2. \A j \in Slots \ {i} : Held(j) => services[j].buffer # services[i].buffer
    BY <1>4 DEF Inv, OwnBlocks
  <2>3. heap = {services[j].buffer : j \in {k \in Slots : Held(k)}}
    BY DEF Inv, NoLeak
  <2>4. heap' = {services'[j].buffer : j \in {k \in Slots : Held(k)'}}
    BY <1>2, <1>5, <2>1, <2>2, <2>3
  <2>5. closing' # MAXSERVICES + 1
    BY <1>2 DEF Inv, Closed
  <2> QED BY <2>4, <2>5 DEF NoLeak
<1> QED BY <1>8, <1>9, <1>10, <1>11, <1>12, <1>13, <1>14, <1>15 DEF Inv

-----------------------------------------------------------------------------
(* disStopServing and deinitMyLib                                          *)

LEMMA StopBeginKeepsInv ==
  ASSUME Inv, owner.pc = "idle", owner' = [pc |-> "stop", slot |-> 0],
         closing' = closing \/ (closing = MAXSERVICES /\ closing' = MAXSERVICES + 1),
         UNCHANGED <<services, lastServiceCreated, heap, adds, dim, delayed, doomed,
                     serverActive, errorCode, swept, up>>
  PROVE  Inv'
<1>1. owner'.pc = "stop" /\ owner'.slot = 0 /\ owner.slot = 0
  BY DEF Inv, OwnerState
<1>2. \A j \in Slots : (Valid(j)' <=> Valid(j)) /\ (Held(j)' <=> Held(j))
  BY <1>1 DEF Valid, Held
<1>3. TypeOK'
  <2>1. owner' \in [pc : {"idle", "declare", "undeclare", "free", "stop"}, slot : Slots]
    BY Indexes
  <2>2. closing' \in -1..(MAXSERVICES + 1)
    BY DEF Inv, TypeOK
  <2> QED BY <2>1, <2>2 DEF Inv, TypeOK, Declared
<1>4. ElementZero' /\ OwnerState' /\ Numbered' /\ DelayedSent'
  BY <1>1 DEF Inv, ElementZero, OwnerState, Numbered, DelayedSent
<1>5. OwnBlocks' /\ SlotsDeclared'
  BY <1>2 DEF Inv, OwnBlocks, SlotsDeclared
<1>6. Closed'
  <2>1. \A j \in Slots : j < closing' => j < closing
    BY DEF Slots
  <2> QED BY <1>1, <1>2, <2>1 DEF Inv, Closed
<1>7. ServicesOwned'
  BY <1>1, <1>2 DEF Inv, ServicesOwned
<1>8. NoLeak'
  BY <1>1, <1>2 DEF Inv, NoLeak
<1> QED BY <1>3, <1>4, <1>5, <1>6, <1>7, <1>8 DEF Inv

LEMMA StopServingKeepsInv == ASSUME Inv, StopServing PROVE Inv'
  BY StopBeginKeepsInv DEF StopServing, Idle, Goto

LEMMA StopRemoveKeepsInv ==
  ASSUME Inv, NEW d \in dim, StopRemove(d) PROVE Inv'
<1>1. /\ owner.pc = "stop" /\ swept' = swept \cup {d.id}
      /\ IF d.id \in delayed
           THEN doomed' = doomed \cup {d.id} /\ dim' = dim
           ELSE dim' = dim \ {d} /\ doomed' = doomed
      /\ UNCHANGED <<services, lastServiceCreated, heap, adds, delayed, serverActive,
                     errorCode, owner, closing, up>>
  BY DEF StopRemove
<1>2. d.id \in 1..adds /\ adds \in 0..MaxAdds /\ owner.slot = 0
  BY <1>1, DimFacts DEF Inv, TypeOK, OwnerState
<1>3. dim' \subseteq dim /\ doomed \subseteq doomed' /\ \A e \in dim : e.id # d.id => e \in dim'
  BY <1>1
<1>4. \A j \in Slots : (Valid(j)' <=> Valid(j)) /\ (Held(j)' <=> Held(j))
  BY <1>1 DEF Valid, Held
<1>5. TypeOK'
  <2>1. doomed' \subseteq delayed'
    BY <1>1 DEF Inv, TypeOK
  <2>2. delayed' \subseteq Declared'
    <3> SUFFICES ASSUME NEW x \in delayed PROVE x \in Declared'
      BY <1>1
    <3>1. PICK e \in dim : e.id = x
      BY DEF Inv, TypeOK, Declared
    <3>2. e \in dim'
      BY <1>1, <3>1
    <3> QED BY <3>1, <3>2 DEF Declared
  <2>3. swept' \subseteq 1..MaxAdds
    <3>1. d.id \in 1..MaxAdds
      BY <1>2
    <3> QED BY <1>1, <3>1 DEF Inv, TypeOK
  <2>4. UNCHANGED <<services, lastServiceCreated, heap, adds, serverActive, errorCode,
                    owner, closing, up>> /\ dim' \subseteq Service
    BY <1>1, <1>3 DEF Inv, TypeOK
  <2> QED BY <2>1, <2>2, <2>3, <2>4 DEF Inv, TypeOK
<1>6. ElementZero' /\ OwnBlocks' /\ DelayedSent' /\ Closed'
  BY <1>1, <1>4 DEF Inv, ElementZero, OwnBlocks, DelayedSent, Closed
<1>7. OwnerState'
  BY <1>1, <1>2 DEF OwnerState
<1>8. Numbered'
  BY <1>1, <1>2, <1>3 DEF Inv, Numbered
<1>9. SlotsDeclared'
  BY <1>1, <1>3, <1>4 DEF Inv, SlotsDeclared
<1>10. ServicesOwned'
  BY <1>1, <1>3, <1>4 DEF Inv, ServicesOwned
<1>11. NoLeak'
  BY <1>1, <1>4 DEF Inv, NoLeak
<1> QED BY <1>5, <1>6, <1>7, <1>8, <1>9, <1>10, <1>11 DEF Inv

LEMMA StopEndKeepsInv ==
  ASSUME Inv, StopEnd PROVE Inv'
<1>1. /\ owner.pc = "stop" /\ dim = {} /\ owner' = [pc |-> "idle", slot |-> 0]
      /\ UNCHANGED <<services, lastServiceCreated, heap, adds, dim, delayed, doomed,
                     serverActive, errorCode, closing, swept, up>>
  BY DEF StopEnd, Goto
<1>2. owner'.pc = "idle" /\ owner'.slot = 0 /\ owner.slot = 0
  BY <1>1 DEF Inv, OwnerState
<1>3. \A j \in Slots : (Valid(j)' <=> Valid(j)) /\ (Held(j)' <=> Held(j))
  BY <1>1, <1>2 DEF Valid, Held
<1>4. TypeOK'
  <2>1. owner' \in [pc : {"idle", "declare", "undeclare", "free", "stop"}, slot : Slots]
    BY <1>1, Indexes
  <2> QED BY <1>1, <2>1 DEF Inv, TypeOK, Declared
<1>5. ElementZero' /\ OwnerState' /\ Numbered' /\ DelayedSent' /\ Closed'
  BY <1>1, <1>2, <1>3 DEF Inv, ElementZero, OwnerState, Numbered, DelayedSent, Closed
<1>6. OwnBlocks' /\ SlotsDeclared' /\ ServicesOwned'
  BY <1>1, <1>3 DEF Inv, OwnBlocks, SlotsDeclared, ServicesOwned
<1>7. NoLeak'
  <2>1. heap' = {services'[j].buffer : j \in {k \in Slots : Held(k)'}}
    BY <1>1, <1>3 DEF Inv, NoLeak
  <2>2. ASSUME closing' = MAXSERVICES + 1 PROVE heap' = {}
    <3>1. \A j \in Slots : ~Valid(j)
      BY <1>1, <2>2 DEF Inv, Closed, Slots
    <3>2. \A j \in Slots : ~Held(j)'
      BY <1>1, <1>3, <3>1 DEF Held
    <3> QED BY <2>1, <3>2
  <2> QED BY <1>1, <2>1, <2>2 DEF NoLeak
<1> QED BY <1>4, <1>5, <1>6, <1>7 DEF Inv

(* A step of deinitMyLib from one element to the next.                     *)
LEMMA CloseKeepsInv ==
  ASSUME Inv, closing' \in -1..MAXSERVICES,
         \A j \in Slots : j < closing' => ~Valid(j),
         UNCHANGED <<services, lastServiceCreated, heap, adds, dim, delayed, doomed,
                     serverActive, errorCode, owner, swept, up>>
  PROVE  Inv'
<1>1. closing' # MAXSERVICES + 1
  OBVIOUS
<1> QED BY <1>1 DEF Inv, TypeOK, ElementZero, OwnerState, OwnBlocks, Numbered, DelayedSent,
                    Closed, SlotsDeclared, ServicesOwned, NoLeak, Valid, Held, Declared

LEMMA DeinitBeginKeepsInv == ASSUME Inv, DeinitBegin PROVE Inv'
<1>1. closing' \in -1..MAXSERVICES /\ \A j \in Slots : ~(j < closing')
  BY DEF DeinitBegin, Slots
<1> QED BY <1>1, CloseKeepsInv DEF DeinitBegin

LEMMA DeinitNextKeepsInv ==
  ASSUME Inv, DeinitNext PROVE Inv'
<1> DEFINE id == services[closing].my_serviceID
<1>1. closing \in Slots /\ closing' = closing + 1 /\ closing' \in -1..MAXSERVICES
  BY DEF DeinitNext, Slots
<1>2. \A j \in Slots : j < closing' => j < closing \/ j = closing
  BY <1>1 DEF Slots
<1>3. \A j \in Slots : j < closing => ~Valid(j)
  BY DEF Inv, Closed
<1>4. id \in Slots \cup {-1}
  BY <1>1 DEF Inv, TypeOK
<1>5. closing # 0 => id \in {closing, -1}
  BY <1>1 DEF Inv, ElementZero
<1>6. ~Valid(0)
  BY DEF Inv, ElementZero, Valid
<1>7. CASE id # -1 /\ Valid(id)
  <2>1. RemoveBegin(id)
    BY <1>7 DEF DeinitNext
  <2>2. PICK k \in Slots : k = id /\ RemoveBegin(k)
    BY <1>4, <1>7, <2>1
  <2>3. ~Valid(k)' /\ \A j \in Slots \ {k} : Valid(j)' <=> Valid(j)
    <3>1. services' = [services EXCEPT ![k].my_serviceID = -1]
      BY <2>2 DEF RemoveBegin
    <3>2. /\ services'[k].my_serviceID = -1
          /\ \A j \in Slots \ {k} : services'[j] = services[j]
      BY <3>1 DEF Inv, TypeOK
    <3> QED BY <3>2, Indexes DEF Valid
  <2>4. closing # 0 => k = closing
    BY <1>5, <1>7, <2>2
  <2>5. \A j \in Slots : j < closing' => ~Valid(j)'
    BY <1>2, <1>3, <1>6, <2>3, <2>4
  <2> QED BY <1>1, <2>2, <2>5, RemoveBeginKeepsInv
<1>8. CASE ~(id # -1 /\ Valid(id))
  <2>1. ~Valid(closing)
    BY <1>1, <1>4, <1>5, <1>6, <1>8, Indexes DEF Valid
  <2>2. \A j \in Slots : j < closing' => ~Valid(j)
    BY <1>2, <1>3, <2>1
  <2> QED BY <1>1, <1>8, <2>2, CloseKeepsInv DEF DeinitNext
<1> QED BY <1>7, <1>8

LEMMA DeinitStopKeepsInv == ASSUME Inv, DeinitStop PROVE Inv'
  BY StopBeginKeepsInv DEF DeinitStop, Goto

-----------------------------------------------------------------------------
(* disUpdateService                                                        *)

(* Most of its steps change only where it is.                              *)
LEMMA UpdateGotoKeepsInv ==
  ASSUME Inv, NEW u \in Updaters, NEW from, NEW update \in Update,
         UpdateGoto(u, from, update), from # "sending",
         UNCHANGED <<dim, delayed, doomed>>
  PROVE  Inv'
<1>1. /\ up' = [up EXCEPT ![u] = update] /\ up[u].pc # "sending"
      /\ UNCHANGED <<services, lastServiceCreated, heap, adds, serverActive,
                     errorCode, owner, closing, swept, dim, delayed, doomed>>
  BY DEF UpdateGoto
<1>2. up' \in [Updaters -> Update]
  BY <1>1 DEF Inv, TypeOK, Update
<1>3. \A v \in Updaters : up[v].pc = "sending" => up'[v] = up[v]
  BY <1>1 DEF Inv, TypeOK
<1>4. TypeOK'
  <2>1. Declared' = Declared
    BY <1>1 DEF Declared
  <2> QED BY <1>1, <1>2, <2>1 DEF Inv, TypeOK, Update
<1>5. ElementZero' /\ OwnerState' /\ OwnBlocks' /\ Numbered' /\ Closed' /\ SlotsDeclared' /\ NoLeak'
  BY <1>1, SameServices
<1>6. DelayedSent' /\ ServicesOwned'
  BY <1>1, <1>3 DEF Inv, DelayedSent, ServicesOwned, Valid
<1> QED BY <1>4, <1>5, <1>6 DEF Inv

LEMMA UpdateLooksKeepsInv ==
  ASSUME Inv, NEW u \in Updaters,
         \/ \E i \in Slots : UpdateCheck(u, i)
         \/ UpdateCopy(u) \/ UpdateNotify(u) \/ UpdateGone(u) \/ UpdateUnknown(u)
  PROVE  Inv'
<1>1. NoUpdate \in Update
  BY Indexes DEF NoUpdate, Update
<1>8. up[u] \in Update
  BY DEF Update, Inv, TypeOK
<1>9. services[up[u].slot].serviceId \in 0..MaxAdds
  BY <1>8 DEF Update, Inv, TypeOK
<1>2. ASSUME NEW i \in Slots, UpdateCheck(u, i) PROVE Inv'
  <2>1. [NoUpdate EXCEPT !.pc = "check", !.slot = i] \in Update
    BY <1>1 DEF Update
  <2> QED BY <1>2, <2>1, UpdateGotoKeepsInv DEF UpdateCheck
<1>3. CASE UpdateCopy(u)
  <2>1. [up[u] EXCEPT !.pc = "copied"] \in Update
    BY <1>8 DEF Update
  <2> QED BY <1>3, <2>1, UpdateGotoKeepsInv DEF UpdateCopy
<1>4. CASE UpdateNotify(u)
  <2>1. [up[u] EXCEPT !.pc = "notify", !.id = services[up[u].slot].serviceId] \in Update
    BY <1>8, <1>9 DEF Update
  <2> QED BY <1>4, <2>1, UpdateGotoKeepsInv DEF UpdateNotify
<1>5. CASE UpdateGone(u) \/ UpdateUnknown(u)
  BY <1>1, <1>5, UpdateGotoKeepsInv DEF UpdateGone, UpdateUnknown
<1> QED BY <1>2, <1>3, <1>4, <1>5

LEMMA UpdateSendKeepsInv ==
  ASSUME Inv, NEW u \in Updaters, UpdateSend(u) PROVE Inv'
<1>1. /\ up' = [up EXCEPT ![u] = [up[u] EXCEPT !.pc = "sending"]] /\ up[u].pc = "notify"
      /\ up[u].id \in Declared /\ delayed' = delayed \cup {up[u].id}
      /\ UNCHANGED <<services, lastServiceCreated, heap, adds, serverActive,
                     errorCode, owner, closing, swept, dim, doomed>>
  BY DEF UpdateSend, UpdateGoto
<1>2. up' \in [Updaters -> Update]
  BY <1>1 DEF Inv, TypeOK, Update
<1>3. /\ up'[u].pc = "sending" /\ up'[u].id = up[u].id
      /\ \A v \in Updaters \ {u} : up'[v] = up[v]
  BY <1>1 DEF Inv, TypeOK
<1>4. TypeOK'
  <2>1. delayed' \subseteq Declared' /\ doomed' \subseteq delayed'
    BY <1>1 DEF Inv, TypeOK, Declared
  <2> QED BY <1>1, <1>2, <2>1 DEF Inv, TypeOK, Update
<1>5. ElementZero' /\ OwnerState' /\ OwnBlocks' /\ Numbered' /\ Closed' /\ SlotsDeclared' /\ NoLeak'
  BY <1>1, SameServices
<1>6. DelayedSent'
  BY <1>1, <1>3 DEF Inv, DelayedSent
<1>7. ServicesOwned'
  BY <1>1, <1>3 DEF Inv, ServicesOwned, Valid
<1> QED BY <1>4, <1>5, <1>6, <1>7 DEF Inv

LEMMA UpdateEndKeepsInv ==
  ASSUME Inv, NEW u \in Updaters, UpdateEnd(u) PROVE Inv'
<1> DEFINE id == up[u].id
<1>1. /\ up' = [up EXCEPT ![u] = NoUpdate] /\ up[u].pc = "sending"
      /\ delayed' = delayed \ {id} /\ doomed' = doomed \ {id}
      /\ dim' = {d \in dim : d.id = id => d.id \notin doomed}
      /\ UNCHANGED <<services, lastServiceCreated, heap, adds, serverActive,
                     errorCode, owner, closing, swept>>
  BY DEF UpdateEnd, UpdateGoto
<1>2. up' \in [Updaters -> Update]
  BY <1>1, Indexes DEF Inv, TypeOK, Update, NoUpdate
<1>3. \A v \in Updaters \ {u} : up'[v] = up[v]
  BY <1>1 DEF Inv, TypeOK
<1>4. dim' \subseteq dim /\ \A d \in dim : d.id \notin doomed => d \in dim'
  BY <1>1
<1>5. TypeOK'
  <2>1. doomed' \subseteq delayed'
    BY <1>1 DEF Inv, TypeOK
  <2>2. delayed' \subseteq Declared'
    <3> SUFFICES ASSUME NEW x \in delayed, x # id PROVE x \in Declared'
      BY <1>1
    <3>1. PICK d \in dim : d.id = x
      BY DEF Inv, TypeOK, Declared
    <3>2. d \in dim'
      BY <1>1, <3>1
    <3> QED BY <3>1, <3>2 DEF Declared
  <2> QED BY <1>1, <1>2, <1>4, <2>1, <2>2 DEF Inv, TypeOK, Update
<1>6. ElementZero' /\ OwnBlocks' /\ Closed' /\ NoLeak'
  <2>1. dim = {} => dim' = {}
    BY <1>4
  <2> QED BY <1>1, <2>1 DEF Inv, ElementZero, OwnBlocks, Closed, NoLeak, Valid, Held
<1>7. OwnerState'
  <2>1. Declared' \subseteq Declared /\ \A x : x \notin Declared \ doomed => x \notin Declared' \ doomed'
    BY <1>1 DEF Declared
  <2> QED BY <1>1, <2>1 DEF Inv, OwnerState, Valid
<1>8. Numbered'
  BY <1>1, <1>4 DEF Inv, Numbered
<1>9. DelayedSent'
  <2> SUFFICES ASSUME NEW x \in delayed, x # id
               PROVE  \E v \in Updaters : up'[v].pc = "sending" /\ up'[v].id = x
    BY <1>1 DEF DelayedSent
  <2>1. PICK v \in Updaters : up[v].pc = "sending" /\ up[v].id = x
    BY DEF Inv, DelayedSent
  <2> QED BY <1>3, <2>1
<1>10. SlotsDeclared'
  <2>1. \A i \in Slots : Valid(i)' <=> Valid(i)
    BY <1>1 DEF Valid
  <2> QED BY <1>1, <1>4, <2>1 DEF Inv, SlotsDeclared
<1>11. ServicesOwned'
  <2> SUFFICES ASSUME NEW d \in dim'
        PROVE  \/ \E i \in Slots : services[i].serviceId = d.id /\ (Valid(i) \/ owner.slot = i)
               \/ d.id \in doomed' /\ \E v \in Updaters : up'[v].pc = "sending" /\ up'[v].id = d.id
    BY <1>1 DEF ServicesOwned, Valid
  <2>1. CASE d.id \in doomed
    <3>1. d.id # id /\ d.id \in doomed'
      BY <1>1, <2>1
    <3>2. PICK v \in Updaters : up[v].pc = "sending" /\ up[v].id = d.id
      BY <2>1, DimFacts DEF Inv, DelayedSent
    <3>3. v # u
      BY <3>1, <3>2
    <3> QED BY <1>3, <3>1, <3>2, <3>3
  <2>2. CASE d.id \notin doomed
    BY <1>4, <2>2 DEF Inv, ServicesOwned
  <2> QED BY <2>1, <2>2
<1> QED BY <1>5, <1>6, <1>7, <1>8, <1>9, <1>10, <1>11 DEF Inv

-----------------------------------------------------------------------------
(* The end of the server, and the whole.                                   *)

LEMMA OthersKeepInv ==
  ASSUME Inv, serverActive' \in BOOLEAN, errorCode' \in Int,
         UNCHANGED <<services, lastServiceCreated, heap, adds, dim, delayed, doomed, owner,
                     closing, swept, up>>
  PROVE  Inv'
<1>1. TypeOK'
  BY SameServices DEF Inv, TypeOK
<1>2. DelayedSent' /\ ServicesOwned'
  BY DEF Inv, DelayedSent, ServicesOwned, Valid
<1> QED BY <1>1, <1>2, SameServices DEF Inv

LEMMA ExitKeepsInv ==
  ASSUME Inv, NEW code \in Int, Exit(code) PROVE Inv'
<1>1. serverActive' \in BOOLEAN
  BY Zenon DEF Exit
<1>2. errorCode' \in Int
  BY DEF Exit
<1> QED BY <1>1, <1>2, OthersKeepInv DEF Exit

LEMMA NextKeepsInv == Inv /\ [Next]_vars => Inv'
<1> SUFFICES ASSUME Inv, [Next]_vars PROVE Inv'
  OBVIOUS
<1>1. CASE AddNoMemory \/ AddDeclare \/ \E name \in Names : AddService(name)
  BY <1>1, AddNoMemoryKeepsInv, AddDeclareKeepsInv, AddServiceKeepsInv
<1>2. CASE RemoveUndeclare \/ RemoveFree \/ \E i \in Slots : RemoveService(i)
  BY <1>2, RemoveUndeclareKeepsInv, RemoveFreeKeepsInv, RemoveServiceKeepsInv
<1>3. CASE StopServing \/ StopEnd \/ \E d \in dim : StopRemove(d)
  BY <1>3, StopServingKeepsInv, StopEndKeepsInv, StopRemoveKeepsInv
<1>4. CASE DeinitBegin \/ DeinitNext \/ DeinitStop
  BY <1>4, DeinitBeginKeepsInv, DeinitNextKeepsInv, DeinitStopKeepsInv
<1>5. ASSUME NEW u \in Updaters,
             \/ \E i \in Slots : UpdateCheck(u, i)
             \/ UpdateCopy(u) \/ UpdateNotify(u)
             \/ UpdateGone(u) \/ UpdateUnknown(u) \/ UpdateSend(u) \/ UpdateEnd(u)
      PROVE  Inv'
  BY <1>5, UpdateLooksKeepsInv, UpdateSendKeepsInv, UpdateEndKeepsInv
<1>6. ASSUME NEW code \in ExitCodes, ExitCommand(code) PROVE Inv'
  BY <1>6, ExitKeepsInv DEF ExitCommand
<1>7. ASSUME NEW code \in ExitCodes \cup {-1}, NameServerExit(code) PROVE Inv'
  BY <1>7, ExitKeepsInv DEF NameServerExit, FatalError
<1>8. CASE UNCHANGED vars
  BY <1>8, OthersKeepInv DEF vars, Inv, TypeOK
<1> QED BY <1>1, <1>2, <1>3, <1>4, <1>5, <1>6, <1>7, <1>8 DEF Next

(* The inductive invariant of the wrapper's services.                      *)
THEOREM RegistryInvariance == Spec => []Inv
  BY InitInv, NextKeepsInv, PTL DEF Spec

(* Every variable keeps its type; what DIM has marked it has.              *)
THEOREM RegistryTypeCorrect == Spec => []TypeOK
<1>1. Inv => TypeOK
  BY DEF Inv
<1> QED BY <1>1, RegistryInvariance, PTL

(* An element that disUpdateService finds valid has the service in DIM     *)
(* that disAddService declared for it, and no other element has.           *)
THEOREM ElementsAreDeclared == Spec => []SlotsDeclared
<1>1. Inv => SlotsDeclared
  BY DEF Inv
<1> QED BY <1>1, RegistryInvariance, PTL

(* No service of DIM is one nobody can update or remove any more.          *)
THEOREM ServicesAreOwned == Spec => []ServicesOwned
<1>1. Inv => ServicesOwned
  BY DEF Inv
<1> QED BY <1>1, RegistryInvariance, PTL

(* No block of memory is lost, and none is left by deinitMyLib.            *)
THEOREM MemoryIsFreed == Spec => []NoLeak
<1>1. Inv => NoLeak
  BY DEF Inv
<1> QED BY <1>1, RegistryInvariance, PTL

(* DIM reads no buffer that is freed, but those of services whose removal  *)
(* it has put off.                                                         *)
THEOREM BuffersStay == Spec => []DeclaredHasBuffer
<1>1. Inv => DeclaredHasBuffer
  <2> SUFFICES ASSUME Inv, NEW d \in dim, d.id \notin doomed PROVE d.buffer \in heap
    BY DEF DeclaredHasBuffer
  <2>1. PICK i \in Slots : services[i].serviceId = d.id /\ (Valid(i) \/ owner.slot = i)
    BY DEF Inv, ServicesOwned
  <2>2. services[i].serviceId # 0 /\ d.buffer = d.id
    BY <2>1, DimFacts
  <2>3. Held(i) /\ services[i].buffer = d.buffer
    BY <2>1, <2>2 DEF Inv, OwnBlocks
  <2> QED BY <2>3 DEF Inv, NoLeak
<1> QED BY <1>1, RegistryInvariance, PTL
=============================================================================
