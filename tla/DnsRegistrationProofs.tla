------------------------ MODULE DnsRegistrationProofs ------------------------
(***************************************************************************)
(* What the name server knows, whether clients can connect, and that no    *)
(* service goes that the application has not taken back, for any number of *)
(* services, standard services, failures and updates.                      *)
(*                                                                         *)
(* The invariant has three layers.  Counted: the two counters that         *)
(* register_services and the automatic stop go by are right.  Informed:    *)
(* what has been said to the name server and is still on its way amounts   *)
(* to the hash table.  Stopping: where the two threads can be in stopping, *)
(* and what of the state is already taken down there.                      *)
(***************************************************************************)
EXTENDS DnsRegistration, FiniteSetTheorems, WellFoundedInduction, TLAPS

(* Every service has a number that was given out; there are as many as     *)
(* dis_n_services says, and Service_new_entries is never too small for     *)
(* register_services to find those that are not registered.                *)
Counted ==
  /\ table \subseteq 1..ids
  /\ nServices = Cardinality(table)
  /\ newEntries <= ids
  /\ Cardinality(table \ registered) <= newEntries

(* After the packet i is one that does op to s.                            *)
Queued(op, s, i) == \E k \in DOMAIN outbox : k > i /\ outbox[k].op = op /\ s \in outbox[k].ids

(* Nothing that is in the table is about to be unregistered; over a        *)
(* connection, what is registered is known or on its way, and what is not  *)
(* in the table any more but known, or on its way, is unregistered later.  *)
Informed ==
  /\ asks \/ known # {} => conn = "up"
  /\ \A k \in DOMAIN outbox :
       /\ outbox[k].ids \subseteq 1..ids
       /\ outbox[k].op = "remove" => outbox[k].ids \cap table = {}
  /\ conn = "up" =>
       /\ announced \subseteq registered
       /\ ~asks => \A s \in registered : s \in known \/ Queued("add", s, 0)
       /\ \A s \in known \ table : Queued("remove", s, 0)
       /\ \A k \in DOMAIN outbox : outbox[k].op = "add" =>
            \A s \in outbox[k].ids \ table : Queued("remove", s, k)

pc(t) == proc[t].pc
Down  == {"close", "pick", "remove", "clean", "dns"}
Calm  == \A t \in Threads : proc[t] = Idle

Places ==
  /\ \A t \in Threads : pc(t) = "idle" => proc[t] = Idle
  /\ \A t \in Threads : pc(t) \in Down => ~serving
  /\ pc("update") \in {"idle", "stop"} \/ ~serving
  /\ pc("update") = "idle" \/ pc("app") \notin Down \cup {"stop"}
  /\ pc("update") \in {"stop", "close"} => nServices = StdServices
  /\ pc("app") = "stop" => nServices <= StdServices
  /\ \A t \in Threads : pc(t) \in {"clean", "dns", "end"} => table = {}

Stopping ==
  /\ firstTime \/ port \/ ~Calm
  /\ dnsFirstTime \/ serving \/ \E t \in Threads : pc(t) \in Down \ {"dns"}
  /\ conn = "up" => serving \/ \E t \in Threads : pc(t) = "close"
  /\ conn = "up" => watchdog = "set" \/ lapsed

Kept ==
  /\ wanted \subseteq table
  /\ wanted \cap doomed = {}
  /\ ~Calm => wanted = {}
  /\ Calm /\ serving => Cardinality(wanted \cup doomed) + StdServices <= nServices
  /\ pc("app") # "idle" /\ serving /\ (\A t \in Threads : pc(t) # "stop") =>
       nServices > StdServices

Inv == TypeOK /\ Counted /\ Informed /\ Places /\ Stopping /\ (Kept \/ lapsed)

-----------------------------------------------------------------------------
(* Sets of services.                                                       *)

LEMMA Numbered ==
  ASSUME NEW n \in Nat, NEW S, S \subseteq 1..n
  PROVE  IsFiniteSet(S) /\ Cardinality(S) \in 0..n
<1>1. IsFiniteSet(1..n) /\ Cardinality(1..n) = n
  BY FS_Interval
<1>2. IsFiniteSet(S) /\ Cardinality(S) <= n
  BY <1>1, FS_Subset
<1> QED BY <1>2, FS_CardinalityType

LEMMA FirstIsMember ==
  ASSUME NEW S, S \subseteq Nat, S # {}
  PROVE  First(S) \in S
<1>1. PICK x \in S : \A y \in S : ~(<<y, x>> \in OpToRel(<, Nat))
  BY NatLessThanWellFounded, WFMin, Zenon
<1>2. \A y \in S : ~(y < x)
  BY <1>1, Zenon DEF OpToRel
<1>3. \A y \in S : x <= y
  BY <1>2
<1> QED BY <1>3 DEF First

(* With a count that is not too small nothing new is missed.               *)
LEMMA RegisterMoreFindsAll ==
  ASSUME NEW tbl, tbl \subseteq Nat, IsFiniteSet(tbl), registered \subseteq tbl,
         NEW new \in Nat, Cardinality(tbl \ registered) <= new,
         RegisterMore(tbl, new)
  PROVE  /\ registered' = tbl
         /\ newEntries' \in 0..new
         /\ outbox' = Packet("add", tbl \ registered)
<1> DEFINE missing == tbl \ registered
           s == {x \in missing : Cardinality({y \in missing : y < x}) < new}
<1>1. IsFiniteSet(missing) /\ Cardinality(missing) \in Nat
  BY FS_Subset, FS_CardinalityType
<1>2. ASSUME NEW x \in missing PROVE Cardinality({y \in missing : y < x}) < new
  <2> DEFINE below == {y \in missing : y < x}
  <2>1. below \subseteq missing \ {x}
    OBVIOUS
  <2>2. IsFiniteSet(missing \ {x}) /\ Cardinality(missing \ {x}) = Cardinality(missing) - 1
    BY <1>1, FS_RemoveElement
  <2>3. IsFiniteSet(below) /\ Cardinality(below) <= Cardinality(missing \ {x})
    BY <2>1, <2>2, FS_Subset
  <2>4. Cardinality(below) \in Nat
    BY <2>3, FS_CardinalityType
  <2> QED BY <1>1, <2>2, <2>3, <2>4
<1>3. s = missing
  BY <1>2
<1>4. /\ registered' = registered \cup s
      /\ newEntries' = Minus(new, Cardinality(s))
      /\ outbox' = Packet("add", s)
  BY DEF RegisterMore
<1>5. Cardinality(s) = Cardinality(missing) /\ outbox' = Packet("add", missing)
  BY <1>3, <1>4, Zenon
<1>6. newEntries' \in 0..new
  BY <1>1, <1>4, <1>5 DEF Minus
<1> QED BY <1>3, <1>4, <1>5, <1>6

-----------------------------------------------------------------------------
(* Types and counters.                                                     *)

LEMMA PacketType ==
  ASSUME outbox \in Seq(Packets), NEW op \in {"add", "remove"}, NEW s, s \subseteq IDs
  PROVE  Packet(op, s) \in Seq(Packets)
<1>1. [op |-> op, ids |-> s] \in Packets
  BY DEF Packets
<1>2. Append(outbox, [op |-> op, ids |-> s]) \in Seq(Packets)
  BY <1>1
<1> QED BY <1>2 DEF Packet

LEMMA CountedNow ==
  ASSUME TypeOK, Counted
  PROVE  /\ ids \in Nat /\ MaxIDs \in Nat /\ StdServices \in Nat \ {0} /\ newEntries \in Nat
         /\ table \subseteq Nat /\ IsFiniteSet(table) /\ nServices \in 0..ids
         /\ IsFiniteSet(table \ registered) /\ Cardinality(table \ registered) \in Nat
<1>1. ids \in Nat /\ MaxIDs \in Nat /\ StdServices \in Nat \ {0} /\ newEntries \in Nat
  BY DnsRegistrationAssumption DEF TypeOK, ServicesOK
<1>2. IsFiniteSet(table) /\ nServices \in 0..ids
  BY <1>1, Numbered DEF Counted
<1> QED BY <1>1, <1>2, FS_Subset, FS_CardinalityType DEF Counted

LEMMA TypesInit == Init => TypeOK /\ Counted
<1> SUFFICES ASSUME Init PROVE TypeOK /\ Counted
  OBVIOUS
<1>1. Cardinality({}) = 0
  BY FS_EmptySet
<1>2. proc \in [Threads -> Positions]
  BY DEF Init, Idle, Positions, PCs
<1>3. outbox \in Seq(Packets)
  BY DEF Init
<1>4. TypeOK
  <2>1. ServicesOK
    BY DnsRegistrationAssumption DEF Init, ServicesOK
  <2>2. FlagsOK
    BY Zenon DEF Init, FlagsOK
  <2> QED BY <1>2, <1>3, <2>1, <2>2 DEF Init, TypeOK
<1>5. table \ registered = table
  BY DEF Init
<1>6. Cardinality(table) = 0 /\ Cardinality(table \ registered) = 0
  BY <1>1, <1>5, Zenon DEF Init
<1> QED BY <1>4, <1>6 DEF Init, Counted

(* Adding n services.                                                      *)
LEMMA AddCounts ==
  ASSUME TypeOK, Counted, NEW n \in Nat, NEW new, new = (ids + 1)..(ids + n)
  PROVE  /\ table \cup new \subseteq 1..(ids + n) /\ table \cap new = {}
         /\ IsFiniteSet(table \cup new)
         /\ Cardinality(table \cup new) = nServices + n
         /\ Cardinality((table \cup new) \ registered) = Cardinality(table \ registered) + n
<1>1. /\ ids \in Nat /\ table \subseteq 1..ids /\ registered \subseteq table
      /\ IsFiniteSet(table) /\ nServices = Cardinality(table) /\ nServices \in Nat
      /\ IsFiniteSet(table \ registered) /\ Cardinality(table \ registered) \in Nat
  <2>1. registered \subseteq table
    BY DEF TypeOK, ServicesOK
  <2>2. table \subseteq 1..ids /\ nServices = Cardinality(table)
    BY DEF Counted
  <2> QED BY <2>1, <2>2, CountedNow
<1>2. /\ table \cup new \subseteq 1..(ids + n)
      /\ table \cap new = {} /\ (table \ registered) \cap new = {}
      /\ (table \cup new) \ registered = (table \ registered) \cup new
  BY <1>1
<1>3. IsFiniteSet(new) /\ Cardinality(new) = n
  BY <1>1, FS_Interval
<1>4. Cardinality({}) = 0
  BY FS_EmptySet
<1>5. /\ IsFiniteSet(table \cup new)
      /\ Cardinality(table \cup new) = Cardinality(table) + Cardinality(new) - Cardinality({})
  BY <1>1, <1>2, <1>3, FS_Union
<1>6. Cardinality((table \ registered) \cup new)
        = Cardinality(table \ registered) + Cardinality(new) - Cardinality({})
  BY <1>1, <1>2, <1>3, FS_Union
<1>7. Cardinality((table \cup new) \ registered) = Cardinality((table \ registered) \cup new)
  BY <1>2, Zenon
<1> QED BY <1>1, <1>2, <1>3, <1>4, <1>5, <1>6, <1>7

(* A step that leaves the table and its counters alone.                    *)
LEMMA SameCounts ==
  ASSUME TypeOK, Counted, UNCHANGED <<tableVars, ids, announced>>,
         known' \subseteq IDs, breaks' \in 0..MaxBreaks, wanted' \subseteq wanted
  PROVE  ServicesOK' /\ Counted'
<1>1. ServicesOK'
  BY DEF TypeOK, ServicesOK, tableVars
<1>2. Cardinality(table)' = Cardinality(table) /\ Cardinality(table \ registered)' = Cardinality(table \ registered)
  BY Zenon DEF tableVars
<1> QED BY <1>1, <1>2 DEF Counted, tableVars

LEMMA GotoType ==
  ASSUME TypeOK, NEW t \in Threads, NEW next \in PCs, Goto(t, next)
  PROVE  proc' \in [Threads -> Positions]
<1>1. [pc |-> next, servp |-> 0] \in Positions
  BY DEF Positions
<1> QED BY <1>1 DEF Goto, TypeOK

LEMMA WithdrawCounts ==
  ASSUME TypeOK, Counted, NEW t \in Threads, NEW s \in IDs \cup {0}, NEW next \in PCs,
         Withdraw(t, s, next), updating \ {s} \subseteq updating', updating' \subseteq updating,
         UNCHANGED <<newEntries, ids, breaks, known>>, wanted' \subseteq wanted
  PROVE  /\ ServicesOK' /\ Counted'
         /\ outbox' \in Seq(Packets)
         /\ proc' \in [Threads -> Positions]
<1>1. CASE s \notin table \/ s \in updating'
  <2>1. /\ doomed' = (doomed \cup {s}) \cap updating' /\ Goto(t, next)
        /\ UNCHANGED <<table, registered, nServices, port, outbox, announced>>
    BY <1>1 DEF Withdraw
  <2>2. ServicesOK'
    BY <2>1 DEF TypeOK, ServicesOK
  <2>3. Counted'
    BY <2>1 DEF Counted
  <2> QED BY <2>1, <2>2, <2>3, GotoType DEF TypeOK
<1>2. CASE s \in table /\ s \notin updating'
  <2>1. /\ doomed' = doomed \ {s} /\ outbox' = Packet("remove", {s})
        /\ table' = table \ {s} /\ registered' = registered \ {s}
        /\ announced' = announced \ {s} /\ nServices' = nServices - 1
        /\ Goto(t, "stop") \/ Goto(t, next)
    BY <1>2, Zenon DEF Withdraw
  <2>2. Cardinality(table \ {s}) = Cardinality(table) - 1 /\ nServices \in 0..ids
    BY <1>2, CountedNow, FS_RemoveElement
  <2>3. /\ IsFiniteSet((table \ registered) \ {s})
        /\ Cardinality((table \ registered) \ {s}) <= Cardinality(table \ registered)
    BY CountedNow, FS_RemoveElement
  <2>4. table' \ registered' = (table \ registered) \ {s}
    BY <2>1
  <2>5. /\ Cardinality(table)' = Cardinality(table \ {s})
        /\ Cardinality(table \ registered)' = Cardinality((table \ registered) \ {s})
    BY <2>1, <2>4, Zenon
  <2>6. IsFiniteSet(table \ {s}) /\ Cardinality(table \ {s}) \in Nat
    BY CountedNow, FS_RemoveElement, FS_CardinalityType
  <2>7. Cardinality((table \ registered) \ {s}) \in Nat
    BY <2>3, FS_CardinalityType
  <2>8. Counted'
    <3>1. /\ table' \subseteq 1..ids' /\ newEntries' <= ids'
          /\ Cardinality(table \ registered) <= newEntries
      BY <2>1 DEF Counted
    <3>2. nServices' = Cardinality(table \ {s})
      BY <2>1, <2>2, CountedNow DEF Counted
    <3>3. Cardinality((table \ registered) \ {s}) <= newEntries'
      BY <2>3, <2>7, <3>1, CountedNow
    <3> QED BY <2>5, <3>1, <3>2, <3>3 DEF Counted
  <2>9. ServicesOK'
    <3>1. nServices \in 0..MaxIDs /\ MaxIDs \in Nat
      BY CountedNow DEF TypeOK, ServicesOK
    <3>2. nServices' = nServices - 1 /\ nServices' = Cardinality(table \ {s})
      BY <2>1, <2>2 DEF Counted
    <3>3. nServices' \in 0..MaxIDs
      BY <2>6, <3>1, <3>2
    <3> QED BY <1>2, <2>1, <3>3 DEF TypeOK, ServicesOK
  <2>10. outbox' \in Seq(Packets)
    BY <1>2, <2>1, PacketType DEF TypeOK, ServicesOK
  <2>11. proc' \in [Threads -> Positions]
    BY <2>1, GotoType DEF PCs
  <2> QED BY <2>8, <2>9, <2>10, <2>11
<1> QED BY <1>1, <1>2

LEMMA RegisterAllCounts ==
  ASSUME TypeOK, Counted, RegisterAll,
         UNCHANGED <<table, updating, doomed, nServices, ids, breaks, known, wanted, announced>>
  PROVE  ServicesOK' /\ Counted' /\ outbox' \in Seq(Packets)
<1>1. /\ registered' = table /\ outbox' = Packet("add", table)
      /\ newEntries' = Minus(newEntries, Cardinality(table))
  BY DEF RegisterAll
<1>2. newEntries' \in 0..newEntries
  BY <1>1, CountedNow DEF Minus, Counted
<1>3. newEntries' <= ids /\ newEntries' \in 0..MaxIDs
  BY <1>2, CountedNow DEF Counted, TypeOK, ServicesOK
<1>4. table \ registered' = {}
  BY <1>1
<1>5. Cardinality(table \ registered)' = 0 /\ Cardinality(table)' = Cardinality(table)
  BY <1>4, FS_EmptySet, Zenon
<1>6. Counted'
  BY <1>2, <1>3, <1>5 DEF Counted
<1>7. ServicesOK'
  BY <1>1, <1>3 DEF TypeOK, ServicesOK
<1> QED BY <1>1, <1>6, <1>7, PacketType DEF TypeOK, ServicesOK

LEMMA AddServiceTypes ==
  ASSUME TypeOK, Counted, AddService
  PROVE  TypeOK' /\ Counted'
<1> DEFINE new == (ids + 1)..(ids + 1)
<1>1. /\ ids \in Nat /\ ids < MaxIDs /\ ids' = ids + 1 /\ MaxIDs \in Nat /\ newEntries \in Nat
      /\ newEntries' = newEntries + 1 /\ nServices' = nServices + 1
      /\ wanted' = wanted \cup {ids + 1}
      /\ UNCHANGED <<registered, updating, doomed, known, announced, breaks>>
  BY CountedNow DEF AddService, dnsVars
<1>2. new = {ids + 1}
  BY <1>1
<1>3. table' = table \cup new
  BY <1>1, <1>2 DEF AddService
<1>4. /\ table \cup new \subseteq 1..(ids + 1)
      /\ Cardinality(table \cup new) = nServices + 1
      /\ Cardinality((table \cup new) \ registered) = Cardinality(table \ registered) + 1
  BY AddCounts
<1>5. /\ Cardinality(table)' = nServices + 1
      /\ Cardinality(table \ registered)' = Cardinality(table \ registered) + 1
  BY <1>1, <1>3, <1>4, Zenon
<1>6. Cardinality(table \ registered) \in Nat /\ Cardinality(table \ registered) <= newEntries
      /\ newEntries <= ids /\ nServices \in 0..ids
  BY CountedNow DEF Counted
<1>7. Counted'
  BY <1>1, <1>3, <1>4, <1>5, <1>6 DEF Counted
<1>8. ServicesOK'
  BY <1>1, <1>3, <1>4, <1>6 DEF TypeOK, ServicesOK, IDs
<1>9. FlagsOK'
  BY Zenon DEF TypeOK, FlagsOK, AddService, serveVars, linkVars, dnsVars
<1> QED BY <1>7, <1>8, <1>9 DEF TypeOK, AddService, serveVars, linkVars

(* How many services StartServing adds.                                    *)
Added == IF dnsFirstTime THEN StdServices ELSE 0

LEMMA StartServingFinds ==
  ASSUME TypeOK, Counted, StartServing
  PROVE  /\ Added \in Nat /\ ids' = ids + Added /\ ids' \in 0..MaxIDs
         /\ table' = table \cup (ids + 1)..(ids + Added)
         /\ nServices' = nServices + Added /\ nServices' = Cardinality(table')
         /\ table' \subseteq 1..ids'
         /\ announced' = table'
         /\ UNCHANGED <<updating, doomed, watchdog, dnsVars, proc, wanted, lapsed>>
         /\ serving' = TRUE /\ Serving' = 1 /\ dnsFirstTime' = FALSE
         /\ firstTime' = FALSE /\ port' = (port \/ firstTime)
         /\ \/ /\ conn = "none" /\ conn' = "pending" /\ trying' = TRUE
               /\ newEntries' = newEntries + Added
               /\ Cardinality(table' \ registered') <= newEntries'
               /\ UNCHANGED <<registered, outbox>>
            \/ /\ conn # "none" /\ UNCHANGED <<conn, trying>>
               /\ registered' = table' /\ newEntries' \in 0..(newEntries + Added)
               /\ outbox' = Packet("add", table' \ registered)
<1>1. Added \in Nat /\ ids \in Nat /\ newEntries \in Nat /\ MaxIDs \in Nat
  BY CountedNow DEF Added
<1>2. /\ ids + Added <= MaxIDs /\ ids' = ids + Added
      /\ table' = table \cup (ids + 1)..(ids + Added)
      /\ nServices' = nServices + Added /\ announced' = table'
      /\ UNCHANGED <<updating, doomed, watchdog, dnsVars, proc, wanted, lapsed>>
      /\ serving' = TRUE /\ Serving' = 1 /\ dnsFirstTime' = FALSE
      /\ firstTime' = FALSE /\ port' = (port \/ firstTime)
      /\ \/ /\ conn = "none" /\ conn' = "pending" /\ trying' = TRUE
            /\ newEntries' = newEntries + Added
            /\ UNCHANGED <<registered, outbox>>
         \/ /\ conn # "none" /\ UNCHANGED <<conn, trying>>
            /\ RegisterMore(table', newEntries + Added)
  BY Zenon DEF StartServing, Added
<1> DEFINE new == (ids + 1)..(ids + Added)
<1>3. /\ table \cup new \subseteq 1..(ids + Added)
      /\ IsFiniteSet(table \cup new)
      /\ Cardinality(table \cup new) = nServices + Added
      /\ Cardinality((table \cup new) \ registered) = Cardinality(table \ registered) + Added
  BY <1>1, AddCounts
<1>4. /\ table' \subseteq 1..(ids + Added) /\ IsFiniteSet(table')
      /\ Cardinality(table') = nServices + Added
      /\ Cardinality(table' \ registered) = Cardinality(table \ registered) + Added
  BY <1>2, <1>3, Zenon
<1>5. Cardinality(table \ registered) \in Nat /\ Cardinality(table \ registered) <= newEntries
  BY CountedNow DEF Counted
<1>6. Cardinality(table' \ registered) <= newEntries + Added
  BY <1>1, <1>4, <1>5
<1>7. table' \subseteq Nat /\ registered \subseteq table' /\ newEntries + Added \in Nat
  BY <1>1, <1>2, <1>4 DEF TypeOK, ServicesOK
<1>8. RegisterMore(table', newEntries + Added) =>
        /\ registered' = table' /\ newEntries' \in 0..(newEntries + Added)
        /\ outbox' = Packet("add", table' \ registered)
  BY <1>4, <1>6, <1>7, RegisterMoreFindsAll
<1>9. ids' \in 0..MaxIDs /\ table' \subseteq 1..ids' /\ nServices' = Cardinality(table')
  BY <1>1, <1>2, <1>4
<1>10. UNCHANGED registered /\ newEntries' = newEntries + Added =>
         Cardinality(table' \ registered') <= newEntries'
  BY <1>6, Zenon
<1> QED BY <1>1, <1>2, <1>8, <1>9, <1>10, Zenon

LEMMA StartServingTypes ==
  ASSUME TypeOK, Counted, StartServing
  PROVE  TypeOK' /\ Counted'
<1>1. /\ ids \in Nat /\ Added \in Nat /\ newEntries \in Nat /\ newEntries <= ids
      /\ ids' = ids + Added /\ ids' \in 0..MaxIDs /\ MaxIDs \in Nat
      /\ table' \subseteq 1..ids' /\ table \subseteq table'
      /\ nServices' = Cardinality(table') /\ nServices' \in 0..ids'
  <2>1. ids' \in Nat /\ table' \subseteq 1..ids'
    BY StartServingFinds
  <2>2. Cardinality(table') \in 0..ids'
    BY <2>1, Numbered
  <2> QED BY <2>1, <2>2, CountedNow, StartServingFinds DEF Counted
<1>2. newEntries' \in 0..ids' /\ registered' \subseteq table'
      /\ Cardinality(table' \ registered') <= newEntries'
  <2>1. CASE conn = "none"
    <3>1. /\ newEntries' = newEntries + Added /\ registered' = registered
          /\ Cardinality(table' \ registered') <= newEntries'
      BY <2>1, StartServingFinds, Zenon
    <3> QED BY <1>1, <3>1 DEF TypeOK, ServicesOK
  <2>2. CASE conn # "none"
    <3>1. registered' = table' /\ newEntries' \in 0..(newEntries + Added)
      BY <2>2, StartServingFinds, Zenon
    <3>2. table' \ registered' = {}
      BY <3>1
    <3>3. Cardinality(table' \ registered') = 0
      BY <3>2, FS_EmptySet, Zenon
    <3> QED BY <1>1, <3>1, <3>3
  <2> QED BY <2>1, <2>2
<1>3. Counted'
  BY <1>1, <1>2 DEF Counted
<1>4. ServicesOK'
  <2>1. UNCHANGED <<updating, doomed, wanted, known, breaks>> /\ announced' = table'
    BY StartServingFinds DEF dnsVars
  <2> QED BY <1>1, <1>2, <2>1 DEF TypeOK, ServicesOK, IDs
<1>5. FlagsOK'
  BY StartServingFinds, Zenon DEF TypeOK, FlagsOK, dnsVars
<1>6. outbox' \in Seq(Packets)
  <2>1. \/ UNCHANGED outbox
        \/ outbox' = Packet("add", table' \ registered)
    BY StartServingFinds
  <2>2. table' \ registered \subseteq IDs
    BY <1>4 DEF ServicesOK
  <2> QED BY <2>1, <2>2, PacketType DEF TypeOK
<1>7. Serving' = 1 /\ conn' \in {conn, "pending"} /\ UNCHANGED <<watchdog, proc>>
  BY StartServingFinds, Zenon
<1> QED BY <1>3, <1>4, <1>5, <1>6, <1>7 DEF TypeOK

LEMMA RemoveServiceTypes ==
  ASSUME TypeOK, Counted, NEW s \in wanted, RemoveService(s)
  PROVE  TypeOK' /\ Counted'
<1>1. /\ Withdraw("app", s, "idle") /\ s \in IDs \cup {0}
      /\ UNCHANGED <<updating, newEntries, ids, breaks, known>> /\ wanted' \subseteq wanted
      /\ "app" \in Threads /\ "idle" \in PCs
  BY DEF RemoveService, removeUnchanged, dnsVars, TypeOK, ServicesOK, Threads, PCs
<1>2. ServicesOK' /\ Counted' /\ outbox' \in Seq(Packets) /\ proc' \in [Threads -> Positions]
  BY <1>1, WithdrawCounts
<1>3. port' \in BOOLEAN
  BY <1>1, Zenon DEF Withdraw, TypeOK, FlagsOK
<1>4. UNCHANGED <<serving, Serving, firstTime, dnsFirstTime, conn, trying, watchdog, asks, lapsed>>
  BY DEF RemoveService, removeUnchanged, linkVars, dnsVars
<1> QED BY <1>2, <1>3, <1>4 DEF TypeOK, FlagsOK

LEMMA StopRemoveTypes ==
  ASSUME TypeOK, Counted, NEW t \in Threads, NEW pick \in PCs, NEW remove,
         StopRemove(t, pick, remove)
  PROVE  TypeOK' /\ Counted'
<1>1. /\ Withdraw(t, proc[t].servp, pick) /\ proc[t].servp \in IDs \cup {0}
      /\ UNCHANGED <<updating, newEntries, ids, breaks, known, wanted>>
  BY DEF StopRemove, removeUnchanged, dnsVars, TypeOK, Positions
<1>2. ServicesOK' /\ Counted' /\ outbox' \in Seq(Packets) /\ proc' \in [Threads -> Positions]
  BY <1>1, WithdrawCounts
<1>3. port' \in BOOLEAN
  BY <1>1, Zenon DEF Withdraw, TypeOK, FlagsOK
<1>4. UNCHANGED <<serving, Serving, firstTime, dnsFirstTime, conn, trying, watchdog, asks, lapsed>>
  BY DEF StopRemove, removeUnchanged, linkVars, dnsVars
<1> QED BY <1>2, <1>3, <1>4 DEF TypeOK, FlagsOK

LEMMA UpdateEndTypes ==
  ASSUME TypeOK, Counted, NEW s \in updating, UpdateEnd(s)
  PROVE  TypeOK' /\ Counted'
<1>1. UNCHANGED <<serving, Serving, firstTime, dnsFirstTime, conn, trying, watchdog, asks, lapsed>>
  BY DEF UpdateEnd, removeUnchanged, linkVars, dnsVars
<1>2. /\ s \in IDs \cup {0} /\ updating' = updating \ {s}
      /\ UNCHANGED <<newEntries, ids, breaks, known, wanted>>
      /\ "update" \in Threads /\ "idle" \in PCs
  BY DEF UpdateEnd, removeUnchanged, dnsVars, TypeOK, ServicesOK, Threads, PCs
<1>3. CASE s \in doomed
  <2>1. Withdraw("update", s, "idle")
    BY <1>3 DEF UpdateEnd
  <2>2. ServicesOK' /\ Counted' /\ outbox' \in Seq(Packets) /\ proc' \in [Threads -> Positions]
    BY <1>2, <2>1, WithdrawCounts
  <2>3. port' \in BOOLEAN
    BY <2>1, Zenon DEF Withdraw, TypeOK, FlagsOK
  <2> QED BY <1>1, <2>2, <2>3 DEF TypeOK, FlagsOK
<1>4. CASE s \notin doomed
  <2>1. UNCHANGED <<table, registered, doomed, nServices, port, outbox, proc, announced>>
    BY <1>4 DEF UpdateEnd
  <2>2. Counted'
    BY <1>2, <2>1 DEF Counted
  <2>3. ServicesOK'
    BY <1>2, <1>4, <2>1 DEF TypeOK, ServicesOK
  <2> QED BY <1>1, <2>1, <2>2, <2>3 DEF TypeOK, FlagsOK
<1> QED BY <1>3, <1>4

LEMMA StopCleanTypes ==
  ASSUME TypeOK, Counted, NEW t \in Threads, StopClean(t), table = {}
  PROVE  TypeOK' /\ Counted'
<1>1. Cardinality(table) = 0
  BY FS_EmptySet
<1>2. /\ nServices' = 0 /\ nServices = 0
      /\ UNCHANGED <<table, registered, updating, doomed, newEntries, announced, ids, wanted,
                     known, breaks>>
  BY <1>1 DEF StopClean, dnsVars, appVars, Counted
<1>3. ServicesOK' /\ Counted'
  BY <1>2, SameCounts DEF tableVars, TypeOK, ServicesOK
<1>4. proc' \in [Threads -> Positions]
  BY GotoType DEF StopClean, PCs
<1>5. FlagsOK'
  BY Zenon DEF TypeOK, FlagsOK, StopClean, dnsVars, appVars
<1> QED BY <1>3, <1>4, <1>5 DEF TypeOK, StopClean

(* What the steps of stopping have in common that remove nothing.          *)
LEMMA MoveTypes ==
  ASSUME TypeOK, Counted, UNCHANGED <<tableVars, ids, breaks, announced, outbox>>,
         known' \in {known, {}}, wanted' \in {wanted, {}},
         Serving' \in {Serving, 0}, conn' \in {conn, "none"},
         watchdog' \in {watchdog, "none", "freed"},
         proc' \in [Threads -> Positions], FlagsOK'
  PROVE  TypeOK' /\ Counted'
<1>1. ServicesOK' /\ Counted'
  BY SameCounts DEF TypeOK, ServicesOK
<1> QED BY <1>1 DEF TypeOK

LEMMA PickType ==
  ASSUME TypeOK, NEW t \in Threads, NEW next \in PCs, Pick(t, next), table # {}
  PROVE  /\ proc' \in [Threads -> Positions]
         /\ proc' = [proc EXCEPT ![t] = [pc |-> next, servp |-> First(table)]]
<1>1. First(table) \in IDs
  <2>1. table \subseteq IDs /\ IDs \subseteq Nat
    BY DEF TypeOK, ServicesOK, IDs
  <2>2. First(table) \in table
    BY <2>1, FirstIsMember
  <2> QED BY <2>1, <2>2
<1>2. [pc |-> next, servp |-> First(table)] \in Positions
  BY <1>1 DEF Positions
<1> QED BY <1>2 DEF Pick, TypeOK

LEMMA StopPickTypes ==
  ASSUME TypeOK, Counted, NEW t \in Threads, NEW pick, NEW remove \in PCs, NEW done \in PCs,
         StopPick(t, pick, remove, done)
  PROVE  TypeOK' /\ Counted'
<1>1. proc' \in [Threads -> Positions]
  BY GotoType, PickType DEF StopPick
<1>2. FlagsOK'
  BY Zenon DEF TypeOK, FlagsOK, StopPick, serveVars, linkVars, dnsVars, appVars
<1> QED BY <1>1, <1>2, MoveTypes DEF StopPick, serveVars, linkVars, dnsVars, appVars

LEMMA StopMovesTypes ==
  ASSUME TypeOK, Counted, NEW t \in Threads,
         Stop(t) \/ StopClose(t) \/ StopDns(t) \/ StopAll(t) \/ StopEnd(t)
  PROVE  TypeOK' /\ Counted'
<1> USE DEF serveVars, linkVars, dnsVars, appVars
<1>1. CASE Stop(t)
  <2>1. proc' \in [Threads -> Positions]
    BY <1>1, GotoType DEF Stop, PCs
  <2>2. FlagsOK'
    BY <1>1, Zenon DEF TypeOK, FlagsOK, Stop
  <2> QED BY <1>1, <2>1, <2>2, MoveTypes DEF Stop
<1>2. CASE StopClose(t)
  <2>1. proc' \in [Threads -> Positions]
    BY <1>2, GotoType DEF StopClose, PCs
  <2>2. FlagsOK'
    BY <1>2, Zenon DEF TypeOK, FlagsOK, StopClose
  <2> QED BY <1>2, <2>1, <2>2, MoveTypes DEF StopClose
<1>3. CASE StopDns(t)
  <2>1. proc' \in [Threads -> Positions]
    BY <1>3, GotoType DEF StopDns, PCs
  <2>2. FlagsOK'
    BY <1>3, Zenon DEF TypeOK, FlagsOK, StopDns
  <2> QED BY <1>3, <2>1, <2>2, MoveTypes DEF StopDns
<1>4. CASE StopAll(t)
  <2>1. proc' \in [Threads -> Positions]
    BY <1>4, GotoType DEF StopAll, PCs
  <2>2. FlagsOK'
    BY <1>4, Zenon DEF TypeOK, FlagsOK, StopAll
  <2> QED BY <1>4, <2>1, <2>2, MoveTypes DEF StopAll
<1>5. CASE StopEnd(t)
  <2>1. proc' \in [Threads -> Positions]
    BY <1>5, GotoType DEF StopEnd, PCs
  <2>2. FlagsOK'
    BY <1>5, Zenon DEF TypeOK, FlagsOK, StopEnd
  <2> QED BY <1>5, <2>1, <2>2, MoveTypes DEF StopEnd
<1> QED BY <1>1, <1>2, <1>3, <1>4, <1>5

LEMMA StopServingTypes ==
  ASSUME TypeOK, Counted, StopServing PROVE TypeOK' /\ Counted'
<1> USE DEF serveVars, linkVars, dnsVars
<1>1. proc' \in [Threads -> Positions]
  BY GotoType DEF StopServing, PCs, Threads
<1>2. FlagsOK'
  <2>1. lapsed' \in BOOLEAN
    BY Zenon DEF StopServing, TypeOK, FlagsOK
  <2> QED BY <2>1, Zenon DEF TypeOK, FlagsOK, StopServing
<1> QED BY <1>1, <1>2, MoveTypes DEF StopServing

LEMMA StartFailsTypes ==
  ASSUME TypeOK, Counted, StartFails PROVE TypeOK' /\ Counted'
<1>1. ServicesOK' /\ Counted'
  BY SameCounts DEF StartFails, dnsVars, TypeOK, ServicesOK
<1>2. FlagsOK'
  BY Zenon DEF TypeOK, FlagsOK, StartFails, linkVars, dnsVars
<1> QED BY <1>1, <1>2 DEF TypeOK, StartFails, linkVars

LEMMA UpdateBeginTypes ==
  ASSUME TypeOK, Counted, NEW s \in table, UpdateBegin(s) PROVE TypeOK' /\ Counted'
<1> USE DEF serveVars, linkVars, dnsVars, appVars
<1>1. Counted'
  BY DEF UpdateBegin, Counted
<1>2. ServicesOK'
  BY DEF UpdateBegin, TypeOK, ServicesOK
<1>3. FlagsOK'
  BY Zenon DEF TypeOK, FlagsOK, UpdateBegin
<1> QED BY <1>1, <1>2, <1>3 DEF TypeOK, UpdateBegin

LEMMA LinkTypes ==
  ASSUME TypeOK, Counted, Connect \/ Disconnect \/ Ask \/ Kill \/ Break \/ Forget
  PROVE  TypeOK' /\ Counted'
<1> USE DEF serveVars, linkVars, dnsVars, appVars
<1>1. CASE Connect
  <2>1. ServicesOK' /\ Counted' /\ outbox' \in Seq(Packets)
    <3>1. CASE serving
      BY <1>1, <3>1, RegisterAllCounts DEF Connect
    <3>2. CASE ~serving
      BY <1>1, <3>2, SameCounts DEF Connect, TypeOK, ServicesOK, tableVars
    <3> QED BY <3>1, <3>2
  <2>2. FlagsOK'
    BY <1>1, Zenon DEF TypeOK, FlagsOK, Connect
  <2> QED BY <1>1, <2>1, <2>2 DEF TypeOK, Connect
<1>2. CASE Disconnect
  <2>1. ServicesOK' /\ Counted'
    BY <1>2, SameCounts DEF Disconnect, TypeOK, ServicesOK
  <2>2. FlagsOK'
    BY <1>2, Zenon DEF TypeOK, FlagsOK, Disconnect
  <2> QED BY <1>2, <2>1, <2>2 DEF TypeOK, Disconnect
<1>3. CASE Ask
  <2>1. ServicesOK' /\ Counted' /\ outbox' \in Seq(Packets)
    BY <1>3, RegisterAllCounts DEF Ask
  <2>2. FlagsOK'
    BY <1>3, Zenon DEF TypeOK, FlagsOK, Ask
  <2> QED BY <1>3, <2>1, <2>2 DEF TypeOK, Ask
<1>4. CASE Kill \/ Break \/ Forget
  <2>1. breaks' \in 0..MaxBreaks
    BY <1>4, DnsRegistrationAssumption DEF Kill, Break, Forget, TypeOK, ServicesOK
  <2>2. ServicesOK' /\ Counted'
    BY <1>4, <2>1, SameCounts DEF Kill, Break, Forget, TypeOK, ServicesOK
  <2>3. FlagsOK'
    BY <1>4, Zenon DEF TypeOK, FlagsOK, Kill, Break, Forget
  <2> QED BY <1>4, <2>2, <2>3 DEF TypeOK, Kill, Break, Forget
<1> QED BY <1>1, <1>2, <1>3, <1>4

LEMMA DeliverTypes ==
  ASSUME TypeOK, Counted, Deliver PROVE TypeOK' /\ Counted'
<1> USE DEF serveVars, linkVars, appVars
<1>1. outbox \in Seq(Packets) /\ outbox # << >> /\ outbox' = Tail(outbox)
  BY DEF Deliver, TypeOK
<1>2. outbox' \in Seq(Packets) /\ Head(outbox) \in Packets
  BY <1>1
<1>3. Head(outbox).ids \subseteq IDs
  BY <1>2 DEF Packets
<1>4. known' \subseteq IDs
  BY <1>3 DEF Deliver, TypeOK, ServicesOK
<1>5. ServicesOK' /\ Counted'
  BY <1>4, SameCounts DEF Deliver, TypeOK, ServicesOK
<1>6. FlagsOK'
  BY Zenon DEF TypeOK, FlagsOK, Deliver
<1> QED BY <1>2, <1>5, <1>6 DEF TypeOK, Deliver

-----------------------------------------------------------------------------
(* Where the threads are.                                                  *)

LEMMA Moved ==
  ASSUME TypeOK, NEW t \in Threads, NEW next \in PCs, Goto(t, next)
  PROVE  /\ pc(t)' = next /\ (next = "idle" => proc'[t] = Idle)
         /\ \A u \in Threads \ {t} : proc'[u] = proc[u] /\ pc(u)' = pc(u)
BY DEF Goto, TypeOK, pc, Idle

(* The three ways Withdraw can go.                                         *)
LEMMA Withdraws ==
  ASSUME TypeOK, Counted, NEW t, NEW s, NEW next, Withdraw(t, s, next)
  PROVE  \/ /\ s \notin table \/ s \in updating'
            /\ Goto(t, next) /\ doomed' = (doomed \cup {s}) \cap updating'
            /\ UNCHANGED <<table, registered, nServices, port, outbox, announced>>
         \/ /\ s \in table /\ s \notin updating'
            /\ doomed' = doomed \ {s} /\ outbox' = Packet("remove", {s})
            /\ table' = table \ {s} /\ registered' = registered \ {s}
            /\ announced' = announced \ {s} /\ nServices' = nServices - 1
            /\ \/ /\ serving /\ nServices = StdServices + 1
                  /\ Goto(t, "stop") /\ port' = FALSE
               \/ /\ ~serving \/ nServices # StdServices + 1
                  /\ Goto(t, next) /\ (port' <=> port)
<1>1. nServices - 1 = StdServices <=> nServices = StdServices + 1
  BY CountedNow
<1>2. CASE s \notin table \/ s \in updating'
  BY <1>2 DEF Withdraw
<1>3. CASE s \in table /\ s \notin updating' /\ serving /\ IsLast(nServices - 1)
  BY <1>1, <1>3 DEF Withdraw, IsLast
<1>4. CASE s \in table /\ s \notin updating' /\ ~(serving /\ IsLast(nServices - 1))
  <2>1. ~serving \/ nServices # StdServices + 1
    BY <1>1, <1>4 DEF IsLast
  <2>2. port' <=> port
    BY <1>4 DEF Withdraw
  <2> QED BY <1>4, <2>1, <2>2 DEF Withdraw
<1> QED BY <1>2, <1>3, <1>4

LEMMA WithdrawPlaces ==
  ASSUME TypeOK, Counted, Places, NEW t \in Threads, NEW s, NEW next \in PCs,
         Withdraw(t, s, next), LockFree(t), UNCHANGED serving,
         next \in {"idle", "pick", "allPick"},
         next = "pick" => pc(t) = "remove", next = "allPick" => pc(t) = "allRemove"
  PROVE  Places'
<1>1. /\ StdServices \in Nat /\ nServices \in Nat /\ Threads = {"app", "update"}
      /\ t = "app" => proc["update"] = Idle /\ pc("update") = "idle"
  BY CountedNow DEF LockFree, Threads, Idle, pc
<1>2. CASE Goto(t, next) /\ nServices' \in {nServices, nServices - 1} /\ table' \subseteq table
  <2>1. /\ pc(t)' = next /\ (next = "idle" => proc'[t] = Idle)
        /\ \A u \in Threads \ {t} : proc'[u] = proc[u] /\ pc(u)' = pc(u)
    BY <1>2, Moved
  <2>2. CASE t = "app"
    BY <1>1, <1>2, <2>1, <2>2 DEF Places, Down
  <2>3. CASE t = "update"
    BY <1>1, <1>2, <2>1, <2>3 DEF Places, Down
  <2> QED BY <1>1, <2>2, <2>3
<1>3. CASE /\ Goto(t, "stop") /\ serving /\ nServices = StdServices + 1
           /\ nServices' = nServices - 1 /\ table' \subseteq table
  <2>1. /\ pc(t)' = "stop"
        /\ \A u \in Threads \ {t} : proc'[u] = proc[u] /\ pc(u)' = pc(u)
    BY <1>3, Moved DEF PCs
  <2>2. CASE t = "app"
    BY <1>1, <1>3, <2>1, <2>2 DEF Places, Down
  <2>3. CASE t = "update"
    BY <1>1, <1>3, <2>1, <2>3 DEF Places, Down
  <2> QED BY <1>1, <2>2, <2>3
<1> QED BY <1>2, <1>3, Withdraws

LEMMA PlacesSame ==
  ASSUME Places, UNCHANGED <<proc, serving, nServices, table>>
  PROVE  Places'
BY Zenon DEF Places, pc

(* Calls begin when nothing is going on.                                   *)
LEMMA CallPlaces ==
  ASSUME TypeOK, Places, AppCalls, UNCHANGED proc
  PROVE  Places'
<1>1. pc("app")' = "idle" /\ pc("update")' = "idle" /\ \A t \in Threads : proc'[t] = Idle
  BY DEF AppCalls, LockFree, Idle, pc, Threads
<1> QED BY <1>1 DEF Places, Down, Threads, pc

LEMMA StopServingPlaces ==
  ASSUME TypeOK, Counted, Places, StopServing
  PROVE  Places'
<1>1. /\ pc("app")' = "all" /\ proc'["update"] = proc["update"] /\ pc("update")' = "idle"
      /\ proc["update"] = Idle /\ UNCHANGED <<serving, nServices, table>>
  BY Moved DEF StopServing, AppCalls, LockFree, Threads, PCs, Idle, pc, serveVars, tableVars
<1> QED BY <1>1 DEF Places, Down, Threads

(* A thread at one of the places pcs goes on to next.                      *)
LEMMA MovePlaces ==
  ASSUME TypeOK, Counted, Places, NEW t \in Threads, NEW next \in PCs,
         UNCHANGED <<serving, nServices, table>>,
         /\ proc' \in [Threads -> Positions] /\ pc(t)' = next
         /\ next = "idle" => proc'[t] = Idle
         /\ \A u \in Threads \ {t} : proc'[u] = proc[u] /\ pc(u)' = pc(u),
         pc(t) \notin {"idle", "stop"}, next \notin {"stop", "close"},
         next \in {"pick", "remove", "clean"} => pc(t) \in Down /\ LockFree(t),
         next = "dns" => pc(t) \in Down,
         next \in {"clean", "dns", "end"} => table = {}
  PROVE  Places'
<1>1. Threads = {"app", "update"} /\ (t = "app" /\ LockFree(t) => pc("update") = "idle")
  BY DEF Threads, LockFree, pc, Idle
<1>2. CASE t = "app"
  BY <1>1, <1>2 DEF Places, Down
<1>3. CASE t = "update"
  BY <1>1, <1>3 DEF Places, Down
<1> QED BY <1>1, <1>2, <1>3

LEMMA StopPlaces ==
  ASSUME TypeOK, Counted, Places, NEW t \in Threads, StopStep(t)
  PROVE  Places'
<1> USE DEF serveVars, tableVars
<1>1. CASE Stop(t)
  <2>1. /\ pc(t)' = "close" /\ pc(t) = "stop" /\ serving' = FALSE
        /\ \A u \in Threads \ {t} : proc'[u] = proc[u] /\ pc(u)' = pc(u)
        /\ UNCHANGED <<nServices, table>>
    BY <1>1, Moved DEF Stop, PCs, pc
  <2>2. Threads = {"app", "update"}
    BY DEF Threads
  <2>3. CASE t = "app"
    BY <2>1, <2>2, <2>3 DEF Places, Down
  <2>4. CASE t = "update"
    BY <2>1, <2>2, <2>4 DEF Places, Down
  <2> QED BY <2>2, <2>3, <2>4
<1>2. CASE StopClose(t)
  <2>1. proc' \in [Threads -> Positions]
    BY <1>2, GotoType DEF StopClose, PCs
  <2> QED BY <1>2, <2>1, Moved, MovePlaces DEF StopClose, PCs, Down, pc
<1>3. CASE StopClean(t)
  <2>1. proc' \in [Threads -> Positions]
    BY <1>3, GotoType DEF StopClean, PCs
  <2>2. pc(t) = "clean" /\ table = {}
    BY <1>3 DEF StopClean, Places, pc
  <2>3. Cardinality(table) = 0
    BY <2>2, FS_EmptySet
  <2>4. UNCHANGED <<serving, nServices, table>>
    BY <1>3, <2>3 DEF StopClean, Counted
  <2> QED BY <1>3, <2>1, <2>2, <2>4, Moved, MovePlaces DEF StopClean, PCs, Down
<1>4. CASE StopDns(t)
  <2>1. proc' \in [Threads -> Positions] /\ pc(t) = "dns"
    BY <1>4, GotoType DEF StopDns, PCs, pc
  <2>2. Goto(t, "all")
    BY <1>4, <2>1 DEF StopDns, Places, Down
  <2> QED BY <1>4, <2>1, <2>2, Moved, MovePlaces DEF StopDns, PCs
<1>5. CASE StopAll(t)
  <2>1. proc' \in [Threads -> Positions]
    BY <1>5, GotoType DEF StopAll, PCs
  <2> QED BY <1>5, <2>1, Moved, MovePlaces DEF StopAll, PCs, pc
<1>6. CASE StopEnd(t)
  <2>1. proc' \in [Threads -> Positions]
    BY <1>6, GotoType DEF StopEnd, PCs
  <2> QED BY <1>6, <2>1, Moved, MovePlaces DEF StopEnd, PCs, pc
<1>7. ASSUME NEW pick, NEW remove \in PCs, NEW done \in PCs, StopPick(t, pick, remove, done),
             \/ pick = "pick" /\ remove = "remove" /\ done = "clean"
             \/ pick = "allPick" /\ remove = "allRemove" /\ done = "end"
      PROVE  Places'
  <2>1. pc(t) = pick /\ LockFree(t) /\ UNCHANGED <<serving, nServices, table>>
    BY <1>7 DEF StopPick, pc
  <2>2. CASE table = {}
    <3>1. Goto(t, done) /\ proc' \in [Threads -> Positions]
      BY <1>7, <2>2, GotoType DEF StopPick
    <3> QED BY <1>7, <2>1, <2>2, <3>1, Moved, MovePlaces DEF Down
  <2>3. CASE table # {}
    <3>1. /\ proc' \in [Threads -> Positions]
          /\ proc' = [proc EXCEPT ![t] = [pc |-> remove, servp |-> First(table)]]
      BY <1>7, <2>3, PickType DEF StopPick
    <3>2. pc(t)' = remove /\ \A u \in Threads \ {t} : proc'[u] = proc[u] /\ pc(u)' = pc(u)
      BY <3>1 DEF TypeOK, pc
    <3> QED BY <1>7, <2>1, <3>1, <3>2, MovePlaces DEF Down
  <2> QED BY <2>2, <2>3
<1>8. CASE StopRemove(t, "pick", "remove")
  BY <1>8, WithdrawPlaces DEF StopRemove, removeUnchanged, PCs, pc
<1>9. CASE StopRemove(t, "allPick", "allRemove")
  BY <1>9, WithdrawPlaces DEF StopRemove, removeUnchanged, PCs, pc
<1> QED BY <1>1, <1>2, <1>3, <1>4, <1>5, <1>6, <1>7, <1>8, <1>9 DEF StopStep, PCs

LEMMA PlacesStep ==
  ASSUME TypeOK, Counted, Places, [Next]_vars
  PROVE  Places'
<1> USE DEF serveVars, tableVars
<1>1. CASE AddService \/ AddCommand \/ StartFails \/ StartServing
  BY <1>1, CallPlaces DEF AddService, AddCommand, StartFails, StartServing
<1>2. CASE StopServing
  BY <1>2, StopServingPlaces
<1>3. ASSUME NEW s \in wanted, RemoveService(s) PROVE Places'
  BY <1>3, WithdrawPlaces DEF RemoveService, removeUnchanged, AppCalls, PCs, Threads
<1>4. ASSUME NEW t \in Threads, StopStep(t) PROVE Places'
  BY <1>4, StopPlaces
<1>5. ASSUME NEW s \in table, UpdateBegin(s) PROVE Places'
  BY <1>5, PlacesSame DEF UpdateBegin
<1>6. ASSUME NEW s \in updating, UpdateEnd(s) PROVE Places'
  <2>1. CASE s \in doomed
    BY <1>6, <2>1, WithdrawPlaces DEF UpdateEnd, removeUnchanged, LockFree, PCs, Threads
  <2>2. CASE s \notin doomed
    BY <1>6, <2>2, PlacesSame DEF UpdateEnd, removeUnchanged
  <2> QED BY <2>1, <2>2
<1>7. CASE Connect \/ Disconnect \/ Ask \/ Kill \/ Break \/ Forget \/ Deliver \/ UNCHANGED vars
  BY <1>7, PlacesSame DEF Connect, Disconnect, Ask, Kill, Break, Forget, Deliver, vars
<1> QED BY <1>1, <1>2, <1>3, <1>4, <1>5, <1>6, <1>7 DEF Next

-----------------------------------------------------------------------------
(* The port, the standard services and the watchdog.                       *)

LEMMA StoppingSame ==
  ASSUME Stopping, UNCHANGED <<firstTime, dnsFirstTime, port, proc, serving>>,
         conn' # "up" \/ UNCHANGED <<conn, watchdog, lapsed>>
  PROVE  Stopping'
BY Zenon DEF Stopping, Calm, pc

LEMMA WithdrawStopping ==
  ASSUME TypeOK, Counted, Stopping, NEW t \in Threads, NEW s, NEW next \in PCs,
         Withdraw(t, s, next),
         UNCHANGED <<firstTime, dnsFirstTime, serving, conn, watchdog, lapsed>>,
         \/ next = "idle" /\ proc[t] = Idle
         \/ next = "pick" /\ pc(t) = "remove"
         \/ next = "allPick" /\ pc(t) = "allRemove"
  PROVE  Stopping'
<1> USE DEF Calm, Down
<1>1. CASE Goto(t, next) /\ (port' <=> port)
  <2>1. /\ pc(t)' = next /\ (next = "idle" => proc'[t] = Idle)
        /\ \A u \in Threads \ {t} : proc'[u] = proc[u] /\ pc(u)' = pc(u)
    BY <1>1, Moved
  <2>2. next = "idle" => \A u \in Threads : proc'[u] = proc[u] /\ pc(u)' = pc(u)
    BY <2>1 DEF pc
  <2>3. next # "idle" => proc'[t] # Idle
    BY <2>1 DEF pc, Idle
  <2> QED BY <1>1, <2>1, <2>2, <2>3 DEF Stopping
<1>2. CASE Goto(t, "stop") /\ serving
  <2>1. pc(t)' = "stop" /\ proc'[t] # Idle
    BY <1>2, Moved DEF PCs, pc, Idle
  <2> QED BY <1>2, <2>1 DEF Stopping
<1> QED BY <1>1, <1>2, Withdraws

(* There is no connection any more when all services have been removed,    *)
(* unless there was none whose removal would have stopped it.              *)
LEMMA EndIsQuiet ==
  ASSUME TypeOK, Counted, Places, Stopping, Kept \/ lapsed, NEW t \in Threads, pc(t) = "end"
  PROVE  conn # "up" \/ lapsed
<1>1. table = {} /\ nServices = 0
  <2>1. table = {}
    BY DEF Places
  <2> QED BY <2>1, FS_EmptySet DEF Counted
<1>2. StdServices > 0 /\ StdServices \in Nat
  BY DnsRegistrationAssumption
<1>3. pc("update") \notin {"stop", "close"}
  BY <1>1, <1>2 DEF Places
<1>4. CASE t = "app"
  <2>1. serving => lapsed
    BY <1>1, <1>2, <1>3, <1>4 DEF Kept, Threads
  <2>2. \A u \in Threads : pc(u) # "close"
    BY <1>3, <1>4 DEF Threads
  <2> QED BY <2>1, <2>2 DEF Stopping
<1>5. CASE t = "update"
  <2>1. ~serving /\ \A u \in Threads : pc(u) # "close"
    BY <1>5 DEF Places, Threads, Down
  <2> QED BY <2>1 DEF Stopping
<1> QED BY <1>4, <1>5 DEF Threads

(* A thread goes on with what it was stopping.                             *)
LEMMA MoveStopping ==
  ASSUME Stopping, NEW t \in Threads, NEW next,
         UNCHANGED <<serving, conn, lapsed>>,
         dnsFirstTime => dnsFirstTime', conn = "up" => UNCHANGED watchdog \/ lapsed,
         /\ pc(t)' = next
         /\ \A u \in Threads \ {t} : proc'[u] = proc[u] /\ pc(u)' = pc(u),
         next # "idle" \/ firstTime', pc(t) # "close",
         pc(t) \in Down \ {"dns"} => next \in Down \ {"dns"} \/ dnsFirstTime'
  PROVE  Stopping'
<1>1. firstTime' \/ ~Calm'
  BY DEF Calm, pc, Idle
<1>2. \A u \in Threads : pc(u) = "close" => pc(u)' = "close"
  OBVIOUS
<1>3. dnsFirstTime' \/ serving' \/ \E u \in Threads : pc(u)' \in Down \ {"dns"}
  BY DEF Stopping
<1> QED BY <1>1, <1>2, <1>3 DEF Stopping

LEMMA StopStopping ==
  ASSUME TypeOK, Counted, Places, Stopping, Kept \/ lapsed, NEW t \in Threads, StopStep(t)
  PROVE  Stopping'
<1> USE DEF serveVars, linkVars, appVars
<1>1. CASE Stop(t)
  <2>1. pc(t)' = "close" /\ UNCHANGED <<conn, watchdog, lapsed>>
    BY <1>1, Moved DEF Stop, PCs
  <2>2. ~Calm'
    BY <2>1 DEF Calm, pc, Idle
  <2> QED BY <2>1, <2>2 DEF Stopping, Down
<1>2. CASE StopClose(t)
  <2>1. pc(t)' = "pick" /\ conn' = "none"
    BY <1>2, Moved DEF StopClose, PCs
  <2>2. ~Calm'
    BY <2>1 DEF Calm, pc, Idle
  <2> QED BY <2>1, <2>2 DEF Stopping, Down
<1>3. CASE StopClean(t)
  BY <1>3, Moved, MoveStopping DEF StopClean, PCs, pc
<1>4. CASE StopDns(t)
  <2>1. pc(t) = "dns"
    BY <1>4 DEF StopDns, pc
  <2>2. Goto(t, "all")
    BY <1>4, <2>1 DEF StopDns, Places, Down
  <2> QED BY <1>4, <2>1, <2>2, Moved, MoveStopping DEF StopDns, PCs
<1>5. CASE StopAll(t)
  BY <1>5, Moved, MoveStopping DEF StopAll, PCs, pc, Down
<1>6. CASE StopEnd(t)
  <2>1. pc(t) = "end" /\ (conn # "up" \/ lapsed)
    BY <1>6, EndIsQuiet DEF StopEnd, pc
  <2> QED BY <1>6, <2>1, Moved, MoveStopping DEF StopEnd, PCs, Down
<1>7. ASSUME NEW pick, NEW remove \in PCs, NEW done \in PCs, StopPick(t, pick, remove, done),
             \/ pick = "pick" /\ remove = "remove" /\ done = "clean"
             \/ pick = "allPick" /\ remove = "allRemove" /\ done = "end"
      PROVE  Stopping'
  <2>1. pc(t) = pick /\ UNCHANGED <<serving, conn, lapsed, dnsFirstTime, watchdog>>
    BY <1>7 DEF StopPick, pc
  <2>2. PICK next \in {remove, done} :
          /\ pc(t)' = next
          /\ \A u \in Threads \ {t} : proc'[u] = proc[u] /\ pc(u)' = pc(u)
    <3>1. CASE table = {}
      BY <1>7, <3>1, Moved DEF StopPick
    <3>2. CASE table # {}
      <4>1. proc' = [proc EXCEPT ![t] = [pc |-> remove, servp |-> First(table)]]
        BY <1>7, <3>2 DEF StopPick, Pick
      <4> QED BY <4>1 DEF TypeOK, pc
    <3> QED BY <3>1, <3>2
  <2> QED BY <1>7, <2>1, <2>2, MoveStopping DEF Down
<1>8. CASE StopRemove(t, "pick", "remove")
  BY <1>8, WithdrawStopping DEF StopRemove, removeUnchanged, PCs, pc
<1>9. CASE StopRemove(t, "allPick", "allRemove")
  BY <1>9, WithdrawStopping DEF StopRemove, removeUnchanged, PCs, pc
<1> QED BY <1>1, <1>2, <1>3, <1>4, <1>5, <1>6, <1>7, <1>8, <1>9 DEF StopStep, PCs

LEMMA StoppingStep ==
  ASSUME TypeOK, Counted, Places, Stopping, Kept \/ lapsed, [Next]_vars
  PROVE  Stopping'
<1> USE DEF serveVars, linkVars, appVars
<1>1. CASE AddService \/ AddCommand
  BY <1>1, StoppingSame DEF AddService, AddCommand
<1>2. CASE StartFails
  BY <1>2 DEF StartFails, Stopping
<1>3. CASE StartServing
  <2>1. /\ Calm /\ serving' = TRUE /\ conn' \in {conn, "pending"}
        /\ port' = (port \/ firstTime) /\ UNCHANGED <<watchdog, lapsed>>
    BY <1>3, StartServingFinds DEF StartServing, AppCalls, LockFree, Calm, Threads
  <2>2. port'
    BY <2>1 DEF Stopping
  <2> QED BY <2>1, <2>2 DEF Stopping
<1>4. CASE StopServing
  <2>1. /\ Calm /\ ~Calm' /\ UNCHANGED <<serving, dnsFirstTime, conn, watchdog>>
        /\ lapsed => lapsed'
    <3>1. pc("app")' = "all"
      BY <1>4, Moved DEF StopServing, Threads, PCs
    <3>2. Calm /\ UNCHANGED <<serving, dnsFirstTime, conn, watchdog>>
      BY <1>4 DEF StopServing, AppCalls, LockFree, Calm, Threads
    <3>3. ~Calm'
      BY <3>1 DEF Calm, Threads, pc, Idle
    <3>4. lapsed => lapsed'
      BY <1>4, Zenon DEF StopServing
    <3> QED BY <3>2, <3>3, <3>4
  <2>2. \A t \in Threads : pc(t) = "idle"
    BY <2>1 DEF Calm, pc, Idle
  <2> QED BY <2>1, <2>2 DEF Stopping, Down
<1>5. ASSUME NEW s \in wanted, RemoveService(s) PROVE Stopping'
  BY <1>5, WithdrawStopping DEF RemoveService, removeUnchanged, AppCalls, PCs, Threads
<1>6. ASSUME NEW t \in Threads, StopStep(t) PROVE Stopping'
  BY <1>6, StopStopping
<1>7. ASSUME NEW s \in table, UpdateBegin(s) PROVE Stopping'
  BY <1>7, StoppingSame DEF UpdateBegin
<1>8. ASSUME NEW s \in updating, UpdateEnd(s) PROVE Stopping'
  <2>1. CASE s \in doomed
    BY <1>8, <2>1, WithdrawStopping DEF UpdateEnd, removeUnchanged, LockFree, PCs, Threads
  <2>2. CASE s \notin doomed
    BY <1>8, <2>2, StoppingSame DEF UpdateEnd, removeUnchanged
  <2> QED BY <2>1, <2>2
<1>9. CASE Connect
  <2>1. CASE serving
    BY <1>9, <2>1 DEF Connect, Stopping, Calm, pc
  <2>2. CASE ~serving
    BY <1>9, <2>2, StoppingSame DEF Connect
  <2> QED BY <2>1, <2>2
<1>10. CASE Disconnect \/ Ask \/ Kill \/ Break \/ Forget \/ Deliver \/ UNCHANGED vars
  BY <1>10, StoppingSame DEF Disconnect, Ask, Kill, Break, Forget, Deliver, vars
<1> QED BY <1>1, <1>2, <1>3, <1>4, <1>5, <1>6, <1>7, <1>8, <1>9, <1>10 DEF Next

-----------------------------------------------------------------------------
(* What the application has added.                                         *)

LEMMA KeptSame ==
  ASSUME Kept, UNCHANGED <<table, wanted, doomed, proc, serving, nServices>>
  PROVE  Kept'
BY Zenon DEF Kept, Calm, pc

LEMMA AsideNow ==
  ASSUME TypeOK, Counted, Kept
  PROVE  /\ IsFiniteSet(wanted \cup doomed) /\ Cardinality(wanted \cup doomed) \in Nat
         /\ Cardinality(wanted \cup doomed) <= nServices
<1>1. wanted \cup doomed \subseteq table
  BY DEF Kept, TypeOK, ServicesOK
<1>2. IsFiniteSet(wanted \cup doomed) /\ Cardinality(wanted \cup doomed) <= Cardinality(table)
  BY <1>1, CountedNow, FS_Subset
<1> QED BY <1>2, FS_CardinalityType DEF Counted

LEMMA WithdrawKept ==
  ASSUME TypeOK, Counted, Places, Kept, NEW t \in Threads, NEW s, NEW next \in PCs,
         Withdraw(t, s, next), UNCHANGED serving,
         wanted' \subseteq wanted, s \notin wanted', Calm => s \in wanted \cup doomed,
         \/ next = "idle" /\ proc[t] = Idle
         \/ next = "pick" /\ pc(t) = "remove"
         \/ next = "allPick" /\ pc(t) = "allRemove"
  PROVE  Kept'
<1> DEFINE aside == wanted \cup doomed
<1>1. /\ StdServices \in Nat /\ nServices \in Nat /\ Threads = {"app", "update"}
      /\ \A u \in Threads : proc[u] = Idle <=> pc(u) = "idle"
  BY CountedNow DEF Threads, Places, Idle, pc
<1>2. IsFiniteSet(aside) /\ Cardinality(aside) \in Nat
  BY AsideNow
<1>3. wanted' \subseteq table' /\ wanted' \cap doomed' = {}
  BY Withdraws DEF Kept
<1>4. CASE Goto(t, next) /\ (UNCHANGED nServices \/ ~serving \/ nServices # StdServices + 1)
  <2>1. /\ pc(t)' = next /\ (next = "idle" => proc'[t] = Idle)
        /\ \A u \in Threads \ {t} : proc'[u] = proc[u] /\ pc(u)' = pc(u)
    BY <1>4, Moved
  <2>2. /\ \A u \in Threads : proc'[u] = Idle <=> proc[u] = Idle
        /\ \A u \in Threads : pc(u)' = "idle" <=> pc(u) = "idle"
        /\ \A u \in Threads : pc(u) = "stop" => pc(u)' = "stop"
    BY <1>1, <2>1 DEF pc, Idle
  <2>3. Calm' <=> Calm
    BY <2>2 DEF Calm
  <2>4. ~Calm' => wanted' = {}
    BY <2>3 DEF Kept
  <2>5. Calm' /\ serving' => Cardinality(wanted \cup doomed)' + StdServices <= nServices'
    <3> SUFFICES ASSUME Calm', serving'
                 PROVE  Cardinality(wanted \cup doomed)' + StdServices <= nServices'
      OBVIOUS
    <3>1. Cardinality(aside) + StdServices <= nServices /\ s \in aside
      BY <2>3 DEF Kept
    <3>2. CASE UNCHANGED nServices /\ doomed' \subseteq doomed \cup {s}
      <4>1. wanted' \cup doomed' \subseteq aside
        BY <3>1, <3>2
      <4>2. /\ IsFiniteSet(wanted' \cup doomed')
            /\ Cardinality(wanted' \cup doomed') <= Cardinality(aside)
        BY <1>2, <4>1, FS_Subset
      <4>3. Cardinality(wanted' \cup doomed') \in Nat
        BY <4>2, FS_CardinalityType
      <4> QED BY <1>1, <1>2, <3>1, <3>2, <4>2, <4>3
    <3>3. CASE nServices' = nServices - 1 /\ doomed' = doomed \ {s}
      <4>1. wanted' \cup doomed' \subseteq aside \ {s}
        BY <3>3
      <4>2. IsFiniteSet(aside \ {s}) /\ Cardinality(aside \ {s}) = Cardinality(aside) - 1
        BY <1>2, <3>1, FS_RemoveElement
      <4>3. /\ IsFiniteSet(wanted' \cup doomed')
            /\ Cardinality(wanted' \cup doomed') <= Cardinality(aside \ {s})
        BY <4>1, <4>2, FS_Subset
      <4>4. Cardinality(wanted' \cup doomed') \in Nat
        BY <4>3, FS_CardinalityType
      <4> QED BY <1>1, <1>2, <3>1, <3>3, <4>2, <4>3, <4>4
    <3> QED BY <3>2, <3>3, Withdraws
  <2>6. ASSUME pc("app")' # "idle", serving', \A u \in Threads : pc(u)' # "stop"
        PROVE  nServices' > StdServices
    <3>1. nServices > StdServices
      BY <1>1, <2>2, <2>6 DEF Kept
    <3>2. nServices' \in {nServices, nServices - 1}
      BY Withdraws
    <3> QED BY <1>1, <1>4, <2>6, <3>1, <3>2
  <2> QED BY <1>3, <2>4, <2>5, <2>6 DEF Kept
<1>5. CASE Goto(t, "stop") /\ serving /\ nServices = StdServices + 1
  <2>1. pc(t)' = "stop" /\ ~Calm'
    BY <1>5, Moved DEF PCs, Calm, pc, Idle
  <2>2. wanted' = {}
    <3>1. CASE Calm
      <4>1. s \in aside /\ Cardinality(aside) + StdServices <= StdServices + 1
        BY <1>5, <3>1 DEF Kept
      <4>2. IsFiniteSet(aside \ {s}) /\ Cardinality(aside \ {s}) = Cardinality(aside) - 1
        BY <1>2, <4>1, FS_RemoveElement
      <4>3. Cardinality(aside \ {s}) \in Nat
        BY <4>2, FS_CardinalityType
      <4>4. Cardinality(aside \ {s}) = 0
        BY <1>1, <1>2, <4>1, <4>2, <4>3
      <4>5. aside \ {s} = {}
        BY <4>2, <4>4, FS_EmptySet
      <4> QED BY <4>5
    <3>2. CASE ~Calm
      BY <3>2 DEF Kept
    <3> QED BY <3>1, <3>2
  <2> QED BY <1>3, <2>1, <2>2 DEF Kept
<1> QED BY <1>4, <1>5, Withdraws

LEMMA AddServiceKept ==
  ASSUME TypeOK, Counted, Kept, AddService
  PROVE  Kept'
<1>1. /\ ids' = ids + 1 /\ table' = table \cup {ids + 1} /\ nServices' = nServices + 1
      /\ wanted' = wanted \cup {ids + 1} /\ UNCHANGED <<doomed, proc, serving>> /\ Calm
  BY DEF AddService, AppCalls, LockFree, Calm, Threads, serveVars
<1>2. \A t \in Threads : pc(t)' = "idle"
  BY <1>1 DEF Calm, pc, Idle
<1>3. Calm' /\ ids + 1 \notin doomed
  BY <1>1, CountedNow DEF Calm, Counted, TypeOK, ServicesOK
<1>4. wanted' \cup doomed' = (wanted \cup doomed) \cup {ids + 1}
  BY <1>1
<1>5. Cardinality(wanted \cup doomed)' = Cardinality((wanted \cup doomed) \cup {ids + 1})
  BY <1>4, Zenon
<1>6. Cardinality((wanted \cup doomed) \cup {ids + 1}) \in
        {Cardinality(wanted \cup doomed), Cardinality(wanted \cup doomed) + 1}
  BY AsideNow, FS_AddElement
<1>7. serving => Cardinality(wanted \cup doomed)' + StdServices <= nServices'
  BY <1>1, <1>5, <1>6, AsideNow, CountedNow DEF Kept
<1> QED BY <1>1, <1>2, <1>3, <1>7 DEF Kept, Threads

(* With the standard services, which nobody takes back one by one, there   *)
(* are enough for the automatic stop to wait for the last other one.       *)
LEMMA StartServingKept ==
  ASSUME TypeOK, Counted, Stopping, Kept, StartServing
  PROVE  Kept'
<1>1. /\ Added \in Nat /\ nServices' = nServices + Added /\ table \subseteq table'
      /\ UNCHANGED <<wanted, doomed, proc>>
  BY StartServingFinds
<1>2. Calm /\ Calm' /\ \A t \in Threads : pc(t) = "idle" /\ pc(t)' = "idle"
  BY <1>1 DEF StartServing, AppCalls, LockFree, Calm, Threads, pc, Idle
<1>3. Cardinality(wanted \cup doomed)' = Cardinality(wanted \cup doomed)
  BY <1>1, Zenon
<1>4. Cardinality(wanted \cup doomed) + StdServices <= nServices'
  <2>1. CASE dnsFirstTime
    BY <1>1, <2>1, AsideNow, CountedNow DEF Added
  <2>2. CASE ~dnsFirstTime
    <3>1. serving
      BY <1>2, <2>2 DEF Stopping, Down
    <3> QED BY <1>1, <1>2, <2>2, <3>1, CountedNow DEF Added, Kept
  <2> QED BY <2>1, <2>2
<1> QED BY <1>1, <1>2, <1>3, <1>4 DEF Kept, Threads

LEMMA StopServingKept ==
  ASSUME TypeOK, Counted, Kept, StopServing, ~lapsed'
  PROVE  Kept'
<1>1. serving => nServices > StdServices
  <2>1. ~(serving /\ nServices <= StdServices)
    BY Zenon DEF StopServing
  <2> QED BY <2>1, CountedNow
<1>2. pc("app")' = "all" /\ wanted' = {} /\ UNCHANGED <<nServices, serving>>
  BY Moved DEF StopServing, Threads, PCs, tableVars, serveVars
<1>3. ~Calm'
  BY <1>2 DEF Calm, Threads, pc, Idle
<1> QED BY <1>1, <1>2, <1>3 DEF Kept

(* A thread that is stopping has nothing to keep.                          *)
LEMMA MoveKept ==
  ASSUME TypeOK, Counted, Places, Kept, NEW t \in Threads, NEW next,
         UNCHANGED <<table, wanted, doomed, nServices>>, serving' => serving,
         /\ pc(t)' = next
         /\ \A u \in Threads \ {t} : proc'[u] = proc[u] /\ pc(u)' = pc(u),
         pc(t) # "idle", pc(t) # "stop" \/ ~serving',
         next = "idle" => pc(t) = "end"
  PROVE  Kept'
<1>1. Threads = {"app", "update"} /\ StdServices \in Nat \ {0}
  BY CountedNow DEF Threads
<1>2. wanted = {}
  BY DEF Kept, Calm, Idle, pc
<1>3. ASSUME pc("app")' # "idle", serving', \A u \in Threads : pc(u)' # "stop"
      PROVE  nServices' > StdServices
  <2>1. pc("app") # "idle" /\ \A u \in Threads : pc(u) # "stop"
    BY <1>1, <1>3
  <2> QED BY <1>3, <2>1 DEF Kept
<1>4. ASSUME Calm', serving' PROVE FALSE
  <2>1. pc(t) = "end" /\ \A u \in Threads \ {t} : pc(u) = "idle"
    BY <1>4 DEF Calm, Idle, pc
  <2>2. table = {}
    BY <2>1 DEF Places
  <2>3. nServices = 0
    BY <2>2, FS_EmptySet DEF Counted
  <2>4. CASE t = "app"
    <3>1. nServices > StdServices
      BY <1>1, <1>4, <2>1, <2>4 DEF Kept
    <3> QED BY <1>1, <2>3, <3>1
  <2>5. CASE t = "update"
    BY <1>4, <2>1, <2>5 DEF Places
  <2> QED BY <1>1, <2>4, <2>5
<1> QED BY <1>2, <1>3, <1>4 DEF Kept

LEMMA StopKept ==
  ASSUME TypeOK, Counted, Places, Kept, NEW t \in Threads, StopStep(t)
  PROVE  Kept'
<1> USE DEF serveVars, tableVars, appVars
<1>1. CASE Stop(t)
  BY <1>1, Moved, MoveKept DEF Stop, PCs, pc
<1>2. CASE StopClose(t)
  BY <1>2, Moved, MoveKept DEF StopClose, PCs, pc
<1>3. CASE StopClean(t)
  <2>1. pc(t) = "clean" /\ table = {}
    BY <1>3 DEF StopClean, Places, pc
  <2>2. Cardinality(table) = 0
    BY <2>1, FS_EmptySet
  <2>3. UNCHANGED nServices
    BY <1>3, <2>2 DEF StopClean, Counted
  <2> QED BY <1>3, <2>1, <2>3, Moved, MoveKept DEF StopClean, PCs
<1>4. CASE StopDns(t)
  <2>1. pc(t) = "dns"
    BY <1>4 DEF StopDns, pc
  <2>2. Goto(t, "all")
    BY <1>4, <2>1 DEF StopDns, Places, Down
  <2> QED BY <1>4, <2>1, <2>2, Moved, MoveKept DEF StopDns, PCs
<1>5. CASE StopAll(t)
  BY <1>5, Moved, MoveKept DEF StopAll, PCs, pc
<1>6. CASE StopEnd(t)
  BY <1>6, Moved, MoveKept DEF StopEnd, PCs, pc
<1>7. ASSUME NEW pick, NEW remove \in PCs, NEW done \in PCs, StopPick(t, pick, remove, done),
             pick \notin {"idle", "stop"}, remove # "idle", done # "idle"
      PROVE  Kept'
  <2>1. pc(t) = pick /\ UNCHANGED <<table, wanted, doomed, nServices, serving>>
    BY <1>7 DEF StopPick, pc
  <2>2. PICK next \in {remove, done} :
          /\ pc(t)' = next
          /\ \A u \in Threads \ {t} : proc'[u] = proc[u] /\ pc(u)' = pc(u)
    <3>1. CASE table = {}
      BY <1>7, <3>1, Moved DEF StopPick
    <3>2. CASE table # {}
      <4>1. proc' = [proc EXCEPT ![t] = [pc |-> remove, servp |-> First(table)]]
        BY <1>7, <3>2 DEF StopPick, Pick
      <4> QED BY <4>1 DEF TypeOK, pc
    <3> QED BY <3>1, <3>2
  <2> QED BY <1>7, <2>1, <2>2, MoveKept
<1>8. ASSUME NEW pick, NEW remove, StopRemove(t, pick, remove),
             \/ pick = "pick" /\ remove = "remove"
             \/ pick = "allPick" /\ remove = "allRemove"
      PROVE  Kept'
  <2>1. /\ pc(t) = remove /\ Withdraw(t, proc[t].servp, pick)
        /\ UNCHANGED <<serving, wanted>> /\ pick \in PCs
    BY <1>8 DEF StopRemove, removeUnchanged, pc, PCs
  <2>2. ~Calm
    BY <1>8, <2>1 DEF Calm, Idle, pc
  <2>3. wanted = {}
    BY <2>2 DEF Kept
  <2> QED BY <1>8, <2>1, <2>2, <2>3, WithdrawKept
<1> QED BY <1>1, <1>2, <1>3, <1>4, <1>5, <1>6, <1>7, <1>8 DEF StopStep, PCs

LEMMA KeptStep ==
  ASSUME TypeOK, Counted, Places, Stopping, Kept \/ lapsed, [Next]_vars
  PROVE  Kept' \/ lapsed'
<1> USE DEF serveVars, tableVars, appVars
<1>1. CASE StartFails
  BY <1>1 DEF StartFails
<1>2. CASE StopServing
  <2>1. lapsed => lapsed'
    BY <1>2, Zenon DEF StopServing
  <2> QED BY <1>2, <2>1, StopServingKept
<1>3. ASSUME ~StartFails, ~StopServing PROVE UNCHANGED lapsed
  BY <1>3 DEF Next, AddService, AddCommand, StartServing, RemoveService, removeUnchanged, StopStep,
     Stop, StopClose, StopClean, StopDns, StopAll, StopEnd, StopPick, StopRemove, UpdateBegin,
     UpdateEnd, Connect, Disconnect, Ask, Kill, Break, Forget, Deliver, vars
<1>4. ASSUME Kept, ~StartFails, ~StopServing PROVE Kept'
  <2>1. CASE AddService \/ AddCommand
    BY <1>4, <2>1, AddServiceKept DEF AddCommand
  <2>2. CASE StartServing
    BY <1>4, <2>2, StartServingKept
  <2>3. ASSUME NEW s \in wanted, RemoveService(s) PROVE Kept'
    BY <1>4, <2>3, WithdrawKept DEF RemoveService, removeUnchanged, AppCalls, PCs, Threads
  <2>4. ASSUME NEW t \in Threads, StopStep(t) PROVE Kept'
    BY <1>4, <2>4, StopKept
  <2>5. ASSUME NEW s \in table, UpdateBegin(s) PROVE Kept'
    BY <1>4, <2>5, KeptSame DEF UpdateBegin
  <2>6. ASSUME NEW s \in updating, UpdateEnd(s) PROVE Kept'
    <3>1. CASE s \in doomed
      <4>1. s \notin wanted
        BY <1>4, <3>1 DEF Kept
      <4> QED BY <1>4, <2>6, <3>1, <4>1, WithdrawKept
                 DEF UpdateEnd, removeUnchanged, LockFree, PCs, Threads
    <3>2. CASE s \notin doomed
      BY <1>4, <2>6, <3>2, KeptSame DEF UpdateEnd, removeUnchanged
    <3> QED BY <3>1, <3>2
  <2>7. CASE Connect \/ Disconnect \/ Ask \/ Kill \/ Break \/ Forget \/ Deliver \/ UNCHANGED vars
    BY <1>4, <2>7, KeptSame DEF Connect, Disconnect, Ask, Kill, Break, Forget, Deliver, vars
  <2> QED BY <1>4, <2>1, <2>2, <2>3, <2>4, <2>5, <2>6, <2>7 DEF Next
<1> QED BY <1>1, <1>2, <1>3, <1>4

-----------------------------------------------------------------------------
(* What the name server learns.                                            *)

LEMMA QueueGrows ==
  ASSUME outbox \in Seq(Packets), NEW op \in {"add", "remove"}, NEW s, s \subseteq IDs,
         outbox' = Packet(op, s)
  PROVE  /\ \A k \in DOMAIN outbox' :
              \/ k \in DOMAIN outbox /\ outbox'[k] = outbox[k]
              \/ outbox'[k].op = op /\ outbox'[k].ids = s
         /\ \A k \in DOMAIN outbox : k \in Nat /\ k <= Len(outbox)
         /\ \A o, x : \A i \in Nat : Queued(o, x, i) => Queued(o, x, i)'
         /\ Open' => \A x \in s, i \in Nat : i <= Len(outbox) => Queued(op, x, i)'
<1> DEFINE last == [op |-> op, ids |-> s]
<1>1. last \in Packets /\ last.op = op /\ last.ids = s
  BY DEF Packets
<1>2. Len(outbox) \in Nat /\ \A k \in DOMAIN outbox : k \in Nat /\ k <= Len(outbox)
  OBVIOUS
<1>3. CASE ~(Open' /\ s # {})
  <2>1. outbox' = outbox
    BY <1>3 DEF Packet
  <2> QED BY <1>2, <1>3, <2>1 DEF Queued
<1>4. CASE Open' /\ s # {}
  <2> HIDE DEF last
  <2>1. outbox' = Append(outbox, last)
    BY <1>4 DEF Packet, last
  <2>2. /\ Len(outbox') = Len(outbox) + 1 /\ outbox'[Len(outbox) + 1] = last
        /\ \A k \in 1..Len(outbox) : outbox'[k] = outbox[k]
        /\ DOMAIN outbox' = 1..(Len(outbox) + 1)
        /\ DOMAIN outbox = 1..Len(outbox)
    BY <1>1, <2>1
  <2>3. \A k \in DOMAIN outbox' :
          \/ k \in DOMAIN outbox /\ outbox'[k] = outbox[k]
          \/ outbox'[k].op = op /\ outbox'[k].ids = s
    BY <1>1, <1>2, <2>2
  <2>4. ASSUME NEW o, NEW x, NEW i \in Nat, Queued(o, x, i) PROVE Queued(o, x, i)'
    <3>1. PICK k \in DOMAIN outbox : k > i /\ outbox[k].op = o /\ x \in outbox[k].ids
      BY <2>4 DEF Queued
    <3> QED BY <1>2, <2>2, <3>1 DEF Queued
  <2>5. ASSUME NEW x \in s, NEW i \in Nat, i <= Len(outbox) PROVE Queued(op, x, i)'
    BY <1>1, <1>2, <2>2, <2>5 DEF Queued
  <2> QED BY <1>2, <2>3, <2>4, <2>5
<1> QED BY <1>3, <1>4

LEMMA QueueMoves ==
  ASSUME outbox \in Seq(Packets), outbox # << >>, outbox' = Tail(outbox)
  PROVE  /\ 1 \in DOMAIN outbox /\ Head(outbox) = outbox[1]
         /\ \A k \in DOMAIN outbox' :
              k \in Nat /\ k + 1 \in DOMAIN outbox /\ outbox'[k] = outbox[k + 1]
         /\ \A o, x : Queued(o, x, 0) =>
              (outbox[1].op = o /\ x \in outbox[1].ids) \/ Queued(o, x, 0)'
         /\ \A o, x : \A i \in Nat : Queued(o, x, i + 1) => Queued(o, x, i)'
<1>1. /\ Len(outbox) \in Nat \ {0} /\ Head(outbox) = outbox[1]
      /\ Len(outbox') = Len(outbox) - 1 /\ DOMAIN outbox = 1..Len(outbox)
      /\ DOMAIN outbox' = 1..(Len(outbox) - 1)
      /\ \A k \in 1..(Len(outbox) - 1) : outbox'[k] = outbox[k + 1]
  OBVIOUS
<1>2. ASSUME NEW o, NEW x, Queued(o, x, 0), ~(outbox[1].op = o /\ x \in outbox[1].ids)
      PROVE  Queued(o, x, 0)'
  <2>1. PICK k \in DOMAIN outbox : outbox[k].op = o /\ x \in outbox[k].ids
    BY <1>2, Zenon DEF Queued
  <2>2. k - 1 \in 1..Len(outbox') /\ outbox'[k - 1] = outbox[k]
    BY <1>1, <1>2, <2>1
  <2> QED BY <2>1, <2>2 DEF Queued
<1>3. ASSUME NEW o, NEW x, NEW i \in Nat, Queued(o, x, i + 1) PROVE Queued(o, x, i)'
  <2>1. PICK k \in DOMAIN outbox : k > i + 1 /\ outbox[k].op = o /\ x \in outbox[k].ids
    BY <1>3, Zenon DEF Queued
  <2>2. k - 1 \in 1..Len(outbox') /\ k - 1 > i /\ outbox'[k - 1] = outbox[k]
    BY <1>1, <2>1
  <2> QED BY <2>1, <2>2 DEF Queued
<1> QED BY <1>1, <1>2, <1>3

LEMMA InformedSame ==
  ASSUME Informed, UNCHANGED <<table, registered, announced, outbox, ids>>,
         \/ UNCHANGED <<conn, known, asks>>
         \/ conn' # "up" /\ known' = {} /\ asks' = FALSE
         \/ conn # "up" /\ conn' # "up" /\ UNCHANGED <<known, asks>>
         \/ conn = "up" /\ conn' = "up" /\ known' = {} /\ asks' = TRUE
  PROVE  Informed'
<1>1. \A o, x, i : Queued(o, x, i)' <=> Queued(o, x, i)
  BY DEF Queued
<1> QED BY <1>1 DEF Informed

LEMMA AddServiceInformed ==
  ASSUME TypeOK, Counted, Informed, AddService
  PROVE  Informed'
<1>1. /\ ids' = ids + 1 /\ table' = table \cup {ids + 1} /\ ids \in Nat
      /\ UNCHANGED <<registered, outbox, conn, known, asks, announced>>
  BY CountedNow DEF AddService, linkVars, dnsVars
<1>2. \A o, x, i : Queued(o, x, i)' <=> Queued(o, x, i)
  BY <1>1 DEF Queued
<1>3. \A k \in DOMAIN outbox : ids + 1 \notin outbox[k].ids /\ outbox[k].ids \subseteq 1..(ids + 1)
  BY <1>1 DEF Informed
<1> QED BY <1>1, <1>2, <1>3 DEF Informed

LEMMA WithdrawInformed ==
  ASSUME TypeOK, Counted, Informed, NEW t, NEW s, NEW next, Withdraw(t, s, next),
         UNCHANGED <<conn, known, asks, ids>>
  PROVE  Informed'
<1>1. CASE UNCHANGED <<table, registered, announced, outbox>>
  BY <1>1, InformedSame
<1>2. CASE /\ s \in table /\ outbox' = Packet("remove", {s}) /\ table' = table \ {s}
           /\ registered' = registered \ {s} /\ announced' = announced \ {s}
  <2>1. /\ \A k \in DOMAIN outbox' :
             \/ k \in DOMAIN outbox /\ outbox'[k] = outbox[k]
             \/ outbox'[k].op = "remove" /\ outbox'[k].ids = {s}
        /\ \A k \in DOMAIN outbox : k \in Nat /\ k <= Len(outbox)
        /\ \A o, x : \A i \in Nat : Queued(o, x, i) => Queued(o, x, i)'
        /\ Open' => \A i \in Nat : i <= Len(outbox) => Queued("remove", s, i)'
    <3>1. {s} \subseteq IDs /\ outbox \in Seq(Packets)
      BY <1>2 DEF TypeOK, ServicesOK
    <3> QED BY <1>2, <3>1, QueueGrows
  <2>2. s \in 1..ids /\ Len(outbox) \in Nat
    <3>1. outbox \in Seq(Packets)
      BY DEF TypeOK
    <3> QED BY <1>2, <3>1 DEF Counted
  <2>3. \A k \in DOMAIN outbox' :
          /\ outbox'[k].ids \subseteq 1..ids'
          /\ outbox'[k].op = "remove" => outbox'[k].ids \cap table' = {}
    BY <1>2, <2>1, <2>2 DEF Informed
  <2>4. ASSUME conn = "up"
        PROVE  /\ announced' \subseteq registered'
               /\ ~asks' => \A x \in registered' : x \in known' \/ Queued("add", x, 0)'
               /\ \A x \in known' \ table' : Queued("remove", x, 0)'
               /\ \A k \in DOMAIN outbox' : outbox'[k].op = "add" =>
                    \A x \in outbox'[k].ids \ table' : Queued("remove", x, k)'
    <3>1. Open'
      BY <2>4 DEF Open
    <3>2. announced' \subseteq registered'
      BY <1>2, <2>4 DEF Informed
    <3>3. ~asks' => \A x \in registered' : x \in known' \/ Queued("add", x, 0)'
      BY <1>2, <2>1, <2>4 DEF Informed
    <3>4. \A i \in Nat : i <= Len(outbox) => Queued("remove", s, i)'
      BY <2>1, <3>1
    <3>5. \A x \in known' \ table' : Queued("remove", x, 0)'
      <4>1. Queued("remove", s, 0)'
        BY <2>2, <3>4
      <4> QED BY <1>2, <2>1, <2>4, <4>1 DEF Informed
    <3>6. ASSUME NEW k \in DOMAIN outbox', outbox'[k].op = "add",
                 NEW x \in outbox'[k].ids \ table'
          PROVE  Queued("remove", x, k)'
      <4>1. k \in DOMAIN outbox /\ outbox'[k] = outbox[k]
        BY <2>1, <3>6
      <4>2. CASE x = s
        BY <2>1, <2>2, <3>4, <4>1, <4>2
      <4>3. CASE x # s
        BY <1>2, <2>1, <2>4, <3>6, <4>1, <4>3 DEF Informed
      <4> QED BY <4>2, <4>3
    <3> QED BY <3>2, <3>3, <3>5, <3>6
  <2>5. asks' \/ known' # {} => conn' = "up"
    BY DEF Informed
  <2> QED BY <2>3, <2>4, <2>5 DEF Informed
<1> QED BY <1>1, <1>2, Withdraws

(* A step that registers, over a connection that it has or that has just   *)
(* come about, all that it has not registered yet or all.                  *)
LEMMA RegisterInformed ==
  ASSUME TypeOK, Counted, Informed, TypeOK', Counted',
         NEW s, s \subseteq table', outbox' = Packet("add", s),
         table \subseteq table', table' \ table \subseteq (ids + 1)..ids', ids <= ids',
         registered' = table', announced' \subseteq table',
         conn' = "up" => Open',
         \/ UNCHANGED <<conn, known>> /\ s = table' \ registered /\ UNCHANGED asks
         \/ conn' = "up" /\ UNCHANGED known /\ s = table' /\ (conn = "up" \/ outbox = << >>)
  PROVE  Informed'
<1>1. s \subseteq IDs /\ outbox \in Seq(Packets) /\ ids \in Nat /\ ids' \in Nat
  BY CountedNow DEF TypeOK, ServicesOK
<1>2. /\ \A k \in DOMAIN outbox' :
           \/ k \in DOMAIN outbox /\ outbox'[k] = outbox[k]
           \/ outbox'[k].op = "add" /\ outbox'[k].ids = s
      /\ \A k \in DOMAIN outbox : k \in Nat /\ k <= Len(outbox)
      /\ \A o, x : \A i \in Nat : Queued(o, x, i) => Queued(o, x, i)'
      /\ Open' => \A x \in s, i \in Nat : i <= Len(outbox) => Queued("add", x, i)'
  BY <1>1, QueueGrows
<1>3. \A k \in DOMAIN outbox' :
        /\ outbox'[k].ids \subseteq 1..ids'
        /\ outbox'[k].op = "remove" => outbox'[k].ids \cap table' = {}
  <2>1. \A k \in DOMAIN outbox :
          /\ outbox[k].ids \subseteq 1..ids'
          /\ outbox[k].op = "remove" => outbox[k].ids \cap table' = {}
    BY <1>1 DEF Informed
  <2>2. s \subseteq 1..ids'
    BY DEF Counted
  <2> QED BY <1>2, <2>1, <2>2
<1>4. asks' \/ known' # {} => conn' = "up"
  BY DEF Informed
<1>5. ASSUME conn' = "up"
      PROVE  /\ ~asks' => \A x \in registered' : x \in known' \/ Queued("add", x, 0)'
             /\ \A x \in known' \ table' : Queued("remove", x, 0)'
             /\ \A k \in DOMAIN outbox' : outbox'[k].op = "add" =>
                  \A x \in outbox'[k].ids \ table' : Queued("remove", x, k)'
  <2>1. \A x \in s : Queued("add", x, 0)'
    BY <1>1, <1>2, <1>5
  <2>2. ~asks' => \A x \in registered' : x \in known' \/ Queued("add", x, 0)'
    BY <1>2, <1>5, <2>1 DEF Informed
  <2>3. \A x \in known' \ table' : Queued("remove", x, 0)'
    <3>1. CASE conn = "up"
      BY <1>2, <3>1 DEF Informed
    <3>2. CASE conn # "up"
      BY <3>2 DEF Informed
    <3> QED BY <3>1, <3>2
  <2>4. ASSUME NEW k \in DOMAIN outbox', outbox'[k].op = "add",
               NEW x \in outbox'[k].ids \ table'
        PROVE  Queued("remove", x, k)'
    <3>1. k \in DOMAIN outbox /\ outbox'[k] = outbox[k]
      BY <1>2, <2>4
    <3>2. conn = "up"
      BY <1>5, <3>1
    <3>3. x \in outbox[k].ids \ table /\ outbox[k].op = "add"
      BY <2>4, <3>1
    <3> QED BY <1>2, <3>1, <3>2, <3>3 DEF Informed
  <2> QED BY <2>2, <2>3, <2>4
<1> QED BY <1>3, <1>4, <1>5 DEF Informed

LEMMA DeliverInformed ==
  ASSUME TypeOK, Informed, Deliver
  PROVE  Informed'
<1>1. /\ outbox \in Seq(Packets) /\ outbox # << >> /\ outbox' = Tail(outbox)
      /\ UNCHANGED <<table, registered, announced, conn, asks, ids>>
  BY DEF Deliver, TypeOK, tableVars, linkVars, appVars
<1>2. /\ 1 \in DOMAIN outbox /\ Head(outbox) = outbox[1]
      /\ \A k \in DOMAIN outbox' :
           k \in Nat /\ k + 1 \in DOMAIN outbox /\ outbox'[k] = outbox[k + 1]
      /\ \A o, x : Queued(o, x, 0) =>
           (outbox[1].op = o /\ x \in outbox[1].ids) \/ Queued(o, x, 0)'
      /\ \A o, x : \A i \in Nat : Queued(o, x, i + 1) => Queued(o, x, i)'
  BY <1>1, QueueMoves
<1>3. outbox[1].op \in {"add", "remove"}
  <2>1. outbox[1] \in Packets
    BY <1>1, <1>2
  <2> QED BY <2>1 DEF Packets
<1>4. \A k \in DOMAIN outbox' :
        /\ outbox'[k].ids \subseteq 1..ids'
        /\ outbox'[k].op = "remove" => outbox'[k].ids \cap table' = {}
  BY <1>1, <1>2 DEF Informed
<1>5. CASE conn # "up"
  <2>1. UNCHANGED known
    BY <1>5 DEF Deliver
  <2> QED BY <1>1, <1>4, <1>5, <2>1 DEF Informed
<1>6. CASE conn = "up"
  <2>1. known' = IF outbox[1].op = "add" THEN known \cup outbox[1].ids ELSE known \ outbox[1].ids
    BY <1>2, <1>6 DEF Deliver
  <2>2. ASSUME ~asks', NEW x \in registered' PROVE x \in known' \/ Queued("add", x, 0)'
    <3>1. x \in known \/ Queued("add", x, 0)
      BY <1>1, <1>6, <2>2 DEF Informed
    <3>2. CASE x \in known
      <4>1. x \in table
        BY <1>1, <2>2 DEF TypeOK, ServicesOK
      <4>2. outbox[1].op = "remove" => x \notin outbox[1].ids
        BY <1>2, <4>1 DEF Informed
      <4> QED BY <1>3, <2>1, <3>2, <4>2
    <3>3. CASE Queued("add", x, 0)
      BY <1>2, <2>1, <3>3
    <3> QED BY <3>1, <3>2, <3>3
  <2>3. ASSUME NEW x \in known' \ table' PROVE Queued("remove", x, 0)'
    <3>1. CASE outbox[1].op = "add" /\ x \in outbox[1].ids
      <4>1. Queued("remove", x, 1)
        BY <1>1, <1>2, <1>6, <2>3, <3>1 DEF Informed
      <4>2. Queued("remove", x, 0 + 1) => Queued("remove", x, 0)'
        BY <1>2
      <4> QED BY <4>1, <4>2
    <3>2. CASE ~(outbox[1].op = "add" /\ x \in outbox[1].ids)
      <4>1. x \in known /\ ~(outbox[1].op = "remove" /\ x \in outbox[1].ids)
        BY <2>1, <2>3, <3>2
      <4>2. Queued("remove", x, 0)
        BY <1>1, <1>6, <2>3, <4>1 DEF Informed
      <4> QED BY <1>2, <4>1, <4>2
    <3> QED BY <3>1, <3>2
  <2>4. ASSUME NEW k \in DOMAIN outbox', outbox'[k].op = "add",
               NEW x \in outbox'[k].ids \ table'
        PROVE  Queued("remove", x, k)'
    <3>1. k \in Nat /\ k + 1 \in DOMAIN outbox /\ outbox'[k] = outbox[k + 1]
      BY <1>2
    <3>2. Queued("remove", x, k + 1)
      BY <1>1, <1>6, <2>4, <3>1 DEF Informed
    <3> QED BY <1>2, <3>1, <3>2
  <2> QED BY <1>1, <1>4, <1>6, <2>2, <2>3, <2>4 DEF Informed
<1> QED BY <1>5, <1>6

LEMMA StartServingInformed ==
  ASSUME TypeOK, Counted, Informed, TypeOK', Counted', StartServing
  PROVE  Informed'
<1>1. /\ Added \in Nat /\ ids \in Nat /\ ids' = ids + Added
      /\ table' = table \cup (ids + 1)..(ids + Added)
      /\ announced' = table' /\ UNCHANGED <<known, asks>>
  BY StartServingFinds, CountedNow DEF dnsVars
<1>2. CASE conn = "none"
  <2>1. conn' = "pending" /\ UNCHANGED outbox
    BY <1>2, StartServingFinds, Zenon
  <2>2. \A k \in DOMAIN outbox :
          /\ outbox[k].ids \subseteq 1..ids'
          /\ outbox[k].op = "remove" => outbox[k].ids \cap table' = {}
    BY <1>1 DEF Informed
  <2> QED BY <1>1, <1>2, <2>1, <2>2 DEF Informed
<1>3. CASE conn # "none"
  <2>1. UNCHANGED conn /\ registered' = table' /\ outbox' = Packet("add", table' \ registered)
    BY <1>3, StartServingFinds, Zenon
  <2>2. table' \ table \subseteq (ids + 1)..ids' /\ table \subseteq table' /\ ids <= ids'
    BY <1>1
  <2>3. conn' = "up" => Open'
    BY DEF Open
  <2> QED BY <1>1, <2>1, <2>2, <2>3, RegisterInformed
<1> QED BY <1>2, <1>3

LEMMA InformedStep ==
  ASSUME TypeOK, Counted, Informed, TypeOK', Counted', [Next]_vars
  PROVE  Informed'
<1> USE DEF tableVars, linkVars, dnsVars, appVars
<1>1. CASE AddService \/ AddCommand
  BY <1>1, AddServiceInformed DEF AddCommand
<1>2. CASE StartFails \/ StopServing
  BY <1>2, InformedSame DEF StartFails, StopServing
<1>3. CASE StartServing
  BY <1>3, StartServingInformed
<1>4. ASSUME NEW s \in wanted, RemoveService(s) PROVE Informed'
  BY <1>4, WithdrawInformed DEF RemoveService, removeUnchanged
<1>5. ASSUME NEW t \in Threads, StopStep(t) PROVE Informed'
  <2>1. CASE StopRemove(t, "pick", "remove") \/ StopRemove(t, "allPick", "allRemove")
    BY <2>1, WithdrawInformed DEF StopRemove, removeUnchanged
  <2>2. CASE Stop(t) \/ StopClose(t) \/ StopClean(t) \/ StopDns(t) \/ StopAll(t) \/ StopEnd(t)
    BY <2>2, InformedSame DEF Stop, StopClose, StopClean, StopDns, StopAll, StopEnd
  <2>3. CASE StopPick(t, "pick", "remove", "clean") \/ StopPick(t, "allPick", "allRemove", "end")
    BY <2>3, InformedSame DEF StopPick
  <2> QED BY <1>5, <2>1, <2>2, <2>3 DEF StopStep
<1>6. ASSUME NEW s \in table, UpdateBegin(s) PROVE Informed'
  BY <1>6, InformedSame DEF UpdateBegin
<1>7. ASSUME NEW s \in updating, UpdateEnd(s) PROVE Informed'
  <2>1. CASE s \in doomed
    BY <1>7, <2>1, WithdrawInformed DEF UpdateEnd, removeUnchanged
  <2>2. CASE s \notin doomed
    BY <1>7, <2>2, InformedSame DEF UpdateEnd, removeUnchanged
  <2> QED BY <2>1, <2>2
<1>8. CASE Connect
  <2>1. CASE serving
    <3>1. /\ conn' = "up" /\ RegisterAll /\ outbox = << >>
          /\ UNCHANGED <<table, announced, ids, known>>
      BY <1>8, <2>1 DEF Connect
    <3>2. registered' = table /\ outbox' = Packet("add", table)
      BY <3>1 DEF RegisterAll
    <3>3. announced \subseteq table /\ ids \in Nat /\ Open'
      BY <3>1, CountedNow DEF TypeOK, ServicesOK, Open
    <3> QED BY <3>1, <3>2, <3>3, RegisterInformed
  <2>2. CASE ~serving
    BY <1>8, <2>2, InformedSame DEF Connect
  <2> QED BY <2>1, <2>2
<1>9. CASE Ask
  <2>1. /\ conn = "up" /\ RegisterAll /\ UNCHANGED <<conn, table, announced, ids, known>>
    BY <1>9 DEF Ask, Informed
  <2>2. registered' = table /\ outbox' = Packet("add", table)
    BY <2>1 DEF RegisterAll
  <2>3. announced \subseteq table /\ ids \in Nat /\ Open'
    BY <2>1, CountedNow DEF TypeOK, ServicesOK, Open
  <2> QED BY <2>1, <2>2, <2>3, RegisterInformed
<1>10. CASE Disconnect \/ Kill \/ Break \/ Forget \/ UNCHANGED vars
  BY <1>10, InformedSame DEF Disconnect, Kill, Break, Forget, vars
<1>11. CASE Deliver
  BY <1>11, DeliverInformed
<1> QED BY <1>1, <1>2, <1>3, <1>4, <1>5, <1>6, <1>7, <1>8, <1>9, <1>10, <1>11 DEF Next

-----------------------------------------------------------------------------
(* The theorems.                                                           *)

LEMMA TypesStep ==
  ASSUME TypeOK, Counted, Places, [Next]_vars
  PROVE  TypeOK' /\ Counted'
<1>1. CASE AddService \/ AddCommand
  BY <1>1, AddServiceTypes DEF AddCommand
<1>2. CASE StartFails \/ StartServing \/ StopServing
  BY <1>2, StartFailsTypes, StartServingTypes, StopServingTypes
<1>3. ASSUME NEW s \in wanted, RemoveService(s) PROVE TypeOK' /\ Counted'
  BY <1>3, RemoveServiceTypes
<1>4. ASSUME NEW t \in Threads, StopStep(t) PROVE TypeOK' /\ Counted'
  <2>1. CASE Stop(t) \/ StopClose(t) \/ StopDns(t) \/ StopAll(t) \/ StopEnd(t)
    BY <2>1, StopMovesTypes
  <2>2. CASE StopClean(t)
    <3>1. table = {}
      BY <2>2 DEF StopClean, Places, pc
    <3> QED BY <2>2, <3>1, StopCleanTypes
  <2>3. CASE StopPick(t, "pick", "remove", "clean") \/ StopPick(t, "allPick", "allRemove", "end")
    BY <2>3, StopPickTypes DEF PCs
  <2>4. CASE StopRemove(t, "pick", "remove") \/ StopRemove(t, "allPick", "allRemove")
    BY <2>4, StopRemoveTypes DEF PCs
  <2> QED BY <1>4, <2>1, <2>2, <2>3, <2>4 DEF StopStep
<1>5. ASSUME NEW s \in table, UpdateBegin(s) PROVE TypeOK' /\ Counted'
  BY <1>5, UpdateBeginTypes
<1>6. ASSUME NEW s \in updating, UpdateEnd(s) PROVE TypeOK' /\ Counted'
  BY <1>6, UpdateEndTypes
<1>7. CASE Connect \/ Disconnect \/ Ask \/ Kill \/ Break \/ Forget
  BY <1>7, LinkTypes
<1>8. CASE Deliver
  BY <1>8, DeliverTypes
<1>9. CASE UNCHANGED vars
  <2> USE DEF vars, serveVars, linkVars, dnsVars, appVars
  <2>1. FlagsOK'
    BY <1>9, Zenon DEF TypeOK, FlagsOK
  <2>2. proc' \in [Threads -> Positions]
    BY <1>9, Zenon DEF TypeOK
  <2> QED BY <1>9, <2>1, <2>2, MoveTypes
<1> QED BY <1>1, <1>2, <1>3, <1>4, <1>5, <1>6, <1>7, <1>8, <1>9 DEF Next

LEMMA InitInv == Init => Inv
<1> SUFFICES ASSUME Init PROVE Inv
  OBVIOUS
<1>1. TypeOK /\ Counted
  BY TypesInit
<1>2. Informed
  BY DEF Init, Informed
<1>3. Calm /\ \A t \in Threads : pc(t) = "idle"
  BY DEF Init, Calm, pc, Idle
<1>4. Places
  BY <1>3 DEF Places, Calm, Down, Threads
<1>5. Stopping
  BY DEF Init, Stopping
<1>6. Kept
  BY <1>3 DEF Init, Kept, Threads
<1> QED BY <1>1, <1>2, <1>4, <1>5, <1>6 DEF Inv

LEMMA InvStep == Inv /\ [Next]_vars => Inv'
BY TypesStep, PlacesStep, StoppingStep, KeptStep, InformedStep DEF Inv

(* The three layers hold together in every state.                          *)
THEOREM RegistrationInvariance == Spec => []Inv
BY InitInv, InvStep, PTL DEF Spec

(* Every variable keeps its type; in particular the numbers of services    *)
(* never leave their range.                                                *)
THEOREM RegistrationTypeCorrect == Spec => []TypeOK
<1>1. Inv => TypeOK
  BY DEF Inv
<1> QED BY <1>1, RegistrationInvariance, PTL

(* The counts by which dis.c finds new services, and knows when to stop,   *)
(* are right whatever is added, removed, registered and put off.           *)
THEOREM NewEntriesAreFound == Spec => []Counted
<1>1. Inv => Counted
  BY DEF Inv
<1> QED BY <1>1, RegistrationInvariance, PTL

(* When nothing is on its way the name server knows every service that was *)
(* there when the application last said so, and none that is gone, however *)
(* connections broke and services came and went before.                    *)
THEOREM NameServerIsRight == Spec => []NameServerKnows
<1>1. Inv => NameServerKnows
  BY DEF Inv, Informed, NameServerKnows, Queued
<1> QED BY <1>1, RegistrationInvariance, PTL

(* A server that has started and is not about to stop has its port open,   *)
(* and the watchdog of a connection is set unless serving has lapsed.      *)
THEOREM ServerIsReachable == Spec => []Reachable
<1>1. Inv => Reachable
  BY DEF Inv, Stopping, Calm, Reachable
<1> QED BY <1>1, RegistrationInvariance, PTL

(* No service goes that the application has not taken back, although the   *)
(* number of services decides when to stop and the removal of others may   *)
(* have been put off.                                                      *)
THEOREM ServicesAreKept == Spec => []ServicesKept
<1>1. Inv => ServicesKept
  BY DEF Inv, Kept, ServicesKept
<1> QED BY <1>1, RegistrationInvariance, PTL
==============================================================================
