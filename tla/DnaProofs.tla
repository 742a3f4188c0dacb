------------------------------ MODULE DnaProofs ------------------------------
(***************************************************************************)
(* Theorems of Dna, for any connections, sizes of packets, reads and       *)
(* writes, and number of packets.                                          *)
(*                                                                         *)
(* The invariant looks at all that is between the writer of a connection   *)
(* and its reader as one stream of units: what the reader has in its       *)
(* buffer, what is on its way, and what is left of the write in progress.  *)
(* Each unit fixes the next: the next one of the same packet, or the first *)
(* one of a packet that begins.  The stream is complete while the          *)
(* connection stands and no write has timed out, and a part of that        *)
(* otherwise, until the reader goes astray.                                *)
(***************************************************************************)
EXTENDS Dna, SequenceTheorems, WellFoundedInduction, TLAPS

(* What can be written, and the units of it.                               *)
Packets == DataPackets \cup {OpenPacket, TestPacket, AlienPacket}
Size(p) == IF p.kind = "test" THEN HeaderSize ELSE HeaderSize + BodySize
AllUnits == {u \in Packets \X Nat : 1 <= u[2] /\ u[2] <= Size(u[1])}

(* The packets a client writes first, and nobody writes later.             *)
First(p) == p.kind \in {"open", "alien"}

IsData(u) == IF u[1].kind = "data" THEN 1 ELSE 0
Begins(u) == IF u[1].kind = "data" /\ u[2] = 1 THEN 1 ELSE 0

-----------------------------------------------------------------------------
(* A stream s of units with the number f[k] of data packets that were      *)
(* written up to the packet of s[k], this one included.                    *)

Counters == [Nat -> Nat]

Follows(u, v) ==
  IF u[2] < Size(u[1]) THEN v = <<u[1], u[2] + 1>> ELSE v[2] = 1 /\ ~First(v[1])

Chained(s, f) ==
  \A k \in 1..Len(s) : k + 1 <= Len(s) =>
    Follows(s[k], s[k + 1]) /\ f[k + 1] = f[k] + Begins(s[k + 1])

(* The data packets are those of w, in that order.                         *)
Numbered(s, w, f) ==
  \A k \in 1..Len(s) :
    /\ f[k] <= Len(w)
    /\ s[k][1].kind = "data" => f[k] >= 1 /\ w[f[k]] = s[k][1]

(* Where the stream starts: at the unit "start" of a packet, after n data  *)
(* packets.  A client's first packet comes before the reader has seen one, *)
(* and alien packets on alien connections only.                            *)
Starts(s, start, seen, n, alien, f) ==
  s # <<>> =>
    /\ s[1][2] = start /\ f[1] = n + IsData(s[1])
    /\ First(s[1][1]) => ~seen
    /\ s[1][1].kind = "alien" => start = 1 /\ alien

(* It ends with a packet, the last one of w.                               *)
AtEnd(s, w, f) == s[Len(s)][2] = Size(s[Len(s)][1]) /\ f[Len(s)] = Len(w)
Ended(s, start, n, w, f) ==
  IF s = <<>> THEN start = 1 /\ n = Len(w) ELSE AtEnd(s, w, f)

InOrder(s, start, seen, n, w, up, alien, f) ==
  /\ Chained(s, f) /\ Numbered(s, w, f)
  /\ Starts(s, start, seen, n, alien, f)
  /\ up => Ended(s, start, n, w, f)

(* t is what remains of s, and Shifted(f, m) of f, after m units.          *)
IsRest(t, s, m) == Len(t) = Len(s) - m /\ \A k \in 1..Len(t) : t[k] = s[k + m]
Shifted(f, m) == [k \in Nat |-> f[k + m]]

(* t is s and all of p after it.                                           *)
IsExtended(t, s, p) ==
  /\ Len(t) = Len(s) + Size(p)
  /\ \A k \in 1..Len(s) : t[k] = s[k]
  /\ \A k \in 1..Size(p) : t[Len(s) + k] = <<p, k>>

(* The data packets when p is written after those of w.                    *)
With(w, p) == IF p.kind = "data" THEN Append(w, p) ELSE w

-----------------------------------------------------------------------------
(* Packets and units.                                                      *)

LEMMA Constants ==
  /\ HeaderSize \in Nat /\ HeaderSize >= 1 /\ BodySize \in Nat /\ BodySize >= 1
  /\ MaxTimedOut \in Nat /\ MaxTimedOut >= 1 /\ MaxPackets \in Nat
  /\ MaxConns \in Nat /\ MaxRead \in Nat /\ MaxWrite \in Nat /\ 0 \notin Conns
BY DnaAssumption DEF Conns

LEMMA Kinds ==
  /\ \A p \in DataPackets : p \in Packets /\ p.kind = "data"
  /\ OpenPacket \in Packets /\ OpenPacket.kind = "open"
  /\ TestPacket \in Packets /\ TestPacket.kind = "test"
  /\ AlienPacket \in Packets /\ AlienPacket.kind = "alien"
  /\ \A p \in Packets : p.kind \in {"data", "open", "test", "alien"}
  /\ \A p \in Packets : p.kind = "data" => p \in DataPackets
BY DEF Packets, DataPackets, OpenPacket, TestPacket, AlienPacket, Packet

LEMMA Sizes ==
  ASSUME NEW p \in Packets
  PROVE  /\ Size(p) \in Nat /\ HeaderSize <= Size(p)
         /\ p.kind = "test" => Size(p) = HeaderSize
         /\ p.kind # "test" => Size(p) = HeaderSize + BodySize /\ HeaderSize < Size(p)
BY Constants DEF Size

LEMMA SizesDiffer ==
  ASSUME NEW p \in Packets
  PROVE  /\ p.kind = "test" => ~(HeaderSize < Size(p))
         /\ p.kind # "test" => HeaderSize # Size(p)
BY Constants DEF Size

LEMMA UnitsAre ==
  ASSUME NEW u \in AllUnits
  PROVE  /\ u = <<u[1], u[2]>> /\ u[1] \in Packets
         /\ u[2] \in Nat /\ 1 <= u[2] /\ u[2] <= Size(u[1])
BY DEF AllUnits

LEMMA WholeIs ==
  ASSUME NEW p \in Packets
  PROVE  /\ Whole(p) \in Seq(AllUnits) /\ Len(Whole(p)) = Size(p)
         /\ \A i \in 1..Size(p) : Whole(p)[i] = <<p, i>>
         /\ Header(p) \in Seq(AllUnits) /\ Len(Header(p)) = HeaderSize
         /\ \A i \in 1..HeaderSize : Header(p)[i] = <<p, i>>
         /\ Body(p) \in Seq(AllUnits) /\ Len(Body(p)) = Size(p) - HeaderSize
         /\ \A i \in 1..(Size(p) - HeaderSize) : Body(p)[i] = <<p, HeaderSize + i>>
<1>0. /\ HeaderSize \in Nat /\ HeaderSize >= 1 /\ BodySize \in Nat /\ BodySize >= 1
      /\ Size(p) \in Nat /\ HeaderSize <= Size(p)
  BY Constants, Sizes
<1>1. ASSUME NEW a \in Nat, NEW b \in Nat, 1 <= a, a <= b + 1, b <= Size(p)
      PROVE  /\ Units(p, a, b) \in Seq(AllUnits)
             /\ Len(Units(p, a, b)) = b + 1 - a
             /\ \A i \in 1..(b + 1 - a) : Units(p, a, b)[i] = <<p, a - 1 + i>>
  <2>1. \A i \in 1..(b + 1 - a) : <<p, a - 1 + i>> \in AllUnits
    BY <1>0, <1>1 DEF AllUnits
  <2>2. b + 1 - a \in Nat
    BY <1>0, <1>1
  <2> QED BY <2>1, <2>2 DEF Units
<1>2. /\ Header(p) \in Seq(AllUnits) /\ Len(Header(p)) = HeaderSize
      /\ \A i \in 1..HeaderSize : Header(p)[i] = <<p, i>>
  <2>1. 1 \in Nat /\ 1 <= 1 /\ 1 <= HeaderSize + 1
    BY <1>0
  <2> HIDE DEF Units
  <2>2. /\ Header(p) \in Seq(AllUnits) /\ Len(Header(p)) = HeaderSize + 1 - 1
        /\ \A i \in 1..(HeaderSize + 1 - 1) : Header(p)[i] = <<p, 1 - 1 + i>>
    BY <1>0, <1>1, <2>1, Zenon DEF Header
  <2> QED BY <1>0, <2>2
<1>3. /\ Body(p) \in Seq(AllUnits) /\ Len(Body(p)) = Size(p) - HeaderSize
      /\ \A i \in 1..(Size(p) - HeaderSize) : Body(p)[i] = <<p, HeaderSize + i>>
  <2>1. CASE p.kind = "test"
    <3>1. Body(p) = <<>> /\ Size(p) = HeaderSize
      BY <2>1 DEF Body, Size
    <3> QED BY <1>0, <3>1
  <2>2. CASE p.kind # "test"
    <3> DEFINE a == HeaderSize + 1
               b == HeaderSize + BodySize
    <3>1. Body(p) = Units(p, a, b) /\ Size(p) = b
      BY <2>2 DEF Body, Size
    <3>2. /\ a \in Nat /\ b \in Nat /\ 1 <= a /\ a <= b + 1 /\ b <= Size(p)
          /\ b + 1 - a = Size(p) - HeaderSize /\ a - 1 = HeaderSize
      BY <1>0, <3>1
    <3> HIDE DEF a, b
    <3>3. /\ Body(p) \in Seq(AllUnits) /\ Len(Body(p)) = b + 1 - a
          /\ \A i \in 1..(b + 1 - a) : Body(p)[i] = <<p, a - 1 + i>>
      BY <1>1, <3>1, <3>2, Zenon
    <3> QED BY <3>2, <3>3, Zenon
  <2> QED BY <2>1, <2>2
<1>4. /\ Whole(p) \in Seq(AllUnits)
      /\ Len(Whole(p)) = Len(Header(p)) + Len(Body(p))
      /\ \A i \in 1..(Len(Header(p)) + Len(Body(p))) :
           Whole(p)[i] = IF i <= Len(Header(p)) THEN Header(p)[i]
                                                ELSE Body(p)[i - Len(Header(p))]
  BY <1>2, <1>3, ConcatProperties DEF Whole
<1>5. ASSUME NEW i \in 1..Size(p) PROVE Whole(p)[i] = <<p, i>>
  <2>1. Whole(p)[i] = IF i <= HeaderSize THEN Header(p)[i] ELSE Body(p)[i - HeaderSize]
    BY <1>0, <1>2, <1>3, <1>4
  <2>2. CASE i <= HeaderSize
    BY <1>0, <1>2, <2>1, <2>2
  <2>3. CASE ~(i <= HeaderSize)
    <3>1. /\ i - HeaderSize \in 1..(Size(p) - HeaderSize)
          /\ HeaderSize + (i - HeaderSize) = i
      BY <1>0, <2>3
    <3>2. Body(p)[i - HeaderSize] = <<p, HeaderSize + (i - HeaderSize)>>
      BY <1>3, <3>1, Zenon
    <3> QED BY <2>1, <2>3, <3>1, <3>2
  <2> QED BY <2>2, <2>3
<1> QED BY <1>0, <1>2, <1>3, <1>4, <1>5

-----------------------------------------------------------------------------
(* Streams.                                                                *)

LEMMA Lengths ==
  ASSUME NEW S, NEW s \in Seq(S)
  PROVE  /\ Len(s) \in Nat /\ (s = <<>> => Len(s) = 0) /\ (s # <<>> => Len(s) >= 1)
         /\ \A k \in 1..Len(s) : s[k] \in S
<1>1. Len(s) \in Nat
  BY LenProperties, Zenon
<1>2. s = <<>> => Len(s) = 0
  BY EmptySeq, Zenon
<1>3. s # <<>> => Len(s) \in Nat \ {0}
  BY EmptySeq, Zenon
<1>4. \A k \in 1..Len(s) : s[k] \in S
  BY ElementOfSeq, Zenon
<1> QED BY <1>1, <1>2, <1>3, <1>4

(* The units of the first packet of a stream come one after another.       *)
LEMMA Run ==
  ASSUME NEW s \in Seq(AllUnits), NEW f \in Counters, Chained(s, f),
         NEW p, NEW i, s[1] = <<p, i>>,
         NEW j \in 1..Len(s), i + j - 1 <= Size(p)
  PROVE  s[j] = <<p, i + j - 1>> /\ f[j] = f[1]
<1> DEFINE Right(m) == s[m] = <<p, i + m - 1>> /\ f[m] = f[1]
           B == {m \in Nat : 1 <= m /\ m <= Len(s) /\ i + m - 1 <= Size(p) /\ ~Right(m)}
<1>0. Len(s) \in Nat /\ j \in Nat /\ 1 <= j /\ j <= Len(s) /\ 1 \in 1..Len(s)
  <2>1. Len(s) \in Nat
    BY LenProperties, Zenon
  <2> HIDE DEF Right, B
  <2> QED BY <2>1
<1>1. p \in Packets /\ i \in Nat /\ 1 <= i
  <2>1. s[1] \in AllUnits
    BY <1>0, ElementOfSeq, Zenon
  <2> QED BY <2>1, UnitsAre
<1>2. Size(p) \in Nat
  BY <1>1, Sizes
<1>3. B = {}
  <2> SUFFICES ASSUME B # {} PROVE FALSE
    OBVIOUS
  <2>1. PICK m \in B : \A l \in B : ~(<<l, m>> \in OpToRel(<, Nat))
    <3>1. B \subseteq Nat
      OBVIOUS
    <3> HIDE DEF B
    <3> QED BY <3>1, NatLessThanWellFounded, WFMin, Zenon
  <2>2. \A l \in B : ~(l < m)
    <3>1. B \subseteq Nat
      OBVIOUS
    <3> HIDE DEF B
    <3> QED BY <2>1, <3>1, Zenon DEF OpToRel
  <2>3. m \in Nat /\ 1 <= m /\ m <= Len(s) /\ i + m - 1 <= Size(p) /\ ~Right(m)
    BY <2>1
  <2>4. m # 1
    <3>1. i + 1 - 1 = i
      BY <1>1
    <3>2. Right(1)
      BY <1>1, <3>1
    <3> QED BY <2>3, <3>2
  <2> DEFINE l == m - 1
  <2>5. l \in Nat /\ 1 <= l /\ l <= Len(s) /\ l \in 1..Len(s) /\ l + 1 = m /\ l < m
    BY <1>0, <2>3, <2>4
  <2>6. i + l - 1 < Size(p) /\ i + l - 1 + 1 = i + m - 1 /\ i + m - 1 # 1
    BY <1>1, <1>2, <2>3, <2>4
  <2> HIDE DEF l
  <2>7. s[l] = <<p, i + l - 1>> /\ f[l] = f[1]
    <3>1. i + l - 1 <= Size(p)
      BY <1>1, <1>2, <2>5, <2>6
    <3>2. l \notin B
      BY <2>2, <2>5
    <3> QED BY <2>5, <3>1, <3>2
  <2>8. Follows(s[l], s[m]) /\ f[m] = f[l] + Begins(s[m])
    BY <2>3, <2>5 DEF Chained
  <2>9. s[m] = <<p, i + m - 1>>
    <3>1. s[l][1] = p /\ s[l][2] = i + l - 1
      BY <2>7
    <3> QED BY <2>6, <2>8, <3>1 DEF Follows
  <2>10. Begins(s[m]) = 0
    BY <2>6, <2>9 DEF Begins
  <2>11. f[m] = f[1]
    <3>1. f[l] \in Nat
      BY <2>5 DEF Counters
    <3> QED BY <2>7, <2>8, <2>10, <3>1
  <2> QED BY <2>3, <2>9, <2>11
<1> QED BY <1>0, <1>3

LEMMA FirstRun ==
  ASSUME NEW s \in Seq(AllUnits), NEW f \in Counters, Chained(s, f),
         NEW p, NEW a \in Nat, s[1] = <<p, a + 1>>, NEW m \in Nat, m >= 1, m <= Len(s),
         a + m <= Size(p)
  PROVE  \A k \in 1..m : s[k] = <<p, a + k>> /\ f[k] = f[1]
<1> SUFFICES ASSUME NEW k \in 1..m PROVE s[k] = <<p, a + k>> /\ f[k] = f[1]
  OBVIOUS
<1>1. Len(s) \in Nat /\ s[1] \in AllUnits
  <2>1. Len(s) \in Nat
    BY Lengths, Zenon
  <2> QED BY <2>1, Lengths
<1>2. Size(p) \in Nat
  <2>1. p \in Packets
    BY <1>1, UnitsAre
  <2> QED BY <2>1, Sizes, Zenon
<1>3. k \in 1..Len(s) /\ (a + 1) + k - 1 <= Size(p) /\ (a + 1) + k - 1 = a + k
  BY <1>1, <1>2
<1>4. s[k] = <<p, (a + 1) + k - 1>> /\ f[k] = f[1]
  BY <1>3, Run, Zenon
<1> QED BY <1>3, <1>4, Zenon

(* The first units of a stream, when no more is promised.                  *)
LEMMA Prefix ==
  ASSUME NEW s \in Seq(AllUnits), NEW t \in Seq(AllUnits), NEW f \in Counters,
         NEW start, NEW seen, NEW n, NEW w, NEW up, NEW alien,
         InOrder(s, start, seen, n, w, up, alien, f),
         Len(t) <= Len(s), \A k \in 1..Len(t) : t[k] = s[k]
  PROVE  InOrder(t, start, seen, n, w, FALSE, alien, f)
<1>1. /\ Len(s) \in Nat /\ Len(t) \in Nat
      /\ \A k \in 1..Len(t) : k \in 1..Len(s)
      /\ t # <<>> => s # <<>> /\ t[1] = s[1]
  <2>1. Len(s) \in Nat /\ Len(t) \in Nat /\ (t # <<>> => Len(t) >= 1) /\ (s = <<>> => Len(s) = 0)
    BY Lengths, Zenon
  <2> QED BY <2>1
<1>2. Chained(t, f)
  <2> SUFFICES ASSUME NEW k \in 1..Len(t), k + 1 <= Len(t)
               PROVE  Follows(t[k], t[k + 1]) /\ f[k + 1] = f[k] + Begins(t[k + 1])
    BY DEF Chained
  <2>1. k \in 1..Len(s) /\ k + 1 <= Len(s) /\ k + 1 \in 1..Len(t)
    BY <1>1
  <2> QED BY <2>1 DEF InOrder, Chained
<1>3. Numbered(t, w, f)
  BY <1>1 DEF InOrder, Numbered
<1>4. Starts(t, start, seen, n, alien, f)
  BY <1>1 DEF InOrder, Starts
<1> QED BY <1>2, <1>3, <1>4 DEF InOrder

(* What remains after m units.                                             *)
LEMMA Rest ==
  ASSUME NEW s \in Seq(AllUnits), NEW t \in Seq(AllUnits), NEW f \in Counters,
         NEW m \in Nat, NEW w, Chained(s, f), Numbered(s, w, f),
         m >= 1, m <= Len(s), IsRest(t, s, m)
  PROVE  LET g == Shifted(f, m) IN
         /\ g \in Counters /\ Chained(t, g) /\ Numbered(t, w, g)
         /\ t # <<>> => /\ Follows(s[m], t[1]) /\ g[1] = f[m] + Begins(t[1])
                        /\ t[1] \in AllUnits
         /\ t = <<>> => m = Len(s)
         /\ AtEnd(s, w, f) /\ t # <<>> => AtEnd(t, w, g)
<1> DEFINE g == Shifted(f, m)
<1>0. Len(t) = Len(s) - m /\ \A k \in 1..Len(t) : t[k] = s[k + m]
  BY DEF IsRest
<1>1. /\ Len(s) \in Nat /\ Len(t) \in Nat
      /\ (t = <<>> => Len(t) = 0) /\ (t # <<>> => Len(t) >= 1) /\ s # <<>>
  <2>1. Len(s) \in Nat /\ Len(t) \in Nat /\ (t # <<>> => Len(t) >= 1)
        /\ (s = <<>> => Len(s) = 0) /\ (t = <<>> => Len(t) = 0)
    BY Lengths, Zenon
  <2> QED BY <1>0, <2>1
<1>2. g \in Counters /\ \A k \in Nat : g[k] = f[k + m]
  <2>1. \A k \in Nat : k + m \in Nat
    OBVIOUS
  <2>2. \A k \in Nat : f[k + m] \in Nat
    BY <2>1, Zenon DEF Counters
  <2> QED BY <2>2, Zenon DEF Counters, Shifted
<1> HIDE DEF g
<1>3. Chained(t, g)
  <2> SUFFICES ASSUME NEW k \in 1..Len(t), k + 1 <= Len(t)
               PROVE  Follows(t[k], t[k + 1]) /\ g[k + 1] = g[k] + Begins(t[k + 1])
    BY DEF Chained
  <2>1. /\ k + m \in 1..Len(s) /\ (k + m) + 1 <= Len(s) /\ k + 1 \in 1..Len(t)
        /\ k + 1 + m = (k + m) + 1 /\ k \in Nat /\ k + 1 \in Nat
    BY <1>0, <1>1
  <2>2. t[k] = s[k + m] /\ t[k + 1] = s[(k + m) + 1] /\ g[k] = f[k + m] /\ g[k + 1] = f[(k + m) + 1]
    <3>1. t[k] = s[k + m] /\ g[k] = f[k + m]
      BY <1>0, <1>2, <2>1, Zenon
    <3>2. t[k + 1] = s[k + 1 + m] /\ g[k + 1] = f[k + 1 + m]
      BY <1>0, <1>2, <2>1, Zenon
    <3> QED BY <2>1, <3>1, <3>2
  <2> QED BY <2>1, <2>2 DEF Chained
<1>4. Numbered(t, w, g)
  <2> SUFFICES ASSUME NEW k \in 1..Len(t)
               PROVE  g[k] <= Len(w) /\ (t[k][1].kind = "data" => g[k] >= 1 /\ w[g[k]] = t[k][1])
    BY DEF Numbered
  <2>1. k + m \in 1..Len(s) /\ k \in Nat
    BY <1>0, <1>1
  <2>2. t[k] = s[k + m] /\ g[k] = f[k + m]
    BY <1>0, <1>2, <2>1
  <2> QED BY <2>1, <2>2 DEF Numbered
<1>5. ASSUME t # <<>>
      PROVE  Follows(s[m], t[1]) /\ g[1] = f[m] + Begins(t[1]) /\ t[1] \in AllUnits
  <2>1. m \in 1..Len(s) /\ m + 1 <= Len(s) /\ 1 \in 1..Len(t) /\ 1 + m = m + 1
    BY <1>0, <1>1, <1>5
  <2>2. t[1] = s[m + 1] /\ g[1] = f[m + 1]
    BY <1>0, <1>2, <2>1
  <2>3. t[1] \in AllUnits
    BY <2>1, ElementOfSeq, Zenon
  <2> QED BY <2>1, <2>2, <2>3 DEF Chained
<1>6. ASSUME t # <<>>, AtEnd(s, w, f) PROVE AtEnd(t, w, g)
  <2>1. Len(t) \in 1..Len(t) /\ Len(t) + m = Len(s) /\ Len(t) \in Nat
    BY <1>0, <1>1, <1>6
  <2>2. t[Len(t)] = s[Len(s)] /\ g[Len(t)] = f[Len(s)]
    BY <1>0, <1>2, <2>1
  <2> QED BY <1>0, <1>1, <1>6, <2>2 DEF AtEnd
<1>7. t = <<>> => m = Len(s)
  BY <1>0, <1>1
<1> QED BY <1>2, <1>3, <1>4, <1>5, <1>6, <1>7 DEF g

(* A header that is complete is that of a packet; what follows is its      *)
(* body, or for a test packet the next packet.                             *)
LEMMA HeaderRead ==
  ASSUME NEW s \in Seq(AllUnits), NEW t \in Seq(AllUnits), NEW f \in Counters,
         NEW seen, NEW n \in Nat, NEW w, NEW up, NEW alien,
         InOrder(s, 1, seen, n, w, up, alien, f),
         HeaderSize <= Len(s), IsRest(t, s, HeaderSize)
  PROVE  \E p \in Packets :
           /\ \A k \in 1..HeaderSize : s[k] = <<p, k>>
           /\ p.kind = "alien" => alien
           /\ p.kind # "alien" =>
                \E g \in Counters :
                  InOrder(t, IF p.kind = "test" THEN 1 ELSE HeaderSize + 1,
                          seen, n, w, up, alien, g)
<1>0. HeaderSize \in Nat /\ HeaderSize >= 1 /\ BodySize \in Nat /\ BodySize >= 1
  BY Constants
<1>1. /\ Len(s) \in Nat /\ 1 \in 1..Len(s) /\ s # <<>>
      /\ HeaderSize \in 1..Len(s) /\ s[1] \in AllUnits
  BY <1>0, Lengths
<1>2. PICK p \in Packets : s[1] = <<p, 1>>
  <2>1. s[1] = <<s[1][1], s[1][2]>> /\ s[1][1] \in Packets
    BY <1>1, UnitsAre, Zenon
  <2>2. s[1][2] = 1
    BY <1>1, Zenon DEF InOrder, Starts
  <2> QED BY <2>1, <2>2
<1>3. /\ Size(p) \in Nat /\ HeaderSize <= Size(p)
      /\ p.kind = "test" => ~(HeaderSize < Size(p))
      /\ p.kind # "test" => HeaderSize < Size(p) /\ HeaderSize # Size(p)
  BY <1>2, Sizes, SizesDiffer, Zenon
<1> DEFINE d == IF p.kind = "data" THEN 1 ELSE 0
<1>4. /\ Chained(s, f) /\ Numbered(s, w, f)
      /\ f[1] = n + d /\ (First(p) => ~seen) /\ (p.kind = "alien" => alien)
      /\ up => Ended(s, 1, n, w, f)
  <2>1. /\ Chained(s, f) /\ Numbered(s, w, f)
        /\ f[1] = n + IsData(s[1]) /\ (First(s[1][1]) => ~seen)
        /\ s[1][1].kind = "alien" => alien
        /\ up => Ended(s, 1, n, w, f)
    BY <1>1, Zenon DEF InOrder, Starts
  <2>2. s[1][1] = p /\ IsData(s[1]) = d
    BY <1>2 DEF IsData
  <2> QED BY <2>1, <2>2, Zenon
<1>5. \A k \in 1..HeaderSize : s[k] = <<p, k>> /\ f[k] = f[1]
  <2>1. 0 \in Nat /\ 0 + 1 = 1 /\ 0 + HeaderSize = HeaderSize /\ \A k \in 1..HeaderSize : 0 + k = k
    BY Constants
  <2>2. \A k \in 1..HeaderSize : s[k] = <<p, 0 + k>> /\ f[k] = f[1]
    <3>1. s[1] = <<p, 0 + 1>> /\ 0 + HeaderSize <= Size(p)
      BY <1>2, <1>3, <2>1
    <3>2. 0 \in Nat /\ HeaderSize \in Nat /\ HeaderSize >= 1 /\ HeaderSize <= Len(s)
      BY <1>0
    <3> QED BY ONLY <1>4, <3>1, <3>2, FirstRun, s \in Seq(AllUnits), f \in Counters, ZenonT(60)
  <2> QED BY <2>1, <2>2, Zenon
<1>6. ASSUME p.kind # "alien"
      PROVE  \E g \in Counters :
               InOrder(t, IF p.kind = "test" THEN 1 ELSE HeaderSize + 1,
                       seen, n, w, up, alien, g)
  <2> DEFINE g == Shifted(f, HeaderSize)
             next == IF p.kind = "test" THEN 1 ELSE HeaderSize + 1
  <2> HIDE DEF d, next
  <2>1. /\ g \in Counters /\ Chained(t, g) /\ Numbered(t, w, g)
        /\ t # <<>> => /\ Follows(s[HeaderSize], t[1])
                       /\ g[1] = f[HeaderSize] + Begins(t[1]) /\ t[1] \in AllUnits
        /\ t = <<>> => HeaderSize = Len(s)
        /\ AtEnd(s, w, f) /\ t # <<>> => AtEnd(t, w, g)
    <3>1. HeaderSize \in Nat /\ HeaderSize >= 1 /\ HeaderSize <= Len(s)
      BY <1>0
    <3> QED BY <1>4, <3>1, Rest
  <2> HIDE DEF g
  <2>2. s[HeaderSize] = <<p, HeaderSize>> /\ f[HeaderSize] = n + d
    <3>1. HeaderSize \in 1..HeaderSize
      BY <1>0
    <3> QED BY <1>4, <1>5, <3>1, Zenon
  <2>3. Starts(t, next, seen, n, alien, g)
    <3> SUFFICES ASSUME t # <<>>
                 PROVE  /\ t[1][2] = next /\ g[1] = n + IsData(t[1])
                        /\ First(t[1][1]) => ~seen
                        /\ t[1][1].kind = "alien" => next = 1 /\ alien
      BY Zenon DEF Starts
    <3>1. Follows(<<p, HeaderSize>>, t[1]) /\ g[1] = n + d + Begins(t[1])
      BY <2>1, <2>2, Zenon
    <3>2. CASE p.kind = "test"
      <4>1. t[1][2] = 1 /\ ~First(t[1][1])
        BY <1>0, <1>3, <3>1, <3>2 DEF Follows
      <4>2. Begins(t[1]) = IsData(t[1]) /\ d = 0 /\ next = 1
        BY <3>2, <4>1 DEF Begins, IsData, d, next
      <4>3. g[1] = n + IsData(t[1])
        BY <3>1, <4>2 DEF IsData
      <4> QED BY <4>1, <4>2, <4>3, Zenon DEF First
    <3>3. CASE p.kind # "test"
      <4>1. t[1] = <<p, HeaderSize + 1>>
        BY <1>0, <1>3, <3>1, <3>3 DEF Follows
      <4>2. t[1][1] = p /\ t[1][2] = HeaderSize + 1 /\ t[1][2] # 1
        BY <1>0, <4>1
      <4>3. Begins(t[1]) = 0 /\ IsData(t[1]) = d /\ next = HeaderSize + 1
        BY <3>3, <4>2, Zenon DEF Begins, IsData, d, next
      <4>4. g[1] = n + IsData(t[1])
        BY <3>1, <4>3 DEF d
      <4> QED BY <1>4, <1>6, <4>2, <4>3, <4>4, Zenon
    <3> QED BY <3>2, <3>3, Zenon
  <2>4. ASSUME up PROVE Ended(t, next, n, w, g)
    <3>1. CASE t # <<>>
      BY <1>1, <1>4, <2>1, <2>4, <3>1, Zenon DEF Ended
    <3>2. CASE t = <<>>
      <4>1. s[HeaderSize][2] = Size(s[HeaderSize][1]) /\ f[HeaderSize] = Len(w)
        BY <1>1, <1>4, <2>1, <2>4, <3>2, Zenon DEF Ended, AtEnd
      <4>2. HeaderSize = Size(p) /\ n + d = Len(w)
        BY <2>2, <4>1
      <4>3. next = 1 /\ d = 0
        BY <1>3, <4>2, Zenon DEF next, d
      <4> QED BY <3>2, <4>2, <4>3 DEF Ended
    <3> QED BY <3>1, <3>2, Zenon
  <2> QED BY <2>1, <2>3, <2>4, Zenon DEF InOrder, next
<1> QED BY <1>4, <1>5, <1>6, Zenon

(* A body that is complete is that of the packet the client writes first,  *)
(* or of the next data packet; a packet begins after it.                   *)
LEMMA BodyRead ==
  ASSUME NEW s \in Seq(AllUnits), NEW t \in Seq(AllUnits), NEW f \in Counters,
         NEW seen, NEW n \in Nat, NEW w, NEW up, NEW alien,
         InOrder(s, HeaderSize + 1, seen, n, w, up, alien, f),
         BodySize <= Len(s), IsRest(t, s, BodySize)
  PROVE  \E p \in Packets :
           /\ \A k \in 1..BodySize : s[k] = <<p, HeaderSize + k>>
           /\ Size(p) = HeaderSize + BodySize
           /\ \/ /\ p.kind = "open" /\ ~seen
                 /\ \E g \in Counters : InOrder(t, 1, TRUE, n, w, up, alien, g)
              \/ /\ p.kind = "data" /\ n + 1 <= Len(w) /\ w[n + 1] = p
                 /\ \E g \in Counters : InOrder(t, 1, seen, n + 1, w, up, alien, g)
<1>0. HeaderSize \in Nat /\ HeaderSize >= 1 /\ BodySize \in Nat /\ BodySize >= 1
  BY Constants
<1>1. /\ Len(s) \in Nat /\ 1 \in 1..Len(s) /\ s # <<>> /\ s[1] \in AllUnits
  BY <1>0, Lengths
<1>2. PICK p \in Packets : s[1] = <<p, HeaderSize + 1>> /\ HeaderSize + 1 <= Size(p)
  <2>1. s[1] = <<s[1][1], s[1][2]>> /\ s[1][1] \in Packets /\ s[1][2] <= Size(s[1][1])
    BY <1>1, UnitsAre, Zenon
  <2>2. s[1][2] = HeaderSize + 1
    BY <1>1, Zenon DEF InOrder, Starts
  <2> QED BY <2>1, <2>2
<1> DEFINE d == IF p.kind = "data" THEN 1 ELSE 0
<1>3. /\ Chained(s, f) /\ Numbered(s, w, f)
      /\ f[1] = n + d /\ (First(p) => ~seen) /\ (p.kind = "alien" => HeaderSize + 1 = 1)
      /\ up => Ended(s, HeaderSize + 1, n, w, f)
  <2>1. /\ Chained(s, f) /\ Numbered(s, w, f)
        /\ f[1] = n + IsData(s[1]) /\ (First(s[1][1]) => ~seen)
        /\ s[1][1].kind = "alien" => HeaderSize + 1 = 1
        /\ up => Ended(s, HeaderSize + 1, n, w, f)
    BY <1>1, Zenon DEF InOrder, Starts
  <2>2. s[1][1] = p /\ IsData(s[1]) = d
    BY <1>2 DEF IsData
  <2> QED BY <2>1, <2>2, Zenon
<1> HIDE DEF d
<1>4. /\ Size(p) = HeaderSize + BodySize /\ Size(p) \in Nat
      /\ \/ p.kind = "open" /\ d = 0 /\ ~seen
         \/ p.kind = "data" /\ d = 1
  <2>1. p.kind # "alien"
    BY <1>0, <1>3
  <2>2. p.kind # "test"
    <3>1. Size(p) \in Nat /\ ~(HeaderSize + 1 <= HeaderSize)
      BY <1>0, <1>2, Sizes
    <3> QED BY <1>2, <3>1, Sizes
  <2>3. p.kind \in {"open", "data"}
    BY <2>1, <2>2, Kinds
  <2>4. Size(p) = HeaderSize + BodySize /\ Size(p) \in Nat
    BY <2>2, Sizes, Zenon
  <2> QED BY <1>3, <2>3, <2>4, Zenon DEF d, First
<1>5. \A k \in 1..BodySize : s[k] = <<p, HeaderSize + k>> /\ f[k] = f[1]
  <2>1. /\ s[1] = <<p, HeaderSize + 1>> /\ HeaderSize \in Nat
        /\ BodySize \in Nat /\ BodySize >= 1 /\ BodySize <= Len(s)
    BY <1>0, <1>2
  <2>2. HeaderSize + BodySize <= Size(p)
    BY <1>4
  <2> QED BY ONLY <1>3, <2>1, <2>2, FirstRun, s \in Seq(AllUnits), f \in Counters, ZenonT(60)
<1> DEFINE g == Shifted(f, BodySize)
<1>6. /\ g \in Counters /\ Chained(t, g) /\ Numbered(t, w, g)
      /\ t # <<>> => /\ Follows(s[BodySize], t[1])
                     /\ g[1] = f[BodySize] + Begins(t[1]) /\ t[1] \in AllUnits
      /\ t = <<>> => BodySize = Len(s)
      /\ AtEnd(s, w, f) /\ t # <<>> => AtEnd(t, w, g)
  BY <1>0, <1>3, Rest
<1> HIDE DEF g
<1>7. s[BodySize] = <<p, Size(p)>> /\ f[BodySize] = n + d
  <2>1. BodySize \in 1..BodySize
    BY <1>0
  <2> QED BY <1>3, <1>4, <1>5, <2>1, Zenon
<1>8. t # <<>> => t[1][2] = 1 /\ ~First(t[1][1]) /\ g[1] = n + d + IsData(t[1])
  <2> SUFFICES ASSUME t # <<>>
               PROVE  t[1][2] = 1 /\ ~First(t[1][1]) /\ g[1] = n + d + IsData(t[1])
    OBVIOUS
  <2>1. Follows(<<p, Size(p)>>, t[1]) /\ g[1] = n + d + Begins(t[1])
    BY <1>6, <1>7, Zenon
  <2>2. t[1][2] = 1 /\ ~First(t[1][1])
    BY <1>4, <2>1 DEF Follows
  <2>3. Begins(t[1]) = IsData(t[1])
    BY <2>2 DEF Begins, IsData
  <2> QED BY <2>1, <2>2, <2>3, Zenon
<1>9. ASSUME up PROVE Ended(t, 1, n + d, w, g)
  <2>1. AtEnd(s, w, f)
    BY <1>1, <1>3, <1>9, Zenon DEF Ended
  <2>2. CASE t # <<>>
    BY <1>6, <2>1, <2>2, Zenon DEF Ended
  <2>3. CASE t = <<>>
    <3>1. f[BodySize] = Len(w)
      BY <1>6, <2>1, <2>3, Zenon DEF AtEnd
    <3> QED BY <1>7, <2>3, <3>1 DEF Ended
  <2> QED BY <2>2, <2>3
<1>10. ASSUME NEW q PROVE Starts(t, 1, q, n + d, alien, g)
  BY <1>8, Zenon DEF Starts, First
<1>11. \A q : InOrder(t, 1, q, n + d, w, up, alien, g)
  BY <1>6, <1>9, <1>10, Zenon DEF InOrder
<1>12. CASE p.kind = "open" /\ d = 0 /\ ~seen
  <2>1. n + d = n
    BY <1>12
  <2>2. InOrder(t, 1, TRUE, n, w, up, alien, g)
    BY <1>11, <2>1
  <2> QED BY <1>4, <1>5, <1>6, <1>12, <2>2, Zenon
<1>13. CASE p.kind = "data" /\ d = 1
  <2>1. f[1] <= Len(w) /\ w[f[1]] = p
    BY <1>1, <1>2, <1>3, <1>13 DEF Numbered
  <2>2. f[1] = n + 1 /\ n + d = n + 1
    BY <1>3, <1>13
  <2>3. InOrder(t, 1, seen, n + 1, w, up, alien, g)
    BY <1>11, <2>2
  <2> QED BY <1>4, <1>5, <1>6, <1>13, <2>1, <2>2, <2>3, Zenon
<1> QED BY <1>4, <1>12, <1>13, Zenon

(* What a stream of which nothing is left looks like.                      *)
LEMMA Nothing ==
  ASSUME NEW start, NEW seen, NEW n, NEW w, NEW up, NEW alien,
         up => start = 1 /\ n = Len(w), NEW f
  PROVE  InOrder(<<>>, start, seen, n, w, up, alien, f)
<1>1. Len(<<>>) = 0 /\ 1..0 = {}
  BY EmptySeq
<1>2. Chained(<<>>, f) /\ Numbered(<<>>, w, f)
  BY <1>1 DEF Chained, Numbered
<1> QED BY <1>2 DEF InOrder, Starts, Ended

(* More can be promised when no more can come.                             *)
LEMMA Longer ==
  ASSUME NEW s, NEW start, NEW seen, NEW n, NEW w, NEW v, NEW alien, NEW f \in Counters,
         InOrder(s, start, seen, n, w, FALSE, alien, f),
         s \in Seq(AllUnits), Len(w) \in Nat, Len(v) \in Nat, Len(w) <= Len(v),
         \A k \in 1..Len(w) : v[k] = w[k]
  PROVE  InOrder(s, start, seen, n, v, FALSE, alien, f)
<1>1. Numbered(s, v, f)
  <2> SUFFICES ASSUME NEW k \in 1..Len(s)
               PROVE  f[k] <= Len(v) /\ (s[k][1].kind = "data" => f[k] >= 1 /\ v[f[k]] = s[k][1])
    BY DEF Numbered
  <2>1. f[k] <= Len(w) /\ (s[k][1].kind = "data" => f[k] >= 1 /\ w[f[k]] = s[k][1])
    BY DEF InOrder, Numbered
  <2>2. f[k] \in Nat
    <3>1. k \in Nat
      BY Lengths
    <3> QED BY <3>1, Zenon DEF Counters
  <2> QED BY <2>1, <2>2
<1> QED BY <1>1, Zenon DEF InOrder

LEMMA WithIs ==
  ASSUME NEW w \in Seq(DataPackets), NEW p \in Packets
  PROVE  /\ With(w, p) \in Seq(DataPackets)
         /\ Len(With(w, p)) = Len(w) + IsData(<<p, 1>>)
         /\ Len(w) \in Nat /\ Len(With(w, p)) \in Nat /\ Len(w) <= Len(With(w, p))
         /\ \A k \in 1..Len(w) : With(w, p)[k] = w[k]
         /\ p.kind = "data" => /\ Len(With(w, p)) >= 1
                               /\ With(w, p)[Len(With(w, p))] = p
<1>1. Len(w) \in Nat
  BY Lengths
<1>2. CASE p.kind = "data"
  <2>1. p \in DataPackets
    BY <1>2, Kinds
  <2>2. With(w, p) = Append(w, p) /\ IsData(<<p, 1>>) = 1
    BY <1>2 DEF With, IsData
  <2>3. /\ Append(w, p) \in Seq(DataPackets) /\ Len(Append(w, p)) = Len(w) + 1
        /\ \A k \in 1..Len(w) : Append(w, p)[k] = w[k]
        /\ Append(w, p)[Len(w) + 1] = p
    BY <2>1, AppendProperties
  <2> QED BY <1>1, <2>2, <2>3
<1>3. CASE p.kind # "data"
  <2>1. With(w, p) = w /\ IsData(<<p, 1>>) = 0
    BY <1>3 DEF With, IsData
  <2> QED BY <1>1, <1>3, <2>1
<1> QED BY <1>2, <1>3

(* Writing goes on with p where the stream has ended.                      *)
LEMMA Extend ==
  ASSUME NEW s \in Seq(AllUnits), NEW t \in Seq(AllUnits), NEW f \in Counters,
         NEW start, NEW seen, NEW n \in Nat, NEW w \in Seq(DataPackets), NEW alien,
         InOrder(s, start, seen, n, w, TRUE, alien, f),
         NEW p \in Packets, IsExtended(t, s, p),
         First(p) => s = <<>> /\ ~seen, p.kind = "alien" => alien
  PROVE  \E g \in Counters : InOrder(t, start, seen, n, With(w, p), TRUE, alien, g)
<1> DEFINE v == With(w, p)
           g == [k \in Nat |-> IF k <= Len(s) THEN f[k] ELSE Len(v)]
           d == IsData(<<p, 1>>)
<1>1. /\ Len(w) \in Nat /\ Len(v) \in Nat /\ Len(v) = Len(w) + d /\ Len(w) <= Len(v)
      /\ \A k \in 1..Len(w) : v[k] = w[k]
      /\ p.kind = "data" => Len(v) >= 1 /\ v[Len(v)] = p
  BY WithIs
<1> HIDE DEF v
<1>2. g \in Counters
  <2>1. \A k \in Nat : f[k] \in Nat
    BY DEF Counters
  <2> QED BY <1>1, <2>1, Zenon DEF Counters
<1>3. \A k \in Nat : g[k] = IF k <= Len(s) THEN f[k] ELSE Len(v)
  OBVIOUS
<1> HIDE DEF g, d
<1>4. /\ Len(s) \in Nat /\ Len(t) \in Nat /\ (s = <<>> => Len(s) = 0)
      /\ (s # <<>> => Len(s) >= 1)
  BY Lengths, Zenon
<1>5. Size(p) \in Nat /\ Size(p) >= 1
  BY Sizes, Constants
<1>6. /\ Len(t) = Len(s) + Size(p)
      /\ \A k \in 1..Len(s) : t[k] = s[k]
      /\ \A k \in 1..Size(p) : t[Len(s) + k] = <<p, k>>
  BY DEF IsExtended
<1>7. ASSUME NEW k \in 1..Len(s)
      PROVE  t[k] = s[k] /\ g[k] = f[k] /\ k \in Nat
  <2>1. k \in Nat /\ k <= Len(s)
    BY <1>4
  <2> QED BY <1>3, <1>6, <2>1, Zenon
<1>8. ASSUME NEW k \in 1..Len(t), ~(k \in 1..Len(s))
      PROVE  /\ t[k] = <<p, k - Len(s)>> /\ g[k] = Len(v)
             /\ k - Len(s) \in 1..Size(p) /\ k \in Nat /\ k > Len(s)
  <2>1. /\ k \in Nat /\ k > Len(s) /\ k - Len(s) \in 1..Size(p) /\ ~(k <= Len(s))
        /\ Len(s) + (k - Len(s)) = k
    BY <1>4, <1>5, <1>6, <1>8
  <2>2. t[Len(s) + (k - Len(s))] = <<p, k - Len(s)>>
    BY <1>6, <2>1, Zenon
  <2>3. g[k] = Len(v)
    BY <1>3, <2>1, Zenon
  <2> QED BY <2>1, <2>2, <2>3, Zenon
<1>9. /\ s # <<>> => AtEnd(s, w, f)
      /\ s = <<>> => start = 1 /\ n = Len(w)
      /\ Chained(s, f) /\ Numbered(s, w, f) /\ Starts(s, start, seen, n, alien, f)
  BY Zenon DEF InOrder, Ended
<1>10. Chained(t, g)
  <2> SUFFICES ASSUME NEW k \in 1..Len(t), k + 1 <= Len(t)
               PROVE  Follows(t[k], t[k + 1]) /\ g[k + 1] = g[k] + Begins(t[k + 1])
    BY DEF Chained
  <2> DEFINE l == k + 1
  <2>0. k \in Nat /\ k >= 1 /\ l \in 1..Len(t) /\ l = k + 1
    BY <1>4
  <2> HIDE DEF l
  <2>1. CASE k + 1 <= Len(s)
    <3>1. k \in 1..Len(s) /\ k + 1 \in 1..Len(s)
      BY <1>4, <2>0, <2>1
    <3>2. t[k] = s[k] /\ g[k] = f[k] /\ t[k + 1] = s[k + 1] /\ g[k + 1] = f[k + 1]
      BY <1>7, <3>1, Zenon
    <3> QED BY <1>9, <2>1, <3>1, <3>2, Zenon DEF Chained
  <2>2. CASE k = Len(s)
    <3>1. k \in 1..Len(s) /\ ~(k + 1 \in 1..Len(s)) /\ k + 1 - Len(s) = 1 /\ s # <<>>
      BY <1>4, <2>0, <2>2
    <3>2. t[k] = s[k] /\ g[k] = f[k] /\ t[k + 1] = <<p, 1>> /\ g[k + 1] = Len(v)
      <4>1. t[k] = s[k] /\ g[k] = f[k]
        BY <1>7, <3>1, Zenon
      <4>2. t[k + 1] = <<p, k + 1 - Len(s)>> /\ g[k + 1] = Len(v)
        <5>1. ~(l \in 1..Len(s))
          BY <2>0, <3>1, Zenon
        <5>2. t[l] = <<p, l - Len(s)>> /\ g[l] = Len(v)
          BY <1>8, <2>0, <5>1, Zenon
        <5> QED BY <2>0, <5>2
      <4> QED BY <3>1, <4>1, <4>2, Zenon
    <3>3. s[k][2] = Size(s[k][1]) /\ f[k] = Len(w) /\ ~First(p)
      BY <1>9, <2>2, <3>1, Zenon DEF AtEnd
    <3>4. ~(s[k][2] < Size(s[k][1]))
      <4>1. s[k] \in AllUnits
        BY <3>1, Lengths, Zenon
      <4>2. s[k][2] \in Nat
        BY <4>1, UnitsAre, Zenon
      <4> QED BY <3>3, <4>2
    <3>5. Follows(t[k], t[k + 1])
      <4>1. t[k + 1][1] = p /\ t[k + 1][2] = 1
        BY <3>2
      <4> QED BY <3>2, <3>3, <3>4, <4>1, Zenon DEF Follows
    <3>6. Begins(t[k + 1]) = d
      BY <3>2 DEF Begins, IsData, d
    <3> QED BY <1>1, <3>2, <3>3, <3>5, <3>6
  <2>3. CASE k > Len(s)
    <3>1. /\ ~(k \in 1..Len(s)) /\ ~(k + 1 \in 1..Len(s))
          /\ k + 1 - Len(s) = (k - Len(s)) + 1
      BY <1>4, <2>0, <2>3
    <3>2. t[k] = <<p, k - Len(s)>> /\ g[k] = Len(v) /\ k - Len(s) \in 1..Size(p)
      BY <1>8, <3>1, Zenon
    <3>3. t[k + 1] = <<p, k + 1 - Len(s)>> /\ g[k + 1] = Len(v) /\ k + 1 - Len(s) \in 1..Size(p)
      <4>1. ~(l \in 1..Len(s))
        BY <2>0, <3>1, Zenon
      <4>2. t[l] = <<p, l - Len(s)>> /\ g[l] = Len(v) /\ l - Len(s) \in 1..Size(p)
        BY <1>8, <2>0, <4>1, Zenon
      <4> QED BY <2>0, <4>2
    <3> DEFINE i == k - Len(s)
    <3>4. t[k] = <<p, i>> /\ t[k + 1] = <<p, i + 1>>
      BY <3>1, <3>2, <3>3, Zenon
    <3>5. i < Size(p) /\ i + 1 # 1
      BY <1>4, <1>5, <2>0, <3>2, <3>3
    <3> HIDE DEF i
    <3>6. Follows(t[k], t[k + 1]) /\ Begins(t[k + 1]) = 0
      BY <3>4, <3>5 DEF Follows, Begins
    <3> QED BY <1>1, <3>2, <3>3, <3>6
  <2> QED BY <1>4, <2>0, <2>1, <2>2, <2>3
<1>11. Numbered(t, v, g)
  <2> SUFFICES ASSUME NEW k \in 1..Len(t)
               PROVE  g[k] <= Len(v) /\ (t[k][1].kind = "data" => g[k] >= 1 /\ v[g[k]] = t[k][1])
    BY DEF Numbered
  <2>1. CASE k \in 1..Len(s)
    <3>1. t[k] = s[k] /\ g[k] = f[k] /\ k \in Nat
      BY <1>7, <2>1, Zenon
    <3>2. f[k] <= Len(w) /\ (s[k][1].kind = "data" => f[k] >= 1 /\ w[f[k]] = s[k][1])
      BY <1>9, <2>1, Zenon DEF Numbered
    <3>3. f[k] \in Nat
      BY <3>1, Zenon DEF Counters
    <3>4. f[k] <= Len(v)
      BY <1>1, <3>2, <3>3
    <3>5. f[k] >= 1 => v[f[k]] = w[f[k]]
      BY <1>1, <3>2, <3>3
    <3> QED BY <3>1, <3>2, <3>4, <3>5, Zenon
  <2>2. CASE ~(k \in 1..Len(s))
    <3>1. t[k] = <<p, k - Len(s)>> /\ g[k] = Len(v)
      BY <1>8, <2>2, Zenon
    <3>2. t[k][1] = p
      BY <3>1
    <3>3. Len(v) <= Len(v)
      BY <1>1
    <3> QED BY <1>1, <3>1, <3>2, <3>3, Zenon
  <2> QED BY <2>1, <2>2
<1>12. Starts(t, start, seen, n, alien, g)
  <2>1. CASE s # <<>>
    <3>1. 1 \in 1..Len(s)
      BY <1>4, <2>1
    <3>2. t[1] = s[1] /\ g[1] = f[1]
      BY <1>7, <3>1, Zenon
    <3> QED BY <1>9, <2>1, <3>2, Zenon DEF Starts
  <2>2. CASE s = <<>>
    <3>1. 1 \in 1..Len(t) /\ ~(1 \in 1..Len(s)) /\ 1 - Len(s) = 1
      BY <1>4, <1>5, <1>6, <2>2
    <3>2. t[1] = <<p, 1 - Len(s)>> /\ g[1] = Len(v)
      BY <1>8, <3>1, Zenon
    <3>3. t[1] = <<p, 1>> /\ start = 1 /\ n = Len(w)
      BY <1>9, <2>2, <3>1, <3>2, Zenon
    <3>4. IsData(t[1]) = d /\ t[1][1] = p /\ t[1][2] = 1
      BY <3>3 DEF d
    <3>5. g[1] = n + IsData(t[1])
      BY <1>1, <3>2, <3>3, <3>4
    <3> QED BY <3>3, <3>4, <3>5, Zenon DEF Starts
  <2> QED BY <2>1, <2>2
<1>13. Ended(t, start, n, v, g)
  <2>1. Len(t) \in 1..Len(t) /\ ~(Len(t) \in 1..Len(s)) /\ Len(t) - Len(s) = Size(p)
    BY <1>4, <1>5, <1>6
  <2>2. t[Len(t)] = <<p, Len(t) - Len(s)>> /\ g[Len(t)] = Len(v)
    BY <1>8, <2>1, Zenon
  <2>3. t[Len(t)] = <<p, Size(p)>>
    BY <2>1, <2>2, Zenon
  <2>4. AtEnd(t, v, g)
    BY <2>2, <2>3 DEF AtEnd
  <2>5. t # <<>>
    BY <2>1, Lengths
  <2> QED BY <2>4, <2>5 DEF Ended
<1> QED BY <1>2, <1>10, <1>11, <1>12, <1>13, Zenon DEF InOrder, v

(* Taking streams apart and putting them together.                         *)
LEMMA Split ==
  ASSUME NEW S, NEW s \in Seq(S), NEW k \in Nat, k <= Len(s)
  PROVE  /\ SubSeq(s, 1, k) \in Seq(S) /\ Len(SubSeq(s, 1, k)) = k
         /\ SubSeq(s, k + 1, Len(s)) \in Seq(S)
         /\ SubSeq(s, 1, k) \o SubSeq(s, k + 1, Len(s)) = s
<1>1. Len(s) \in Nat /\ \A i \in 1..Len(s) : s[i] \in S
  BY Lengths
<1>2. SubSeq(s, 1, k) \in Seq(S) /\ Len(SubSeq(s, 1, k)) = IF 1 <= k THEN k - 1 + 1 ELSE 0
  <2>1. \A i \in 1..k : s[i] \in S
    BY <1>1
  <2>2. 1 \in Int /\ k \in Int
    OBVIOUS
  <2> QED BY <2>1, <2>2, SubSeqProperties
<1>3. SubSeq(s, k + 1, Len(s)) \in Seq(S)
  <2>1. \A i \in (k + 1)..Len(s) : s[i] \in S
    BY <1>1
  <2>2. k + 1 \in Int /\ Len(s) \in Int
    BY <1>1
  <2> QED BY <2>1, <2>2, SubSeqProperties
<1>4. SubSeq(s, 1, k) \o SubSeq(s, k + 1, Len(s)) = SubSeq(s, 1, Len(s))
  <2>1. 1 \in 1..(Len(s) + 1) /\ k \in (1 - 1)..Len(s) /\ Len(s) \in k..Len(s)
    BY <1>1
  <2> QED BY <2>1, ConcatAdjacentSubSeq
<1>5. SubSeq(s, 1, Len(s)) = s
  BY SubSeqFull
<1>6. Len(SubSeq(s, 1, k)) = k
  <2>1. (1 <= k => k - 1 + 1 = k) /\ (~(1 <= k) => 0 = k)
    OBVIOUS
  <2> QED BY <1>2, <2>1
<1> QED BY <1>2, <1>3, <1>4, <1>5, <1>6, Zenon

LEMMA Associative ==
  ASSUME NEW s \in Seq(AllUnits), NEW t \in Seq(AllUnits), NEW u \in Seq(AllUnits)
  PROVE  (s \o t) \o u = s \o (t \o u)
BY ConcatAssociative

LEMMA AfterBuffer ==
  ASSUME NEW b \in Seq(AllUnits), NEW t \in Seq(AllUnits), NEW s, s = b \o t
  PROVE  /\ s \in Seq(AllUnits) /\ IsRest(t, s, Len(b)) /\ Len(b) <= Len(s)
         /\ \A k \in 1..Len(b) : s[k] = b[k]
<1>1. Len(b) \in Nat /\ Len(t) \in Nat
  BY Lengths
<1>2. /\ s \in Seq(AllUnits) /\ Len(s) = Len(b) + Len(t)
      /\ \A i \in 1..(Len(b) + Len(t)) : s[i] = IF i <= Len(b) THEN b[i] ELSE t[i - Len(b)]
  BY ConcatProperties
<1>3. \A k \in 1..Len(b) : s[k] = b[k]
  BY <1>1, <1>2
<1>4. ASSUME NEW k \in 1..Len(t) PROVE t[k] = s[k + Len(b)]
  <2>1. /\ k + Len(b) \in 1..(Len(b) + Len(t)) /\ ~(k + Len(b) <= Len(b))
        /\ k + Len(b) - Len(b) = k
    BY <1>1
  <2> QED BY <1>2, <2>1
<1> QED BY <1>1, <1>2, <1>3, <1>4 DEF IsRest

LEMMA BeforeRest ==
  ASSUME NEW b \in Seq(AllUnits), NEW t \in Seq(AllUnits)
  PROVE  /\ b \o t \in Seq(AllUnits) /\ Len(b) <= Len(b \o t)
         /\ \A k \in 1..Len(b) : b[k] = (b \o t)[k]
BY AfterBuffer, Zenon

LEMMA WithWhole ==
  ASSUME NEW s \in Seq(AllUnits), NEW p \in Packets
  PROVE  s \o Whole(p) \in Seq(AllUnits) /\ IsExtended(s \o Whole(p), s, p)
<1> DEFINE t == s \o Whole(p)
<1>1. /\ Whole(p) \in Seq(AllUnits) /\ Len(Whole(p)) = Size(p)
      /\ \A i \in 1..Size(p) : Whole(p)[i] = <<p, i>>
  BY WholeIs, Zenon
<1>2. Len(s) \in Nat /\ Size(p) \in Nat
  BY Lengths, Sizes
<1>3. /\ t \in Seq(AllUnits) /\ Len(t) = Len(s) + Size(p)
      /\ \A i \in 1..(Len(s) + Size(p)) : t[i] = IF i <= Len(s) THEN s[i] ELSE Whole(p)[i - Len(s)]
  BY <1>1, ConcatProperties
<1> HIDE DEF t
<1>4. \A k \in 1..Len(s) : t[k] = s[k]
  BY <1>2, <1>3
<1>5. ASSUME NEW k \in 1..Size(p) PROVE t[Len(s) + k] = <<p, k>>
  <2>1. /\ Len(s) + k \in 1..(Len(s) + Size(p)) /\ ~(Len(s) + k <= Len(s))
        /\ Len(s) + k - Len(s) = k
    BY <1>2
  <2>2. t[Len(s) + k] = Whole(p)[k]
    BY <1>3, <2>1
  <2> QED BY <1>1, <2>2
<1> QED BY <1>3, <1>4, <1>5 DEF IsExtended, t

-----------------------------------------------------------------------------
(* The invariant.                                                          *)

(* What is still to come to end e of c, in order.                          *)
Up(e, c) == Connected(c) /\ course[Other(e)][c] = "sound"
Astray(e, c) == course[Other(e)][c] = "astray"
Coming(e, c) == IF Up(e, c) THEN wr[Other(e)][c].todo ELSE <<>>
Stream(e, c) == rd[e][c].buffer \o (net[e][c] \o Coming(e, c))

StartOf(state) == IF state = "hdr" THEN 1 ELSE HeaderSize + 1

InOrderTo(e, c) ==
  ~Astray(e, c) =>
    \E f \in Counters :
      InOrder(Stream(e, c), StartOf(rd[e][c].state), rd[e][c].sawInit,
              Len(passed[Other(e)][c]), sent[Other(e)][c], Up(e, c), link[c].alien, f)

Streams == \A e \in Ends, c \in Conns : InOrderTo(e, c)

Table(S) == [Ends -> [Conns -> S]]
Changed(f, e, c, x) == [f EXCEPT ![e][c] = x]
IsChange(g, f, e, c, x) ==
  g[e][c] = x /\ \A a \in Ends, b \in Conns : a # e \/ b # c => g[a][b] = f[a][b]

Someone == Partners \cup {NoLink.with}
Links == [with : Someone, ends : SUBSET Ends, up : BOOLEAN, alien : BOOLEAN]
Courses == {"sound", "cut", "astray"}
Reads == [state : {"hdr", "data", "idle"}, full : Nat, buffer : Seq(AllUnits), sawInit : BOOLEAN]
Writes == [todo : Seq(AllUnits), nowait : BOOLEAN]

Types ==
  /\ conn \in [Numbers -> Conns \cup {0}] /\ link \in [Conns -> Links]
  /\ course \in Table(Courses)
  /\ net \in Table(Seq(AllUnits)) /\ late \in Table(Seq(AllUnits))
  /\ rd \in Table(Reads) /\ wr \in Table(Writes)
  /\ sent \in Table(Seq(DataPackets)) /\ passed \in Table(Seq(Contents))

(* A number stands for a connection as long as this end holds it; only an  *)
(* end that holds a connection writes or is in the middle of a packet.     *)
Held ==
  /\ \A c \in Conns : Has("here", c) <=> \E n \in Numbers : conn[n] = c
  /\ \A e \in Ends, c \in Conns : Writing(e, c) => Has(e, c)
  /\ \A e \in Ends, c \in Conns : rd[e][c].state = "data" => Has(e, c)

Reading ==
  \A e \in Ends, c \in Conns :
    /\ Len(rd[e][c].buffer) < rd[e][c].full
    /\ rd[e][c].full = IF rd[e][c].state = "data" THEN BodySize ELSE HeaderSize

Wires == Types /\ Held /\ Reading /\ Streams

(* A table of partners: no more than it has room for, and none twice.      *)
Recent(t) == t \in Seq(Someone) /\ Len(t) <= MaxTimedOut /\ IsInjective(t)

Queued == [number : Numbers, packet : DataPackets]

Lists ==
  /\ queue \in Seq(Queued) /\ failed \subseteq Partners /\ made \in 0..MaxPackets
  /\ Recent(timedOut)

Inv == Wires /\ Lists

-----------------------------------------------------------------------------
(* Tables.                                                                 *)

LEMMA TableAt ==
  ASSUME NEW S, NEW f \in Table(S), NEW e \in Ends, NEW c \in Conns
  PROVE  f[e][c] \in S
BY Zenon DEF Table

LEMMA TableChange ==
  ASSUME NEW S, NEW f \in Table(S), NEW e \in Ends, NEW c \in Conns, NEW x \in S
  PROVE  /\ Changed(f, e, c, x) \in Table(S)
         /\ IsChange(Changed(f, e, c, x), f, e, c, x)
BY DEF Table, Changed, IsChange

LEMMA Others ==
  /\ \A e \in Ends : Other(e) \in Ends /\ Other(e) # e /\ Other(Other(e)) = e
  /\ \A e \in Ends : e = "here" \/ e = "there"
  /\ \A e, a \in Ends : a = e \/ a = Other(e)
BY DEF Ends, Other

LEMMA Entries ==
  ASSUME Types, NEW e \in Ends, NEW c \in Conns
  PROVE  /\ course[e][c] \in Courses /\ late[e][c] \in Seq(AllUnits)
         /\ net[e][c] \in Seq(AllUnits) /\ rd[e][c] \in Reads /\ wr[e][c] \in Writes
         /\ sent[e][c] \in Seq(DataPackets) /\ passed[e][c] \in Seq(Contents)
         /\ rd[e][c].buffer \in Seq(AllUnits) /\ wr[e][c].todo \in Seq(AllUnits)
         /\ rd[e][c].state \in {"hdr", "data", "idle"} /\ rd[e][c].full \in Nat
         /\ Len(passed[e][c]) \in Nat /\ link[c] \in Links
<1>1. /\ course[e][c] \in Courses /\ late[e][c] \in Seq(AllUnits)
      /\ net[e][c] \in Seq(AllUnits) /\ rd[e][c] \in Reads /\ wr[e][c] \in Writes
      /\ sent[e][c] \in Seq(DataPackets) /\ passed[e][c] \in Seq(Contents)
  BY TableAt, Zenon DEF Types
<1>2. rd[e][c].buffer \in Seq(AllUnits) /\ wr[e][c].todo \in Seq(AllUnits)
  BY <1>1 DEF Reads, Writes
<1>3. rd[e][c].state \in {"hdr", "data", "idle"} /\ rd[e][c].full \in Nat
  BY <1>1 DEF Reads
<1>4. Len(passed[e][c]) \in Nat
  BY <1>1, Lengths
<1>5. link[c] \in Links
  BY DEF Types
<1> QED BY <1>1, <1>2, <1>3, <1>4, <1>5, Zenon

(* Streams of which nothing that matters changes.                          *)
LEMMA Unseen ==
  ASSUME NEW e, NEW c, InOrderTo(e, c),
         rd'[e][c] = rd[e][c], net'[e][c] = net[e][c],
         course'[Other(e)][c] = course[Other(e)][c],
         wr'[Other(e)][c] = wr[Other(e)][c], link'[c] = link[c],
         passed'[Other(e)][c] = passed[Other(e)][c], sent'[Other(e)][c] = sent[Other(e)][c]
  PROVE  InOrderTo(e, c)'
<1>1. Up(e, c)' = Up(e, c) /\ Astray(e, c)' = Astray(e, c)
  BY DEF Up, Connected, Astray
<1>2. Stream(e, c)' = Stream(e, c)
  BY <1>1 DEF Stream, Coming
<1> QED BY <1>1, <1>2 DEF InOrderTo

LEMMA StreamIs ==
  ASSUME Types, NEW e \in Ends, NEW c \in Conns
  PROVE  Coming(e, c) \in Seq(AllUnits) /\ Stream(e, c) \in Seq(AllUnits)
<1>1. /\ rd[e][c].buffer \in Seq(AllUnits) /\ net[e][c] \in Seq(AllUnits)
      /\ wr[Other(e)][c].todo \in Seq(AllUnits)
  BY Entries, Others, Zenon
<1>2. Coming(e, c) \in Seq(AllUnits)
  BY <1>1, EmptySeq DEF Coming
<1> QED BY <1>1, <1>2, ConcatProperties, Zenon DEF Stream

LEMMA SameStream ==
  ASSUME NEW e, NEW c, InOrderTo(e, c), Stream(e, c)' = Stream(e, c),
         rd'[e][c].state = rd[e][c].state, rd'[e][c].sawInit = rd[e][c].sawInit,
         link'[c] = link[c], course'[Other(e)][c] = course[Other(e)][c],
         passed'[Other(e)][c] = passed[Other(e)][c], sent'[Other(e)][c] = sent[Other(e)][c]
  PROVE  InOrderTo(e, c)'
<1>1. Up(e, c)' = Up(e, c) /\ Astray(e, c)' = Astray(e, c)
  BY DEF Up, Connected, Astray
<1> QED BY <1>1 DEF InOrderTo

(* A stream with one more packet.                                          *)
LEMMA MoreStream ==
  ASSUME Wires, NEW e \in Ends, NEW c \in Conns, NEW p \in Packets, ~First(p),
         Up(e, c), Stream(e, c)' = Stream(e, c) \o Whole(p),
         rd'[e][c] = rd[e][c], link'[c] = link[c],
         course'[Other(e)][c] = course[Other(e)][c],
         passed'[Other(e)][c] = passed[Other(e)][c],
         sent'[Other(e)][c] = With(sent[Other(e)][c], p)
  PROVE  InOrderTo(e, c)'
<1> DEFINE s == Stream(e, c)
           start == StartOf(rd[e][c].state)
           seen == rd[e][c].sawInit
           n == Len(passed[Other(e)][c])
           w == sent[Other(e)][c]
           alien == link[c].alien
<1>0. Types /\ Streams
  BY DEF Wires
<1>1. s \in Seq(AllUnits) /\ n \in Nat /\ w \in Seq(DataPackets)
  BY <1>0, StreamIs, Entries, Others, Zenon
<1>2. PICK f \in Counters : InOrder(s, start, seen, n, w, TRUE, alien, f)
  <2>1. Up(e, c) = TRUE /\ ~Astray(e, c)
    BY DEF Up, Astray
  <2> QED BY <1>0, <2>1 DEF Streams, InOrderTo
<1>3. s \o Whole(p) \in Seq(AllUnits) /\ IsExtended(s \o Whole(p), s, p)
  BY <1>1, WithWhole, Zenon
<1>4. p.kind # "alien"
  BY DEF First
<1> DEFINE t == s \o Whole(p)
<1> HIDE DEF s, start, seen, n, w, alien, t
<1>5. t \in Seq(AllUnits) /\ IsExtended(t, s, p)
  BY <1>3 DEF t
<1>6. \E g \in Counters : InOrder(t, start, seen, n, With(w, p), TRUE, alien, g)
  BY <1>1, <1>2, <1>4, <1>5, Extend
<1>7. Up(e, c)' = TRUE
  BY DEF Up, Connected
<1> QED BY <1>6, <1>7 DEF InOrderTo, s, start, seen, n, w, alien, t

(* A stream of which a part is lost, and no more comes.                    *)
LEMMA LessStream ==
  ASSUME Wires, NEW e \in Ends, NEW c \in Conns, NEW t \in Seq(AllUnits),
         Stream(e, c) = Stream(e, c)' \o t, Stream(e, c)' \in Seq(AllUnits), ~Up(e, c)',
         rd'[e][c] = rd[e][c], link'[c].alien = link[c].alien,
         Astray(e, c) => Astray(e, c)',
         passed'[Other(e)][c] = passed[Other(e)][c],
         sent'[Other(e)][c] = sent[Other(e)][c]
  PROVE  InOrderTo(e, c)'
<1> DEFINE b == Stream(e, c)'
           s == Stream(e, c)
           start == StartOf(rd[e][c].state)
           seen == rd[e][c].sawInit
           n == Len(passed[Other(e)][c])
           w == sent[Other(e)][c]
           up == Up(e, c)
           alien == link[c].alien
<1> SUFFICES ASSUME ~Astray(e, c) PROVE InOrderTo(e, c)'
  BY DEF InOrderTo
<1>1. PICK f \in Counters : InOrder(s, start, seen, n, w, up, alien, f)
  BY DEF Wires, Streams, InOrderTo
<1>2. /\ s \in Seq(AllUnits) /\ b \in Seq(AllUnits)
      /\ Len(b) <= Len(s) /\ \A k \in 1..Len(b) : b[k] = s[k]
  <2>1. s \in Seq(AllUnits)
    BY StreamIs DEF Wires
  <2> HIDE DEF b, s
  <2>2. s = b \o t /\ b \in Seq(AllUnits)
    BY DEF s, b
  <2>3. /\ b \o t \in Seq(AllUnits) /\ Len(b) <= Len(b \o t)
        /\ \A k \in 1..Len(b) : b[k] = (b \o t)[k]
    BY <2>2, BeforeRest, Zenon
  <2> QED BY <2>1, <2>2, <2>3
<1> HIDE DEF b, s, start, seen, n, w, up, alien
<1>3. InOrder(b, start, seen, n, w, FALSE, alien, f)
  BY <1>1, <1>2, Prefix
<1>4. Up(e, c)' = FALSE
  BY DEF Up
<1> QED BY <1>3, <1>4 DEF InOrderTo, b, start, seen, n, w, alien

-----------------------------------------------------------------------------
(* One lemma per kind of step.                                             *)

LEMMA PutIs ==
  ASSUME Types, NEW e \in Ends, NEW c \in Conns, NEW x \in Seq(AllUnits), Put(e, c, x)
  PROVE  /\ net' \in Table(Seq(AllUnits)) /\ late' \in Table(Seq(AllUnits))
         /\ UNCHANGED course
         /\ \A a \in Ends, b \in Conns : a # Other(e) \/ b # c => net'[a][b] = net[a][b]
         /\ IF Connected(c) /\ course[e][c] # "cut"
              THEN net'[Other(e)][c] = net[Other(e)][c] \o x ELSE net' = net
<1> DEFINE o == Other(e)
           y == net[o][c] \o x
           z == late[o][c] \o x
<1>1. o \in Ends /\ net[o][c] \in Seq(AllUnits) /\ late[o][c] \in Seq(AllUnits)
  BY Entries, Others, Zenon
<1>2. y \in Seq(AllUnits) /\ z \in Seq(AllUnits)
  BY <1>1, ConcatProperties, Zenon
<1>3. /\ net' = IF Connected(c) /\ course[e][c] # "cut" THEN Changed(net, o, c, y) ELSE net
      /\ late' = IF Connected(c) /\ course[e][c] = "cut" THEN Changed(late, o, c, z) ELSE late
      /\ UNCHANGED course
  BY DEF Put, Changed
<1> HIDE DEF o, y, z
<1>4. net \in Table(Seq(AllUnits)) /\ late \in Table(Seq(AllUnits))
  BY DEF Types
<1>5. late' \in Table(Seq(AllUnits))
  BY <1>1, <1>2, <1>3, <1>4, TableChange, Zenon
<1>6. /\ Changed(net, o, c, y) \in Table(Seq(AllUnits))
      /\ IsChange(Changed(net, o, c, y), net, o, c, y)
  BY <1>1, <1>2, <1>4, TableChange, Zenon
<1>7. CASE Connected(c) /\ course[e][c] # "cut"
  BY <1>3, <1>5, <1>6, <1>7, Zenon DEF IsChange, o, y
<1>8. CASE ~(Connected(c) /\ course[e][c] # "cut")
  BY <1>3, <1>4, <1>5, <1>8, Zenon
<1> QED BY <1>7, <1>8

LEMMA PieceKeepsWires ==
  ASSUME Wires, NEW e \in Ends, NEW c \in Conns, WritePiece(e, c)
  PROVE  Wires'
<1> DEFINE o == Other(e)
           todo == wr[e][c].todo
<1>0. Types /\ Held /\ Reading /\ Streams
  BY DEF Wires
<1>1. PICK k \in 1..Least(MaxWrite, Len(todo)) :
        /\ wr' = [wr EXCEPT ![e][c].todo = SubSeq(@, k + 1, Len(@))]
        /\ Put(e, c, SubSeq(todo, 1, k))
  BY DEF WritePiece
<1>2. UNCHANGED <<conn, link, rd, sent, passed>> /\ Writing(e, c)
  BY DEF WritePiece
<1>3. /\ todo \in Seq(AllUnits) /\ net[o][c] \in Seq(AllUnits) /\ o \in Ends /\ o # e
      /\ wr[e][c] \in Writes /\ Other(o) = e /\ rd[o][c].buffer \in Seq(AllUnits)
  BY <1>0, Entries, Others, Zenon
<1>4. k \in Nat /\ k <= Len(todo)
  BY <1>3, Lengths, Constants DEF Least
<1> DEFINE x == SubSeq(todo, 1, k)
           y == SubSeq(todo, k + 1, Len(todo))
<1>5. x \in Seq(AllUnits) /\ y \in Seq(AllUnits) /\ x \o y = todo
  BY <1>3, <1>4, Split, Zenon
<1>6. /\ wr' \in Table(Writes) /\ wr'[e][c].todo = y
      /\ \A a \in Ends, b \in Conns : a # e \/ b # c => wr'[a][b] = wr[a][b]
  <2> DEFINE z == [wr[e][c] EXCEPT !.todo = y]
  <2>1. z \in Writes /\ z.todo = y
    BY <1>3, <1>5 DEF Writes
  <2>2. wr' = Changed(wr, e, c, z)
    BY <1>1 DEF Changed
  <2> HIDE DEF z
  <2>3. wr \in Table(Writes)
    BY <1>0 DEF Types
  <2>4. wr' \in Table(Writes) /\ IsChange(wr', wr, e, c, z)
    BY <2>1, <2>2, <2>3, TableChange, Zenon
  <2> QED BY <2>1, <2>4, Zenon DEF IsChange
<1>7. /\ net' \in Table(Seq(AllUnits)) /\ late' \in Table(Seq(AllUnits))
      /\ UNCHANGED course
      /\ \A a \in Ends, b \in Conns : a # o \/ b # c => net'[a][b] = net[a][b]
      /\ IF Connected(c) /\ course[e][c] # "cut"
           THEN net'[o][c] = net[o][c] \o x ELSE net' = net
  BY <1>0, <1>1, <1>5, PutIs
<1> HIDE DEF x, y
<1>9. Types'
  BY <1>0, <1>2, <1>6, <1>7, Zenon DEF Types
<1>10. Held'
  <2>1. \A a \in Ends, b \in Conns : Writing(a, b)' => Has(a, b)
    BY <1>0, <1>2, <1>6, Zenon DEF Held, Writing
  <2> QED BY <1>0, <1>2, <2>1, Zenon DEF Held, Has
<1>11. Reading'
  BY <1>0, <1>2, Zenon DEF Reading
<1>12. Up(o, c)' = Up(o, c)
  BY <1>2, <1>7 DEF Up, Connected
<1>13. ASSUME ~Astray(o, c) PROVE Stream(o, c)' = Stream(o, c)
  <2>1. rd'[o][c] = rd[o][c]
    BY <1>2
  <2>2. CASE Up(o, c)
    <3>1. Coming(o, c) = todo /\ Coming(o, c)' = y
      BY <1>3, <1>6, <1>12, <2>2, Zenon DEF Coming
    <3>2. net'[o][c] \o y = net[o][c] \o todo
      <4>1. (net[o][c] \o x) \o y = net[o][c] \o (x \o y)
        BY <1>3, <1>5, Associative, Zenon
      <4>2. Connected(c) /\ course[e][c] # "cut"
        BY <1>3, <2>2 DEF Up
      <4> QED BY <1>5, <1>7, <4>1, <4>2
    <3> QED BY <2>1, <3>1, <3>2 DEF Stream
  <2>3. CASE ~Up(o, c)
    <3>1. Coming(o, c) = <<>> /\ Coming(o, c)' = <<>>
      BY <1>12, <2>3, Zenon DEF Coming
    <3>2. ~(Connected(c) /\ course[e][c] # "cut")
      <4>1. course[e][c] \in Courses
        BY <1>0, Entries, Zenon
      <4> QED BY <1>3, <1>13, <2>3, <4>1 DEF Up, Astray, Courses
    <3>3. net' = net
      BY <1>7, <3>2
    <3> QED BY <2>1, <3>1, <3>3 DEF Stream
  <2> QED BY <2>2, <2>3
<1>14. Streams'
  <2> SUFFICES ASSUME NEW a \in Ends, NEW b \in Conns PROVE InOrderTo(a, b)'
    BY Zenon DEF Streams
  <2>1. InOrderTo(a, b)
    BY <1>0, Zenon DEF Streams
  <2>2. CASE a = o /\ b = c
    <3>1. CASE Astray(o, c)
      BY <1>7, <2>2, <3>1 DEF InOrderTo, Astray
    <3>2. CASE ~Astray(o, c)
      <4>1. UNCHANGED <<rd, link, passed, sent, course>>
        BY <1>2, <1>7
      <4> QED BY <1>13, <2>1, <2>2, <3>2, <4>1, SameStream
    <3> QED BY <3>1, <3>2
  <2>3. CASE ~(a = o /\ b = c)
    <3>1. net'[a][b] = net[a][b]
      BY <1>7, <2>3, Zenon
    <3>2. Other(a) # e \/ b # c
      BY <1>3, <2>3, Others, Zenon
    <3>3. wr'[Other(a)][b] = wr[Other(a)][b]
      BY <1>6, <3>2, Others, Zenon
    <3> QED BY <1>2, <1>7, <2>1, <3>1, <3>3, Unseen
  <2> QED BY <2>2, <2>3
<1> QED BY <1>9, <1>10, <1>11, <1>14 DEF Wires

LEMMA WriteFailsKeepsWires ==
  ASSUME Wires, NEW e \in Ends, NEW c \in Conns, WriteFails(e, c)
  PROVE  Wires'
<1>0. Types /\ Held /\ Reading /\ Streams
  BY DEF Wires
<1>1. /\ UNCHANGED <<conn, link, course, net, late, rd, sent, passed>>
      /\ wr' = Changed(wr, e, c, NoWrite) /\ ~Connected(c)
  BY DEF WriteFails, Changed, way
<1>2. NoWrite \in Writes /\ NoWrite.todo = <<>>
  BY EmptySeq DEF NoWrite, Writes
<1>3. wr' \in Table(Writes) /\ IsChange(wr', wr, e, c, NoWrite)
  <2>1. wr \in Table(Writes)
    BY <1>0 DEF Types
  <2> QED BY <1>1, <1>2, <2>1, TableChange, Zenon
<1>4. Types'
  BY <1>0, <1>1, <1>3, Zenon DEF Types
<1>5. Held'
  <2>1. \A a \in Ends, b \in Conns : Writing(a, b)' => Writing(a, b)
    BY <1>2, <1>3, Zenon DEF Writing, IsChange
  <2> QED BY <1>0, <1>1, <2>1, Zenon DEF Held, Has
<1>6. Reading'
  BY <1>0, <1>1, Zenon DEF Reading
<1>7. Streams'
  <2> SUFFICES ASSUME NEW a \in Ends, NEW b \in Conns PROVE InOrderTo(a, b)'
    BY Zenon DEF Streams
  <2>1. InOrderTo(a, b)
    BY <1>0, Zenon DEF Streams
  <2>2. CASE b = c
    <3>1. Stream(a, b)' = Stream(a, b)
      BY <1>1, <2>2 DEF Stream, Coming, Up, Connected
    <3> QED BY <1>1, <2>1, <3>1, SameStream
  <2>3. CASE b # c
    <3>1. wr'[Other(a)][b] = wr[Other(a)][b]
      BY <1>3, <2>3, Others, Zenon DEF IsChange
    <3> QED BY <1>1, <2>1, <3>1, Unseen
  <2> QED BY <2>2, <2>3
<1> QED BY <1>4, <1>5, <1>6, <1>7 DEF Wires

(* A write that does not wait has timed out.                               *)
LEMMA CutKeepsWires ==
  ASSUME Wires, NEW e \in Ends, NEW c \in Conns, wr' = Changed(wr, e, c, NoWrite),
         NEW k, k = IF course[e][c] = "sound" THEN "cut" ELSE course[e][c],
         course' = Changed(course, e, c, k),
         UNCHANGED <<conn, link, net, late, rd, sent, passed>>
  PROVE  Wires'
<1> DEFINE o == Other(e)
<1>0. Types /\ Held /\ Reading /\ Streams
  BY DEF Wires
<1>1. NoWrite \in Writes /\ NoWrite.todo = <<>>
  BY EmptySeq DEF NoWrite, Writes
<1>2. wr' \in Table(Writes) /\ IsChange(wr', wr, e, c, NoWrite)
  <2>1. wr \in Table(Writes)
    BY <1>0 DEF Types
  <2> QED BY <1>1, <2>1, TableChange, Zenon
<1>3. /\ k \in Courses /\ k # "sound" /\ o \in Ends /\ Other(o) = e
      /\ course[e][c] = "astray" => k = "astray"
  <2>1. course[e][c] \in Courses
    BY <1>0, Entries, Zenon
  <2> QED BY <2>1, Others DEF Courses
<1>4. course' \in Table(Courses) /\ IsChange(course', course, e, c, k)
  <2>1. course \in Table(Courses)
    BY <1>0 DEF Types
  <2> QED BY <1>3, <2>1, TableChange, Zenon
<1>5. Types'
  BY <1>0, <1>2, <1>4, Zenon DEF Types
<1>6. Held'
  <2>1. \A a \in Ends, b \in Conns : Writing(a, b)' => Writing(a, b)
    BY <1>1, <1>2, Zenon DEF Writing, IsChange
  <2> QED BY <1>0, <2>1, Zenon DEF Held, Has
<1>7. Reading'
  BY <1>0, Zenon DEF Reading
<1> HIDE DEF o
<1>8. InOrderTo(o, c)'
  <2>1. course'[e][c] = k
    BY <1>4 DEF IsChange
  <2>2. ~Up(o, c)' /\ (Astray(o, c) => Astray(o, c)')
    BY <1>3, <2>1 DEF Up, Astray
  <2>3. /\ rd[o][c].buffer \in Seq(AllUnits) /\ net[o][c] \in Seq(AllUnits)
        /\ Coming(o, c) \in Seq(AllUnits)
    BY <1>0, <1>3, Entries, StreamIs, Zenon
  <2>4. Stream(o, c)' = rd[o][c].buffer \o net[o][c]
    <3>1. Coming(o, c)' = <<>>
      BY <2>2 DEF Coming
    <3> QED BY <2>3, <3>1, ConcatEmptySeq DEF Stream
  <2>5. Stream(o, c) = Stream(o, c)' \o Coming(o, c)
    <3>1. (rd[o][c].buffer \o net[o][c]) \o Coming(o, c)
            = rd[o][c].buffer \o (net[o][c] \o Coming(o, c))
      BY <2>3, Associative, Zenon
    <3> QED BY <2>4, <3>1, Zenon DEF Stream
  <2>6. Stream(o, c)' \in Seq(AllUnits)
    BY <2>3, <2>4, ConcatProperties, Zenon
  <2> QED BY <1>3, <2>2, <2>3, <2>5, <2>6, LessStream
<1>9. Streams'
  <2> SUFFICES ASSUME NEW a \in Ends, NEW b \in Conns, ~(a = o /\ b = c) PROVE InOrderTo(a, b)'
    BY <1>8, Zenon DEF Streams
  <2>1. InOrderTo(a, b)
    BY <1>0, Zenon DEF Streams
  <2>2. Other(a) # e \/ b # c
    BY Others, Zenon DEF o
  <2>3. wr'[Other(a)][b] = wr[Other(a)][b] /\ course'[Other(a)][b] = course[Other(a)][b]
    BY <1>2, <1>4, <2>2, Others, Zenon DEF IsChange
  <2> QED BY <2>1, <2>3, Unseen
<1> QED BY <1>5, <1>6, <1>7, <1>9 DEF Wires

LEMMA TestWriteKeepsWires ==
  ASSUME Wires, NEW e \in Ends, NEW c \in Conns, TestWrite(e, c)
  PROVE  Wires'
<1> DEFINE o == Other(e)
           x == Whole(TestPacket)
<1>0. Types /\ Held /\ Reading /\ Streams
  BY DEF Wires
<1>1. /\ UNCHANGED <<conn, link, rd, wr, sent, passed>>
      /\ Put(e, c, x) /\ wr[e][c].todo = <<>>
  BY DEF TestWrite, Writing
<1>2. /\ net[o][c] \in Seq(AllUnits) /\ o \in Ends /\ Other(o) = e
      /\ rd[o][c].buffer \in Seq(AllUnits) /\ Whole(TestPacket) \in Seq(AllUnits)
  BY <1>0, Entries, Others, WholeIs, Kinds, Zenon
<1>4. /\ net' \in Table(Seq(AllUnits)) /\ late' \in Table(Seq(AllUnits))
      /\ UNCHANGED course
      /\ \A a \in Ends, b \in Conns : a # o \/ b # c => net'[a][b] = net[a][b]
      /\ IF Connected(c) /\ course[e][c] # "cut"
           THEN net'[o][c] = net[o][c] \o x ELSE net' = net
  BY <1>0, <1>1, <1>2, PutIs
<1>5. Types'
  BY <1>0, <1>1, <1>4, Zenon DEF Types
<1>6. Held' /\ Reading'
  BY <1>0, <1>1, Zenon DEF Held, Has, Writing, Reading
<1>7. Coming(o, c) = <<>> /\ Coming(o, c)' = <<>>
  BY <1>1, <1>2, Zenon DEF Coming
<1>8. InOrderTo(o, c)'
  <2>0. InOrderTo(o, c) /\ course[e][c] \in Courses
    BY <1>0, <1>2, Entries, Zenon DEF Streams
  <2>1. CASE Up(o, c)
    <3>1. net'[o][c] = net[o][c] \o x
      BY <1>2, <1>4, <2>1 DEF Up
    <3>2. Stream(o, c)' = Stream(o, c) \o x
      <4>1. Stream(o, c) = rd[o][c].buffer \o net[o][c]
        BY <1>2, <1>7, ConcatEmptySeq DEF Stream
      <4>2. Stream(o, c)' = rd[o][c].buffer \o net'[o][c]
        <5>1. net'[o][c] \in Seq(AllUnits)
          BY <1>2, <3>1, ConcatProperties, Zenon
        <5> QED BY <1>1, <1>7, <5>1, ConcatEmptySeq DEF Stream
      <4>3. rd[o][c].buffer \o (net[o][c] \o x) = (rd[o][c].buffer \o net[o][c]) \o x
        BY <1>2, Associative, Zenon
      <4>4. Stream(o, c)' = rd[o][c].buffer \o (net[o][c] \o x)
        BY <3>1, <4>2, Zenon
      <4> QED BY <4>1, <4>3, <4>4, Zenon
    <3>3. With(sent[e][c], TestPacket) = sent[e][c] /\ ~First(TestPacket) /\ TestPacket \in Packets
      BY Kinds DEF With, First
    <3> QED BY <1>1, <1>2, <1>4, <2>1, <3>2, <3>3, MoreStream
  <2>2. CASE ~Up(o, c) /\ ~Astray(o, c)
    <3>1. ~(Connected(c) /\ course[e][c] # "cut")
      BY <1>2, <2>0, <2>2 DEF Up, Astray, Courses
    <3>2. Stream(o, c)' = Stream(o, c)
      BY <1>1, <1>4, <1>7, <3>1 DEF Stream
    <3> QED BY <1>1, <1>4, <2>0, <3>2, SameStream
  <2>3. CASE Astray(o, c)
    BY <1>4, <2>3 DEF Astray, InOrderTo
  <2> QED BY <2>1, <2>2, <2>3
<1>9. Streams'
  <2> SUFFICES ASSUME NEW a \in Ends, NEW b \in Conns, ~(a = o /\ b = c) PROVE InOrderTo(a, b)'
    BY <1>8, Zenon DEF Streams
  <2>1. InOrderTo(a, b)
    BY <1>0, Zenon DEF Streams
  <2>2. net'[a][b] = net[a][b]
    BY <1>4, Zenon
  <2> QED BY <1>1, <1>4, <2>1, <2>2, Unseen
<1> QED BY <1>5, <1>6, <1>9 DEF Wires

(* A step that takes what has come in for a read, and goes on with x.      *)
LEMMA ReadKeepsWires ==
  ASSUME Wires, NEW e \in Ends, NEW c \in Conns, NEW x \in Reads, NEW y \in Seq(AllUnits),
         rd' = Changed(rd, e, c, x), net' = Changed(net, e, c, y),
         UNCHANGED <<conn, link, course, late, wr, sent>>,
         passed' \in Table(Seq(Contents)),
         \A a \in Ends, b \in Conns : a # Other(e) \/ b # c => passed'[a][b] = passed[a][b],
         Has(e, c), Len(x.buffer) < x.full,
         x.full = IF x.state = "data" THEN BodySize ELSE HeaderSize,
         InOrderTo(e, c)'
  PROVE  Wires'
<1>0. Types /\ Held /\ Reading /\ Streams
  BY DEF Wires
<1>1. rd' \in Table(Reads) /\ IsChange(rd', rd, e, c, x)
  <2>1. rd \in Table(Reads)
    BY <1>0 DEF Types
  <2> QED BY <2>1, TableChange, Zenon
<1>2. net' \in Table(Seq(AllUnits)) /\ IsChange(net', net, e, c, y)
  <2>1. net \in Table(Seq(AllUnits))
    BY <1>0 DEF Types
  <2> QED BY <2>1, TableChange, Zenon
<1>3. Types'
  BY <1>0, <1>1, <1>2, Zenon DEF Types
<1>4. Held'
  <2>1. ASSUME NEW a \in Ends, NEW b \in Conns, rd'[a][b].state = "data" PROVE Has(a, b)
    <3>1. CASE a = e /\ b = c
      BY <3>1
    <3>2. CASE ~(a = e /\ b = c)
      <4>1. rd'[a][b] = rd[a][b]
        BY <1>1, <3>2, Zenon DEF IsChange
      <4> QED BY <1>0, <2>1, <4>1, Zenon DEF Held
    <3> QED BY <3>1, <3>2
  <2> QED BY <1>0, <2>1, Zenon DEF Held, Has, Writing
<1>5. Reading'
  <2> SUFFICES ASSUME NEW a \in Ends, NEW b \in Conns
               PROVE  /\ Len(rd'[a][b].buffer) < rd'[a][b].full
                      /\ rd'[a][b].full = IF rd'[a][b].state = "data" THEN BodySize ELSE HeaderSize
    BY Zenon DEF Reading
  <2>1. CASE a = e /\ b = c
    BY <1>1, <2>1 DEF IsChange
  <2>2. CASE ~(a = e /\ b = c)
    <3>1. rd'[a][b] = rd[a][b]
      BY <1>1, <2>2, Zenon DEF IsChange
    <3> QED BY <1>0, <3>1, Zenon DEF Reading
  <2> QED BY <2>1, <2>2
<1>6. Streams'
  <2> SUFFICES ASSUME NEW a \in Ends, NEW b \in Conns, ~(a = e /\ b = c) PROVE InOrderTo(a, b)'
    BY Zenon DEF Streams
  <2>1. InOrderTo(a, b)
    BY <1>0, Zenon DEF Streams
  <2>2. rd'[a][b] = rd[a][b] /\ net'[a][b] = net[a][b]
    BY <1>1, <1>2, Zenon DEF IsChange
  <2>3. Other(a) # Other(e) \/ b # c
    BY Others, Zenon
  <2>4. passed'[Other(a)][b] = passed[Other(a)][b]
    BY <2>3, Others, Zenon
  <2> QED BY <2>1, <2>2, <2>4, Unseen
<1> QED BY <1>3, <1>4, <1>5, <1>6 DEF Wires

(* What the buffer holds when the first k units on their way have come in, *)
(* and what remains on its way.                                            *)
Came(e, c, k) == k <= Least(MaxRead, Len(net[e][c]))
After(e, c, k) == SubSeq(net[e][c], k + 1, Len(net[e][c]))

LEMMA Arrival ==
  ASSUME Types, NEW e \in Ends, NEW c \in Conns, NEW k \in Nat, Came(e, c, k)
  PROVE  /\ After(e, c, k) \in Seq(AllUnits)
         /\ Buffer(e, c, k) \in Seq(AllUnits)
         /\ Len(Buffer(e, c, k)) = Len(rd[e][c].buffer) + k
         /\ After(e, c, k) \o Coming(e, c) \in Seq(AllUnits)
         /\ Stream(e, c) = Buffer(e, c, k) \o (After(e, c, k) \o Coming(e, c))
<1> DEFINE s == net[e][c]
           x == SubSeq(s, 1, k)
           y == SubSeq(s, k + 1, Len(s))
           r == rd[e][c].buffer
           z == Coming(e, c)
<1>1. s \in Seq(AllUnits) /\ r \in Seq(AllUnits) /\ z \in Seq(AllUnits)
  BY Entries, StreamIs, Zenon
<1>2. k <= Len(s)
  <2>1. Len(s) \in Nat
    BY <1>1, Lengths, Zenon
  <2> QED BY <2>1, Constants DEF Came, Least
<1>3. x \in Seq(AllUnits) /\ y \in Seq(AllUnits) /\ x \o y = s /\ Len(x) = k
  BY <1>1, <1>2, Split, Zenon
<1>4. After(e, c, k) = y
  BY DEF After
<1>5. Buffer(e, c, k) = r \o x /\ Stream(e, c) = r \o (s \o z)
  BY DEF Buffer, Stream
<1> HIDE DEF s, x, y, r, z
<1>6. r \o x \in Seq(AllUnits) /\ Len(r \o x) = Len(r) + k /\ y \o z \in Seq(AllUnits)
  BY <1>1, <1>3, ConcatProperties, Zenon
<1>7. r \o (s \o z) = (r \o x) \o (y \o z)
  <2>1. s \o z = x \o (y \o z)
    <3>1. (x \o y) \o z = x \o (y \o z)
      <4>1. x \in Seq(AllUnits) /\ y \in Seq(AllUnits) /\ z \in Seq(AllUnits)
        BY <1>1, <1>3, Zenon
      <4> QED BY ONLY <4>1, Associative, ZenonT(60)
    <3> QED BY <1>3, <3>1, Zenon
  <2>2. (r \o x) \o (y \o z) = r \o (x \o (y \o z))
    BY <1>1, <1>3, <1>6, Associative, Zenon
  <2> QED BY <2>1, <2>2, Zenon
<1>8. After(e, c, k) \in Seq(AllUnits) /\ Buffer(e, c, k) \in Seq(AllUnits)
  BY <1>3, <1>4, <1>5, <1>6, Zenon
<1>9. Len(Buffer(e, c, k)) = Len(rd[e][c].buffer) + k
  BY <1>5, <1>6, Zenon DEF r
<1>10. After(e, c, k) \o Coming(e, c) \in Seq(AllUnits)
  BY <1>4, <1>6, Zenon DEF z
<1>11. Stream(e, c) = Buffer(e, c, k) \o (After(e, c, k) \o Coming(e, c))
  BY <1>4, <1>5, <1>7, Zenon DEF z
<1> QED BY <1>8, <1>9, <1>10, <1>11, Zenon

LEMMA MissingIs ==
  ASSUME Wires, NEW e \in Ends, NEW c \in Conns
  PROVE  /\ Missing(e, c) \in Nat /\ Missing(e, c) >= 1
         /\ Len(rd[e][c].buffer) \in Nat
         /\ Len(rd[e][c].buffer) + Missing(e, c) = rd[e][c].full
<1>1. rd[e][c].full \in Nat /\ Len(rd[e][c].buffer) \in Nat
  <2>1. rd[e][c].full \in Nat /\ rd[e][c].buffer \in Seq(AllUnits)
    BY Entries, Zenon DEF Wires
  <2> QED BY <2>1, Lengths, Zenon
<1>2. Len(rd[e][c].buffer) < rd[e][c].full
  BY Zenon DEF Wires, Reading
<1> DEFINE a == rd[e][c].full
           b == Len(rd[e][c].buffer)
<1>3. Missing(e, c) = a - b
  BY DEF Missing
<1>4. a \in Nat /\ b \in Nat /\ b < a
  BY <1>1, <1>2
<1> HIDE DEF a, b
<1>5. Missing(e, c) \in Nat /\ Missing(e, c) >= 1 /\ b + Missing(e, c) = a
  BY <1>3, <1>4
<1> QED BY <1>4, <1>5, Zenon DEF a, b

LEMMA PartKeepsWires ==
  ASSUME Wires, NEW e \in Ends, NEW c \in Conns, ReadPart(e, c)
  PROVE  Wires'
<1>1. PICK k \in 1..(Missing(e, c) - 1) :
        Arrive(e, c, k) /\ rd' = [rd EXCEPT ![e][c].buffer = Buffer(e, c, k)]
  BY DEF ReadPart
<1>2. UNCHANGED <<conn, link, course, late, wr, sent, passed>>
  BY <1>1 DEF ReadPart, Arrive
<1> DEFINE x == [rd[e][c] EXCEPT !.buffer = Buffer(e, c, k)]
           y == After(e, c, k)
<1>3. k \in Nat /\ Came(e, c, k) /\ Has(e, c) /\ net' = Changed(net, e, c, y)
  <2>1. k \in Nat
    BY MissingIs
  <2>2. Came(e, c, k) /\ Has(e, c)
    BY <1>1, Zenon DEF Arrive, Came
  <2>3. net' = Changed(net, e, c, y)
    BY <1>1 DEF Arrive, Changed, After
  <2> QED BY <2>1, <2>2, <2>3
<1>4. /\ y \in Seq(AllUnits) /\ Buffer(e, c, k) \in Seq(AllUnits)
      /\ Len(Buffer(e, c, k)) = Len(rd[e][c].buffer) + k
      /\ Stream(e, c) = Buffer(e, c, k) \o (y \o Coming(e, c))
  BY <1>3, Arrival, Zenon DEF Wires
<1>5. /\ x \in Reads /\ x.buffer = Buffer(e, c, k) /\ x.full = rd[e][c].full
      /\ x.state = rd[e][c].state /\ x.sawInit = rd[e][c].sawInit
  <2>1. rd[e][c] \in Reads
    BY Entries, Zenon DEF Wires
  <2> QED BY <1>4, <2>1 DEF Reads
<1>6. rd' = Changed(rd, e, c, x)
  BY <1>1 DEF Changed
<1> HIDE DEF x, y
<1>7. Len(x.buffer) < x.full
  BY <1>4, <1>5, MissingIs
<1>8. x.full = IF x.state = "data" THEN BodySize ELSE HeaderSize
  BY <1>5, Zenon DEF Wires, Reading
<1>9. InOrderTo(e, c)'
  <2>1. rd'[e][c] = x /\ net'[e][c] = y
    <3>1. rd \in Table(Reads) /\ net \in Table(Seq(AllUnits))
      BY DEF Wires, Types
    <3>2. IsChange(rd', rd, e, c, x)
      BY <1>5, <1>6, <3>1, TableChange, Zenon
    <3>3. IsChange(net', net, e, c, y)
      BY <1>3, <1>4, <3>1, TableChange, Zenon
    <3> QED BY <3>2, <3>3, Zenon DEF IsChange
  <2>2. Stream(e, c)' = Stream(e, c)
    BY <1>2, <1>4, <1>5, <2>1 DEF Stream, Coming, Up, Connected
  <2>3. InOrderTo(e, c)
    BY Zenon DEF Wires, Streams
  <2> QED BY <1>2, <1>5, <2>1, <2>2, <2>3, SameStream
<1>10. passed' \in Table(Seq(Contents))
  BY <1>2 DEF Wires, Types
<1> QED BY <1>2, <1>3, <1>4, <1>5, <1>6, <1>7, <1>8, <1>9, <1>10, ReadKeepsWires

(* A complete header: of which packet it is, and the stream after it.      *)
LEMMA HeaderCame ==
  ASSUME Wires, NEW e \in Ends, NEW c \in Conns,
         ~Astray(e, c), rd[e][c].state = "hdr", Came(e, c, Missing(e, c))
  PROVE  \E p \in Packets :
           /\ Buffer(e, c, Missing(e, c)) = Header(p)
           /\ Buffer(e, c, Missing(e, c))[1][1] = p
           /\ p.kind = "alien" => link[c].alien
           /\ p.kind # "alien" =>
                \E g \in Counters :
                  InOrder(After(e, c, Missing(e, c)) \o Coming(e, c),
                          IF p.kind = "test" THEN 1 ELSE HeaderSize + 1,
                          rd[e][c].sawInit, Len(passed[Other(e)][c]), sent[Other(e)][c],
                          Up(e, c), link[c].alien, g)
<1> DEFINE m == Missing(e, c)
           b == Buffer(e, c, m)
           t == After(e, c, m) \o Coming(e, c)
           s == Stream(e, c)
           seen == rd[e][c].sawInit
           n == Len(passed[Other(e)][c])
           w == sent[Other(e)][c]
           up == Up(e, c)
           alien == link[c].alien
<1>1. m \in Nat /\ Len(rd[e][c].buffer) + m = HeaderSize
  <2>1. rd[e][c].full = HeaderSize
    BY Zenon DEF Wires, Reading
  <2> QED BY <2>1, MissingIs, Zenon
<1>2. b \in Seq(AllUnits) /\ Len(b) = HeaderSize /\ t \in Seq(AllUnits) /\ s = b \o t
  BY <1>1, Arrival, Zenon DEF Wires
<1>3. PICK f \in Counters : InOrder(s, 1, seen, n, w, up, alien, f)
  <2>1. StartOf(rd[e][c].state) = 1
    BY DEF StartOf
  <2> QED BY <2>1 DEF Wires, Streams, InOrderTo
<1>4. n \in Nat
  BY Entries, Others, Zenon DEF Wires
<1> HIDE DEF m, b, t, s, seen, n, w, up, alien
<1>5. /\ s \in Seq(AllUnits) /\ IsRest(t, s, HeaderSize) /\ HeaderSize <= Len(s)
      /\ \A k \in 1..HeaderSize : s[k] = b[k]
  <2>1. /\ s \in Seq(AllUnits) /\ IsRest(t, s, Len(b)) /\ Len(b) <= Len(s)
        /\ \A k \in 1..Len(b) : s[k] = b[k]
    BY <1>2, AfterBuffer, Zenon
  <2> QED BY <1>2, <2>1, Zenon
<1>6. PICK p \in Packets :
        /\ \A k \in 1..HeaderSize : s[k] = <<p, k>>
        /\ p.kind = "alien" => alien
        /\ p.kind # "alien" =>
             \E g \in Counters :
               InOrder(t, IF p.kind = "test" THEN 1 ELSE HeaderSize + 1,
                       seen, n, w, up, alien, g)
  BY <1>2, <1>3, <1>4, <1>5, HeaderRead
<1>7. b = Header(p)
  <2>1. /\ Header(p) \in Seq(AllUnits) /\ Len(Header(p)) = HeaderSize
        /\ \A k \in 1..HeaderSize : Header(p)[k] = <<p, k>>
    BY WholeIs, Zenon
  <2>2. \A k \in 1..Len(b) : b[k] = Header(p)[k]
    BY <1>2, <1>5, <1>6, <2>1, Zenon
  <2> HIDE DEF Header
  <2> QED BY <1>2, <2>1, <2>2, SeqEqual, Zenon
<1>8. b[1][1] = p
  <2>1. 1 \in 1..HeaderSize
    BY Constants
  <2>2. b[1] = <<p, 1>>
    BY <1>5, <1>6, <2>1, Zenon
  <2> QED BY <2>2
<1> QED BY <1>6, <1>7, <1>8 DEF m, b, t, seen, n, w, up, alien

LEMMA HeaderKeepsWires ==
  ASSUME Wires, NEW e \in Ends, NEW c \in Conns, ReadHeader(e, c)
  PROVE  Wires'
<1> DEFINE m == Missing(e, c)
           b == Buffer(e, c, m)
           y == After(e, c, m)
           t == y \o Coming(e, c)
           p == b[1][1]
<1>1. rd[e][c].state = "hdr" /\ Arrive(e, c, m) /\ IsHeader(b)
  BY DEF ReadHeader, Complete
<1>2. UNCHANGED <<conn, link, course, late, wr, sent, passed>>
  BY <1>1 DEF ReadHeader, Arrive
<1>3. m \in Nat /\ Came(e, c, m) /\ Has(e, c) /\ net' = Changed(net, e, c, y)
  <2>1. m \in Nat
    BY MissingIs
  <2>2. Came(e, c, m) /\ Has(e, c)
    BY <1>1, Zenon DEF Arrive, Came
  <2>3. net' = Changed(net, e, c, y)
    BY <1>1 DEF Arrive, Changed, After
  <2> QED BY <2>1, <2>2, <2>3
<1>4. y \in Seq(AllUnits) /\ t \in Seq(AllUnits)
  BY <1>3, Arrival, Zenon DEF Wires
<1>5. ASSUME ~Astray(e, c), p.kind # "alien"
      PROVE  \E g \in Counters :
               InOrder(t, IF p.kind = "test" THEN 1 ELSE HeaderSize + 1,
                       rd[e][c].sawInit, Len(passed[Other(e)][c]), sent[Other(e)][c],
                       Up(e, c), link[c].alien, g)
  BY <1>1, <1>3, <1>5, HeaderCame, Zenon
<1>6. p.kind # "alien"
  BY <1>1 DEF IsHeader
<1> DEFINE x == IF p.kind = "test"
                  THEN [state |-> "hdr", full |-> HeaderSize, buffer |-> <<>>,
                        sawInit |-> rd[e][c].sawInit]
                  ELSE [state |-> "data", full |-> BodySize, buffer |-> <<>>,
                        sawInit |-> rd[e][c].sawInit]
<1>7. rd' = Changed(rd, e, c, x)
  BY DEF ReadHeader, StartRead, Changed
<1>8. /\ x \in Reads /\ x.buffer = <<>> /\ x.sawInit = rd[e][c].sawInit
      /\ x.full = IF x.state = "data" THEN BodySize ELSE HeaderSize
      /\ StartOf(x.state) = IF p.kind = "test" THEN 1 ELSE HeaderSize + 1
  <2>1. rd[e][c] \in Reads
    BY Entries, Zenon DEF Wires
  <2>2. rd[e][c].sawInit \in BOOLEAN
    BY <2>1 DEF Reads
  <2> QED BY <2>2, Constants DEF Reads, StartOf
<1>9. Len(x.buffer) < x.full
  <2>1. Len(x.buffer) = 0 /\ x.full >= 1
    BY <1>8, Constants
  <2>2. x.full \in Nat
    BY <1>8 DEF Reads
  <2> HIDE DEF x
  <2> QED BY <2>1, <2>2
<1> HIDE DEF m, b, y, t, p, x
<1>10. InOrderTo(e, c)'
  <2>0. CASE Astray(e, c)
    BY <1>2, <2>0 DEF Astray, InOrderTo
  <2> SUFFICES ASSUME ~Astray(e, c) PROVE InOrderTo(e, c)'
    BY <2>0
  <2>1. rd'[e][c] = x /\ net'[e][c] = y
    <3>1. rd \in Table(Reads) /\ net \in Table(Seq(AllUnits))
      BY DEF Wires, Types
    <3>2. IsChange(rd', rd, e, c, x)
      BY <1>7, <1>8, <3>1, TableChange, Zenon
    <3>3. IsChange(net', net, e, c, y)
      BY <1>3, <1>4, <3>1, TableChange, Zenon
    <3> QED BY <3>2, <3>3, Zenon DEF IsChange
  <2>2. Up(e, c)' = Up(e, c) /\ Coming(e, c)' = Coming(e, c)
    BY <1>2 DEF Coming, Up, Connected
  <2>3. Stream(e, c)' = t
    <3>1. Stream(e, c)' = x.buffer \o (y \o Coming(e, c))
      BY <2>1, <2>2, Zenon DEF Stream
    <3>2. Stream(e, c)' = <<>> \o t
      BY <1>8, <3>1, Zenon DEF t
    <3> QED BY <1>4, <3>2, ConcatEmptySeq
  <2> QED BY <1>2, <1>5, <1>6, <1>8, <2>1, <2>2, <2>3 DEF InOrderTo
<1>11. passed' \in Table(Seq(Contents))
  BY <1>2 DEF Wires, Types
<1> QED BY <1>2, <1>3, <1>4, <1>7, <1>8, <1>9, <1>10, <1>11, ReadKeepsWires

(* A complete body: of which packet it is, and the stream after it.        *)
LEMMA BodyCame ==
  ASSUME Wires, NEW e \in Ends, NEW c \in Conns,
         ~Astray(e, c), rd[e][c].state = "data", Came(e, c, Missing(e, c))
  PROVE  \E p \in Packets :
           /\ Buffer(e, c, Missing(e, c))[1][1] = p
           /\ Content(Buffer(e, c, Missing(e, c))) = p
           /\ \/ /\ p.kind = "open" /\ ~rd[e][c].sawInit
                 /\ \E g \in Counters :
                      InOrder(After(e, c, Missing(e, c)) \o Coming(e, c), 1, TRUE,
                              Len(passed[Other(e)][c]), sent[Other(e)][c],
                              Up(e, c), link[c].alien, g)
              \/ /\ p.kind = "data" /\ Len(passed[Other(e)][c]) + 1 <= Len(sent[Other(e)][c])
                 /\ sent[Other(e)][c][Len(passed[Other(e)][c]) + 1] = p
                 /\ \E g \in Counters :
                      InOrder(After(e, c, Missing(e, c)) \o Coming(e, c), 1,
                              rd[e][c].sawInit, Len(passed[Other(e)][c]) + 1,
                              sent[Other(e)][c], Up(e, c), link[c].alien, g)
<1> DEFINE m == Missing(e, c)
           b == Buffer(e, c, m)
           t == After(e, c, m) \o Coming(e, c)
           s == Stream(e, c)
           seen == rd[e][c].sawInit
           n == Len(passed[Other(e)][c])
           w == sent[Other(e)][c]
           up == Up(e, c)
           alien == link[c].alien
<1>1. m \in Nat /\ Len(rd[e][c].buffer) + m = BodySize
  <2>1. rd[e][c].full = BodySize
    <3>1. rd[e][c].full = IF rd[e][c].state = "data" THEN BodySize ELSE HeaderSize
      BY Zenon DEF Wires, Reading
    <3> QED BY <3>1
  <2> QED BY <2>1, MissingIs, Zenon
<1>2. b \in Seq(AllUnits) /\ Len(b) = BodySize /\ t \in Seq(AllUnits) /\ s = b \o t
  BY <1>1, Arrival, Zenon DEF Wires
<1>3. PICK f \in Counters : InOrder(s, HeaderSize + 1, seen, n, w, up, alien, f)
  <2>1. StartOf(rd[e][c].state) = HeaderSize + 1
    BY DEF StartOf
  <2> QED BY <2>1 DEF Wires, Streams, InOrderTo
<1>4. n \in Nat
  BY Entries, Others, Zenon DEF Wires
<1> HIDE DEF m, b, t, s, seen, n, w, up, alien
<1>5. /\ s \in Seq(AllUnits) /\ IsRest(t, s, BodySize) /\ BodySize <= Len(s)
      /\ \A k \in 1..BodySize : s[k] = b[k]
  <2>1. /\ s \in Seq(AllUnits) /\ IsRest(t, s, Len(b)) /\ Len(b) <= Len(s)
        /\ \A k \in 1..Len(b) : s[k] = b[k]
    BY <1>2, AfterBuffer, Zenon
  <2> QED BY <1>2, <2>1, Zenon
<1>6. PICK p \in Packets :
        /\ \A k \in 1..BodySize : s[k] = <<p, HeaderSize + k>>
        /\ Size(p) = HeaderSize + BodySize
        /\ \/ /\ p.kind = "open" /\ ~seen
              /\ \E g \in Counters : InOrder(t, 1, TRUE, n, w, up, alien, g)
           \/ /\ p.kind = "data" /\ n + 1 <= Len(w) /\ w[n + 1] = p
              /\ \E g \in Counters : InOrder(t, 1, seen, n + 1, w, up, alien, g)
  BY <1>2, <1>3, <1>4, <1>5, BodyRead
<1>7. b = Body(p)
  <2>0. Size(p) - HeaderSize = BodySize
    BY <1>6, Constants
  <2>1. /\ Body(p) \in Seq(AllUnits) /\ Len(Body(p)) = BodySize
        /\ \A k \in 1..BodySize : Body(p)[k] = <<p, HeaderSize + k>>
    <3>1. /\ Body(p) \in Seq(AllUnits) /\ Len(Body(p)) = Size(p) - HeaderSize
          /\ \A k \in 1..(Size(p) - HeaderSize) : Body(p)[k] = <<p, HeaderSize + k>>
      BY WholeIs, Zenon
    <3> QED BY <2>0, <3>1, Zenon
  <2>2. \A k \in 1..Len(b) : b[k] = Body(p)[k]
    BY <1>2, <1>5, <1>6, <2>1, Zenon
  <2> QED BY <1>2, <2>1, <2>2, SeqEqual, Zenon
<1>8. b[1][1] = p
  <2>1. 1 \in 1..BodySize
    BY Constants
  <2>2. b[1] = <<p, HeaderSize + 1>>
    BY <1>5, <1>6, <2>1, Zenon
  <2> QED BY <2>2
<1>9. Content(b) = p
  BY <1>7, <1>8, Zenon DEF Content
<1> QED BY <1>6, <1>8, <1>9 DEF m, b, t, seen, n, w, up, alien

(* A body that is complete, and the next header not begun.                 *)
LEMMA AfterBody ==
  ASSUME Wires, NEW e \in Ends, NEW c \in Conns, NEW init \in BOOLEAN,
         Complete(e, c, "data"), StartRead(e, c, "hdr", HeaderSize, init),
         UNCHANGED <<conn, link, wr, sent>>,
         NEW v \in Seq(Contents), passed' = Changed(passed, Other(e), c, v),
         ~Astray(e, c) =>
           \E g \in Counters :
             InOrder(After(e, c, Missing(e, c)) \o Coming(e, c), 1, init,
                     Len(v), sent[Other(e)][c], Up(e, c), link[c].alien, g)
  PROVE  Wires'
<1> DEFINE m == Missing(e, c)
           y == After(e, c, m)
           t == y \o Coming(e, c)
           x == [state |-> "hdr", full |-> HeaderSize, buffer |-> <<>>, sawInit |-> init]
           o == Other(e)
<1>0. UNCHANGED <<course, late>>
  BY DEF Complete, Arrive
<1>1. m \in Nat /\ Came(e, c, m) /\ Has(e, c) /\ net' = Changed(net, e, c, y)
  <2>1. m \in Nat
    BY MissingIs
  <2>2. Came(e, c, m) /\ Has(e, c)
    BY Zenon DEF Complete, Arrive, Came
  <2>3. net' = Changed(net, e, c, y)
    BY DEF Complete, Arrive, Changed, After
  <2> QED BY <2>1, <2>2, <2>3
<1>2. y \in Seq(AllUnits) /\ t \in Seq(AllUnits)
  BY <1>1, Arrival, Zenon DEF Wires
<1>3. rd' = Changed(rd, e, c, x)
  BY DEF StartRead, Changed
<1>4. /\ x \in Reads /\ x.buffer = <<>> /\ x.sawInit = init
      /\ x.full = IF x.state = "data" THEN BodySize ELSE HeaderSize
      /\ StartOf(x.state) = 1
  BY Constants DEF Reads, StartOf
<1>5. Len(x.buffer) < x.full
  BY Constants
<1>6. /\ passed' \in Table(Seq(Contents)) /\ passed'[o][c] = v
      /\ \A a \in Ends, b \in Conns : a # o \/ b # c => passed'[a][b] = passed[a][b]
  <2>1. passed \in Table(Seq(Contents)) /\ o \in Ends
    BY Others DEF Wires, Types
  <2>2. passed' \in Table(Seq(Contents)) /\ IsChange(passed', passed, o, c, v)
    BY <2>1, TableChange, Zenon
  <2> QED BY <2>2, Zenon DEF IsChange
<1> HIDE DEF m, y, t, x
<1>7. InOrderTo(e, c)'
  <2>0. CASE Astray(e, c)
    BY <1>0, <2>0 DEF Astray, InOrderTo
  <2> SUFFICES ASSUME ~Astray(e, c) PROVE InOrderTo(e, c)'
    BY <2>0
  <2>1. rd'[e][c] = x /\ net'[e][c] = y
    <3>1. rd \in Table(Reads) /\ net \in Table(Seq(AllUnits))
      BY DEF Wires, Types
    <3>2. IsChange(rd', rd, e, c, x)
      BY <1>3, <1>4, <3>1, TableChange, Zenon
    <3>3. IsChange(net', net, e, c, y)
      BY <1>1, <1>2, <3>1, TableChange, Zenon
    <3> QED BY <3>2, <3>3, Zenon DEF IsChange
  <2>2. Up(e, c)' = Up(e, c) /\ Coming(e, c)' = Coming(e, c)
    BY <1>0 DEF Coming, Up, Connected
  <2>3. Stream(e, c)' = t
    <3>1. Stream(e, c)' = x.buffer \o (y \o Coming(e, c))
      BY <2>1, <2>2, Zenon DEF Stream
    <3>2. Stream(e, c)' = <<>> \o t
      BY <1>4, <3>1, Zenon DEF t
    <3> QED BY <1>2, <3>2, ConcatEmptySeq
  <2>4. PICK g \in Counters :
          InOrder(t, 1, init, Len(v), sent[o][c], Up(e, c), link[c].alien, g)
    BY DEF t, y, m
  <2> QED BY <1>4, <1>6, <2>1, <2>2, <2>3, <2>4 DEF InOrderTo
<1> QED BY <1>0, <1>1, <1>2, <1>3, <1>4, <1>5, <1>6, <1>7, ReadKeepsWires

LEMMA InitKeepsWires ==
  ASSUME Wires, NEW e \in Ends, NEW c \in Conns, ReadInit(e, c)
  PROVE  Wires'
<1> DEFINE m == Missing(e, c)
           b == Buffer(e, c, m)
           o == Other(e)
           v == passed[o][c]
<1>1. /\ Complete(e, c, "data") /\ IsInit(e, c, b)
      /\ StartRead(e, c, "hdr", HeaderSize, TRUE)
      /\ UNCHANGED <<conn, link, wr, sent, passed>>
  BY DEF ReadInit
<1>2. rd[e][c].state = "data" /\ Came(e, c, m)
  BY <1>1, Zenon DEF Complete, Arrive, Came
<1>3. ~rd[e][c].sawInit /\ b[1][1].kind = "open"
  BY <1>1 DEF IsInit
<1> HIDE DEF m, b
<1>4. ASSUME ~Astray(e, c)
      PROVE  \E g \in Counters :
               InOrder(After(e, c, m) \o Coming(e, c), 1, TRUE, Len(v), sent[o][c],
                       Up(e, c), link[c].alien, g)
  <2>1. PICK p \in Packets :
          /\ b[1][1] = p
          /\ \/ \E g \in Counters :
                  InOrder(After(e, c, m) \o Coming(e, c), 1, TRUE, Len(v), sent[o][c],
                          Up(e, c), link[c].alien, g)
             \/ p.kind = "data"
    BY <1>2, <1>4, BodyCame, Zenon DEF m, b
  <2>2. p.kind # "data"
    BY <1>3, <2>1
  <2> QED BY <2>1, <2>2, Zenon
<1>5. passed' = Changed(passed, o, c, v) /\ v \in Seq(Contents)
  <2>1. o \in Ends /\ passed \in Table(Seq(Contents))
    BY Others DEF Wires, Types
  <2>2. Changed(passed, o, c, v) = passed
    BY <2>1, Zenon DEF Table, Changed
  <2> QED BY <1>1, <2>1, <2>2, TableAt, Zenon
<1> HIDE DEF v, o
<1>6. UNCHANGED <<conn, link, wr, sent>>
  BY <1>1
<1>7. TRUE \in BOOLEAN
  OBVIOUS
<1>8. passed' = Changed(passed, Other(e), c, v)
  BY <1>5 DEF o
<1>9. ~Astray(e, c) =>
        \E g \in Counters :
          InOrder(After(e, c, Missing(e, c)) \o Coming(e, c), 1, TRUE, Len(v),
                  sent[Other(e)][c], Up(e, c), link[c].alien, g)
  BY <1>4 DEF o, m
<1> QED BY <1>1, <1>5, <1>6, <1>7, <1>8, <1>9, AfterBody

LEMMA DataKeepsWires ==
  ASSUME Wires, NEW e \in Ends, NEW c \in Conns, ReadData(e, c)
  PROVE  /\ Wires'
         /\ \E p \in Contents :
              /\ passed' = Changed(passed, Other(e), c, Append(passed[Other(e)][c], p))
              /\ ~Astray(e, c) =>
                   /\ Len(passed[Other(e)][c]) + 1 <= Len(sent[Other(e)][c])
                   /\ sent[Other(e)][c][Len(passed[Other(e)][c]) + 1] = p
<1> DEFINE m == Missing(e, c)
           b == Buffer(e, c, m)
           o == Other(e)
           init == rd[e][c].sawInit
           p == Content(b)
           u == passed[o][c]
           v == Append(u, p)
<1>1. /\ Complete(e, c, "data") /\ ~IsInit(e, c, b)
      /\ StartRead(e, c, "hdr", HeaderSize, init)
      /\ passed' = Changed(passed, o, c, v)
      /\ UNCHANGED <<conn, link, wr, sent>>
  BY DEF ReadData, Changed
<1>2. rd[e][c].state = "data" /\ Came(e, c, m)
  BY <1>1, Zenon DEF Complete, Arrive, Came
<1>3. ~(~rd[e][c].sawInit /\ b[1][1].kind = "open")
  BY <1>1 DEF IsInit
<1>4. p \in Contents
  <2>1. m \in Nat /\ m >= 1 /\ Len(rd[e][c].buffer) \in Nat
    BY MissingIs
  <2>2. b \in Seq(AllUnits) /\ Len(b) = Len(rd[e][c].buffer) + m
    BY <1>2, <2>1, Arrival, Zenon DEF Wires
  <2> HIDE DEF b, m
  <2>3. b[1] \in AllUnits
    BY <2>1, <2>2
  <2>4. b[1][1] \in Packets
    BY <2>3, UnitsAre
  <2> QED BY <2>4 DEF Content, Contents, Packets
<1> HIDE DEF m, b, p
<1>5. ASSUME ~Astray(e, c)
      PROVE  /\ Len(u) + 1 <= Len(sent[o][c]) /\ sent[o][c][Len(u) + 1] = p
             /\ \E g \in Counters :
                  InOrder(After(e, c, m) \o Coming(e, c), 1, init,
                          Len(u) + 1, sent[o][c], Up(e, c), link[c].alien, g)
  <2>1. PICK d \in Packets :
          /\ b[1][1] = d /\ Content(b) = d
          /\ \/ d.kind = "open" /\ ~rd[e][c].sawInit
             \/ /\ d.kind = "data" /\ Len(u) + 1 <= Len(sent[o][c])
                /\ sent[o][c][Len(u) + 1] = d
                /\ \E g \in Counters :
                     InOrder(After(e, c, m) \o Coming(e, c), 1, init,
                             Len(u) + 1, sent[o][c], Up(e, c), link[c].alien, g)
    BY <1>2, <1>5, BodyCame, Zenon DEF m, b
  <2>2. ~(d.kind = "open" /\ ~rd[e][c].sawInit)
    BY <1>3, <2>1
  <2>3. p = d
    BY <2>1 DEF p
  <2> QED BY <2>1, <2>2, <2>3, Zenon
<1>6. v \in Seq(Contents) /\ Len(v) = Len(u) + 1
  <2>1. u \in Seq(Contents)
    BY Entries, Others, Zenon DEF Wires
  <2> HIDE DEF u
  <2> QED BY <1>4, <2>1, AppendProperties, Zenon
<1>7. init \in BOOLEAN
  <2>1. rd[e][c] \in Reads
    BY Entries, Zenon DEF Wires
  <2> QED BY <2>1 DEF Reads
<1>8. ~Astray(e, c) =>
        \E g \in Counters :
          InOrder(After(e, c, Missing(e, c)) \o Coming(e, c), 1, init, Len(v),
                  sent[Other(e)][c], Up(e, c), link[c].alien, g)
  BY <1>5, <1>6, Zenon DEF m
<1>9. passed' = Changed(passed, Other(e), c, v)
  BY <1>1
<1> HIDE DEF v, init
<1>10. Wires'
  BY <1>1, <1>6, <1>7, <1>8, <1>9, AfterBody
<1> QED BY <1>4, <1>5, <1>9, <1>10, Zenon DEF v, u

(* All before a cut has been read, and the reader goes on behind it.       *)
LEMMA BehindKeepsWires ==
  ASSUME Wires, NEW e \in Ends, NEW c \in Conns, ReadBehind(e, c)
  PROVE  Wires' /\ course' = Changed(course, Other(e), c, "astray")
<1> DEFINE o == Other(e)
           y == late[e][c]
           z == <<>>
           k == "astray"
<1>0. Types /\ Held /\ Reading /\ Streams
  BY DEF Wires
<1>1. /\ course' = Changed(course, o, c, k) /\ net' = Changed(net, e, c, y)
      /\ late' = Changed(late, e, c, z) /\ UNCHANGED <<conn, link, rd, wr, sent, passed>>
  BY DEF ReadBehind, Changed
<1>2. o \in Ends /\ k \in Courses /\ y \in Seq(AllUnits) /\ z \in Seq(AllUnits)
  <2>1. o \in Ends /\ y \in Seq(AllUnits)
    BY <1>0, Entries, Others, Zenon
  <2> QED BY <2>1, EmptySeq DEF Courses
<1> HIDE DEF y, z, k
<1>3. /\ course' \in Table(Courses) /\ IsChange(course', course, o, c, k)
      /\ net' \in Table(Seq(AllUnits)) /\ IsChange(net', net, e, c, y)
      /\ late' \in Table(Seq(AllUnits))
  <2>1. /\ course \in Table(Courses) /\ net \in Table(Seq(AllUnits))
        /\ late \in Table(Seq(AllUnits))
    BY <1>0 DEF Types
  <2>2. course' \in Table(Courses) /\ IsChange(course', course, o, c, k)
    BY <1>1, <1>2, <2>1, TableChange, Zenon
  <2>3. net' \in Table(Seq(AllUnits)) /\ IsChange(net', net, e, c, y)
    BY <1>1, <1>2, <2>1, TableChange, Zenon
  <2>4. late' \in Table(Seq(AllUnits))
    BY <1>1, <1>2, <2>1, TableChange, Zenon
  <2> QED BY <2>2, <2>3, <2>4
<1>4. Types'
  BY <1>0, <1>1, <1>3, Zenon DEF Types
<1>5. Held' /\ Reading'
  BY <1>0, <1>1, Zenon DEF Held, Has, Writing, Reading
<1>6. Streams'
  <2> SUFFICES ASSUME NEW a \in Ends, NEW b \in Conns PROVE InOrderTo(a, b)'
    BY Zenon DEF Streams
  <2>1. CASE a = e /\ b = c
    <3>1. course'[o][c] = k
      BY <1>3 DEF IsChange
    <3> QED BY <2>1, <3>1 DEF InOrderTo, Astray, k
  <2>2. CASE ~(a = e /\ b = c)
    <3>1. InOrderTo(a, b)
      BY <1>0, Zenon DEF Streams
    <3>2. Other(a) # o \/ b # c
      BY <2>2, Others, Zenon
    <3>3. net'[a][b] = net[a][b] /\ course'[Other(a)][b] = course[Other(a)][b]
      BY <1>3, <2>2, <3>2, Others, Zenon DEF IsChange
    <3> QED BY <1>1, <3>1, <3>3, Unseen
  <2> QED BY <2>1, <2>2
<1> QED BY <1>1, <1>4, <1>5, <1>6 DEF Wires, k

(* The reader takes what is no header, and starts no other read.           *)
LEMMA LingerKeepsWires ==
  ASSUME Wires, NEW e \in Ends, NEW c \in Conns, Linger(e, c), UNCHANGED <<sent, passed>>
  PROVE  Wires'
<1> DEFINE m == Missing(e, c)
           y == After(e, c, m)
           x == [state |-> "idle", full |-> HeaderSize, buffer |-> <<>>,
                 sawInit |-> rd[e][c].sawInit]
<1>1. m \in Nat /\ Came(e, c, m) /\ Has(e, c) /\ net' = Changed(net, e, c, y)
  <2>1. m \in Nat
    BY MissingIs
  <2>2. Came(e, c, m) /\ Has(e, c)
    BY Zenon DEF Linger, Arrive, Came
  <2>3. net' = Changed(net, e, c, y)
    BY DEF Linger, Arrive, Changed, After
  <2> QED BY <2>1, <2>2, <2>3
<1>2. y \in Seq(AllUnits)
  BY <1>1, Arrival, Zenon DEF Wires
<1>3. /\ rd' = Changed(rd, e, c, x) /\ UNCHANGED <<conn, link, course, late, wr>>
      /\ Astray(e, c)
  BY DEF Linger, StartRead, Changed, Arrive, Astray
<1>4. x \in Reads /\ Len(x.buffer) < x.full /\ x.full = HeaderSize /\ x.state = "idle"
  <2>1. rd[e][c] \in Reads
    BY Entries, Zenon DEF Wires
  <2>2. rd[e][c].sawInit \in BOOLEAN
    BY <2>1 DEF Reads
  <2> QED BY <2>2, Constants DEF Reads
<1>5. InOrderTo(e, c)'
  BY <1>3 DEF Astray, InOrderTo
<1>6. passed' \in Table(Seq(Contents))
  BY DEF Wires, Types
<1> HIDE DEF m, y, x
<1> QED BY <1>1, <1>2, <1>3, <1>4, <1>5, <1>6, ReadKeepsWires

LEMMA BeginKeepsWires ==
  ASSUME Wires, NEW e \in Ends, NEW c \in Conns, NEW p \in DataPackets,
         NEW nowait \in BOOLEAN, Has(e, c), Begin(e, c, p, nowait),
         UNCHANGED <<conn, link, course, net, late, rd, passed>>
  PROVE  Wires'
<1> DEFINE o == Other(e)
           z == [todo |-> Whole(p), nowait |-> nowait]
           w == sent[e][c]
           v == Append(w, p)
<1>0. Types /\ Held /\ Reading /\ Streams
  BY DEF Wires
<1>1. wr[e][c].todo = <<>>
  BY Zenon DEF Begin, CanWrite, LockFree, Writing
<1>2. /\ Whole(p) \in Seq(AllUnits) /\ w \in Seq(DataPackets)
      /\ o \in Ends /\ Other(o) = e /\ p \in Packets /\ p.kind = "data"
      /\ rd[o][c].buffer \in Seq(AllUnits) /\ net[o][c] \in Seq(AllUnits)
  BY <1>0, Entries, Others, Kinds, WholeIs, Zenon
<1>3. z \in Writes /\ z.todo = Whole(p)
  BY <1>2 DEF Writes
<1>4. v \in Seq(DataPackets)
  <2> HIDE DEF w
  <2> QED BY <1>2, AppendProperties, Zenon
<1>5. wr' = Changed(wr, e, c, z) /\ sent' = Changed(sent, e, c, v)
  BY DEF Begin, Changed
<1> HIDE DEF z, v
<1>6. /\ wr' \in Table(Writes) /\ IsChange(wr', wr, e, c, z)
      /\ sent' \in Table(Seq(DataPackets)) /\ IsChange(sent', sent, e, c, v)
  <2>1. wr \in Table(Writes) /\ sent \in Table(Seq(DataPackets))
    BY <1>0 DEF Types
  <2>2. wr' \in Table(Writes) /\ IsChange(wr', wr, e, c, z)
    BY <1>3, <1>5, <2>1, TableChange, Zenon
  <2>3. sent' \in Table(Seq(DataPackets)) /\ IsChange(sent', sent, e, c, v)
    BY <1>4, <1>5, <2>1, TableChange, Zenon
  <2> QED BY <2>2, <2>3
<1>7. wr'[e][c] = z /\ sent'[e][c] = v
  BY <1>6, Zenon DEF IsChange
<1>8. Types'
  BY <1>0, <1>6, Zenon DEF Types
<1>9. Held'
  <2>1. ASSUME NEW a \in Ends, NEW b \in Conns, Writing(a, b)' PROVE Has(a, b)
    <3>1. CASE a = e /\ b = c
      BY <3>1
    <3>2. CASE ~(a = e /\ b = c)
      <4>1. wr'[a][b] = wr[a][b]
        BY <1>6, <3>2, Zenon DEF IsChange
      <4> QED BY <1>0, <2>1, <4>1, Zenon DEF Held, Writing
    <3> QED BY <3>1, <3>2
  <2> QED BY <1>0, <2>1, Zenon DEF Held, Has
<1>10. Reading'
  BY <1>0, Zenon DEF Reading
<1>11. Up(o, c)' = Up(o, c)
  BY DEF Up, Connected
<1>12. InOrderTo(o, c)'
  <2>1. CASE Up(o, c)
    <3>1. Stream(o, c)' = Stream(o, c) \o Whole(p)
      <4>1. Coming(o, c) = <<>> /\ Coming(o, c)' = Whole(p)
        BY <1>1, <1>2, <1>3, <1>7, <1>11, <2>1, Zenon DEF Coming
      <4>2. Stream(o, c) = rd[o][c].buffer \o net[o][c]
        BY <1>2, <4>1, ConcatEmptySeq DEF Stream
      <4>3. (rd[o][c].buffer \o net[o][c]) \o Whole(p)
              = rd[o][c].buffer \o (net[o][c] \o Whole(p))
        BY <1>2, Associative, Zenon
      <4>4. Stream(o, c)' = rd[o][c].buffer \o (net[o][c] \o Whole(p))
        BY <4>1 DEF Stream
      <4> QED BY <4>2, <4>3, <4>4, Zenon
    <3>2. sent'[Other(o)][c] = With(sent[Other(o)][c], p) /\ ~First(p)
      BY <1>2, <1>7 DEF With, First, v
    <3> QED BY <1>2, <2>1, <3>1, <3>2, MoreStream
  <2>2. CASE ~Up(o, c) /\ ~Astray(o, c)
    <3>1. Stream(o, c)' = Stream(o, c)
      BY <1>11, <2>2 DEF Stream, Coming
    <3> DEFINE s == Stream(o, c)
               start == StartOf(rd[o][c].state)
               seen == rd[o][c].sawInit
               n == Len(passed[e][c])
               alien == link[c].alien
    <3>2. s \in Seq(AllUnits)
      BY <1>0, <1>2, StreamIs, Zenon
    <3>3. Up(o, c) = FALSE
      BY <2>2 DEF Up
    <3>4. PICK f \in Counters : InOrder(s, start, seen, n, w, FALSE, alien, f)
      <4>1. InOrderTo(o, c)
        BY <1>0, <1>2, Zenon DEF Streams
      <4> QED BY <1>2, <2>2, <3>3, <4>1 DEF InOrderTo
    <3>5. /\ Len(w) \in Nat /\ Len(v) \in Nat /\ Len(w) <= Len(v)
          /\ \A k \in 1..Len(w) : v[k] = w[k]
      <4> HIDE DEF w
      <4>1. Len(v) = Len(w) + 1 /\ Len(w) \in Nat /\ \A k \in 1..Len(w) : v[k] = w[k]
        BY <1>2, AppendProperties, Lengths DEF v
      <4> QED BY <4>1
    <3> HIDE DEF s, start, seen, n, w, alien
    <3>6. InOrder(s, start, seen, n, v, FALSE, alien, f)
      BY <3>2, <3>4, <3>5, Longer, Zenon
    <3> QED BY <1>2, <1>7, <1>11, <3>1, <3>3, <3>6 DEF InOrderTo, s, start, seen, n, alien
  <2>3. CASE Astray(o, c)
    BY <2>3 DEF Astray, InOrderTo
  <2> QED BY <2>1, <2>2, <2>3
<1>13. Streams'
  <2> SUFFICES ASSUME NEW a \in Ends, NEW b \in Conns, ~(a = o /\ b = c) PROVE InOrderTo(a, b)'
    BY <1>12, Zenon DEF Streams
  <2>1. InOrderTo(a, b)
    BY <1>0, Zenon DEF Streams
  <2>2. Other(a) # e \/ b # c
    BY <1>2, Others, Zenon
  <2>3. wr'[Other(a)][b] = wr[Other(a)][b] /\ sent'[Other(a)][b] = sent[Other(a)][b]
    BY <1>6, <2>2, Others, Zenon DEF IsChange
  <2> QED BY <2>1, <2>3, Unseen
<1> QED BY <1>8, <1>9, <1>10, <1>13 DEF Wires

LEMMA BreakKeepsWires ==
  ASSUME Wires, NEW c \in Conns, Break(c)
  PROVE  Wires'
<1>0. Types /\ Held /\ Reading /\ Streams
  BY DEF Wires
<1>1. /\ Connected(c) /\ UNCHANGED <<conn, course, net, late, rd, wr, sent, passed>>
      /\ link' = [link EXCEPT ![c].up = FALSE]
  BY DEF Break, way
<1>2. /\ link' \in [Conns -> Links] /\ ~link'[c].up
      /\ link'[c].alien = link[c].alien
      /\ \A b \in Conns : link'[b].ends = link[b].ends
      /\ \A b \in Conns : b # c => link'[b] = link[b]
  <2>1. link \in [Conns -> Links]
    BY <1>0 DEF Types
  <2> QED BY <1>1, <2>1 DEF Links
<1>3. Types'
  BY <1>0, <1>1, <1>2, Zenon DEF Types
<1>4. Held'
  <2>1. \A a \in Ends, b \in Conns : Has(a, b)' <=> Has(a, b)
    BY <1>2, Zenon DEF Has
  <2>2. \A b \in Conns : Has("here", b)' <=> Has("here", b)
    BY <2>1 DEF Ends
  <2> QED BY <1>0, <1>1, <2>1, <2>2, Zenon DEF Held, Writing
<1>5. Reading'
  BY <1>0, <1>1, Zenon DEF Reading
<1>6. Streams'
  <2> SUFFICES ASSUME NEW a \in Ends, NEW b \in Conns PROVE InOrderTo(a, b)'
    BY Zenon DEF Streams
  <2>1. InOrderTo(a, b)
    BY <1>0, Zenon DEF Streams
  <2>2. CASE b # c
    BY <1>1, <1>2, <2>1, <2>2, Unseen
  <2>3. CASE b = c
    <3>1. ~Up(a, c)' /\ (Astray(a, c) => Astray(a, c)')
      BY <1>1, <1>2 DEF Up, Connected, Astray
    <3>2. /\ rd[a][c].buffer \in Seq(AllUnits) /\ net[a][c] \in Seq(AllUnits)
          /\ Coming(a, c) \in Seq(AllUnits)
      BY <1>0, Entries, StreamIs, Zenon
    <3>3. Stream(a, c)' = rd[a][c].buffer \o net[a][c]
      <4>1. Coming(a, c)' = <<>>
        BY <3>1 DEF Coming
      <4> QED BY <1>1, <3>2, <4>1, ConcatEmptySeq DEF Stream
    <3>4. Stream(a, c) = Stream(a, c)' \o Coming(a, c)
      <4>1. (rd[a][c].buffer \o net[a][c]) \o Coming(a, c)
              = rd[a][c].buffer \o (net[a][c] \o Coming(a, c))
        BY <3>2, Associative, Zenon
      <4> QED BY <3>3, <4>1, Zenon DEF Stream
    <3>5. Stream(a, c)' \in Seq(AllUnits)
      BY <3>2, <3>3, ConcatProperties, Zenon
    <3>6. InOrderTo(a, c)'
      BY <1>1, <1>2, <3>1, <3>2, <3>4, <3>5, LessStream
    <3> QED BY <2>3, <3>6
  <2> QED BY <2>2, <2>3
<1> QED BY <1>3, <1>4, <1>5, <1>6 DEF Wires

LEMMA ReleaseKeepsWires ==
  ASSUME Wires, NEW e \in Ends, NEW c \in Conns, Release(e, c), UNCHANGED <<sent, passed>>
  PROVE  Wires'
<1> DEFINE x == StartHeader(FALSE)
<1>0. Types /\ Held /\ Reading /\ Streams
  BY DEF Wires
<1>1. /\ late' = [late EXCEPT ![e][c] = <<>>] /\ course' = course
      /\ net' = Changed(net, e, c, <<>>) /\ rd' = Changed(rd, e, c, x)
      /\ wr' = Changed(wr, e, c, NoWrite)
      /\ conn' = [n \in Numbers |-> IF e = "here" /\ conn[n] = c THEN 0 ELSE conn[n]]
      /\ link' = [link EXCEPT ![c].ends = @ \ {e}, ![c].up = FALSE]
  BY DEF Release, Changed
<1>2. /\ <<>> \in Seq(AllUnits) /\ x \in Reads /\ NoWrite \in Writes
      /\ NoWrite.todo = <<>> /\ x.buffer = <<>> /\ x.state = "hdr" /\ x.full = HeaderSize
  BY Constants, EmptySeq DEF Reads, Writes, NoWrite, StartHeader
<1> HIDE DEF x
<1>3. /\ net' \in Table(Seq(AllUnits)) /\ IsChange(net', net, e, c, <<>>)
      /\ late' \in Table(Seq(AllUnits))
      /\ rd' \in Table(Reads) /\ IsChange(rd', rd, e, c, x)
      /\ wr' \in Table(Writes) /\ IsChange(wr', wr, e, c, NoWrite)
  <2>1. net \in Table(Seq(AllUnits)) /\ rd \in Table(Reads) /\ wr \in Table(Writes)
    BY <1>0 DEF Types
  <2>2. net' \in Table(Seq(AllUnits)) /\ IsChange(net', net, e, c, <<>>)
    BY <1>1, <1>2, <2>1, TableChange, Zenon
  <2>3. rd' \in Table(Reads) /\ IsChange(rd', rd, e, c, x)
    BY <1>1, <1>2, <2>1, TableChange, Zenon
  <2>4. wr' \in Table(Writes) /\ IsChange(wr', wr, e, c, NoWrite)
    BY <1>1, <1>2, <2>1, TableChange, Zenon
  <2>5. late' \in Table(Seq(AllUnits))
    <3>1. late \in Table(Seq(AllUnits)) /\ late' = Changed(late, e, c, <<>>)
      BY <1>0, <1>1 DEF Types, Changed
    <3> QED BY <1>2, <3>1, TableChange, Zenon
  <2> QED BY <2>2, <2>3, <2>4, <2>5
<1>4. /\ link' \in [Conns -> Links] /\ ~link'[c].up /\ link'[c].ends = link[c].ends \ {e}
      /\ link'[c].alien = link[c].alien
      /\ \A b \in Conns : b # c => link'[b] = link[b]
  <2>1. link \in [Conns -> Links]
    BY <1>0 DEF Types
  <2> QED BY <1>1, <2>1 DEF Links
<1>5. ASSUME NEW a \in Ends, NEW b \in Conns, ~(a = e /\ b = c)
      PROVE  /\ net'[a][b] = net[a][b] /\ rd'[a][b] = rd[a][b] /\ wr'[a][b] = wr[a][b]
             /\ Has(a, b)' <=> Has(a, b)
  <2>1. net'[a][b] = net[a][b] /\ rd'[a][b] = rd[a][b] /\ wr'[a][b] = wr[a][b]
    BY <1>3, <1>5, Zenon DEF IsChange
  <2>2. Has(a, b)' <=> Has(a, b)
    BY <1>4, <1>5 DEF Has
  <2> QED BY <2>1, <2>2
<1>6. /\ net'[e][c] = <<>> /\ rd'[e][c] = x /\ wr'[e][c] = NoWrite /\ ~Has(e, c)'
  BY <1>3, <1>4 DEF IsChange, Has
<1>7. /\ conn' \in [Numbers -> Conns \cup {0}]
      /\ \A n \in Numbers : conn'[n] = IF e = "here" /\ conn[n] = c THEN 0 ELSE conn[n]
  <2>1. conn \in [Numbers -> Conns \cup {0}]
    BY <1>0 DEF Types
  <2> QED BY <1>1, <2>1
<1>8. Types'
  BY <1>0, <1>1, <1>3, <1>4, <1>7, Zenon DEF Types
<1>9. Held'
  <2>1. ASSUME NEW b \in Conns PROVE Has("here", b)' <=> \E n \in Numbers : conn'[n] = b
    <3>0. "here" \in Ends /\ b # 0
      BY Constants DEF Ends
    <3>1. CASE e = "here" /\ b = c
      <4>1. \A n \in Numbers : conn'[n] # c
        BY <1>7, <3>0, <3>1
      <4> QED BY <1>6, <3>1, <4>1
    <3>2. CASE ~(e = "here" /\ b = c)
      <4>1. Has("here", b)' <=> Has("here", b)
        BY <1>5, <3>0, <3>2
      <4>2. \A n \in Numbers : conn'[n] = b <=> conn[n] = b
        BY <1>7, <3>0, <3>2
      <4>3. Has("here", b) <=> \E n \in Numbers : conn[n] = b
        BY <1>0, Zenon DEF Held
      <4> QED BY <4>1, <4>2, <4>3, Zenon
    <3> QED BY <3>1, <3>2
  <2>2. ASSUME NEW a \in Ends, NEW b \in Conns
        PROVE  (Writing(a, b)' => Has(a, b)') /\ (rd'[a][b].state = "data" => Has(a, b)')
    <3>1. CASE a = e /\ b = c
      BY <1>2, <1>6, <3>1 DEF Writing
    <3>2. CASE ~(a = e /\ b = c)
      <4>1. /\ rd'[a][b] = rd[a][b] /\ wr'[a][b] = wr[a][b]
            /\ Has(a, b)' <=> Has(a, b)
        BY <1>5, <3>2
      <4>2. (Writing(a, b) => Has(a, b)) /\ (rd[a][b].state = "data" => Has(a, b))
        BY <1>0, Zenon DEF Held
      <4> QED BY <4>1, <4>2 DEF Writing
    <3> QED BY <3>1, <3>2
  <2> QED BY <2>1, <2>2, Zenon DEF Held
<1>10. Reading'
  <2> SUFFICES ASSUME NEW a \in Ends, NEW b \in Conns
               PROVE  /\ Len(rd'[a][b].buffer) < rd'[a][b].full
                      /\ rd'[a][b].full = IF rd'[a][b].state = "data" THEN BodySize ELSE HeaderSize
    BY Zenon DEF Reading
  <2>1. CASE a = e /\ b = c
    <3>1. Len(x.buffer) = 0 /\ Len(x.buffer) < x.full
      BY <1>2, Constants
    <3> QED BY <1>2, <1>6, <2>1, <3>1
  <2>2. CASE ~(a = e /\ b = c)
    <3>1. rd'[a][b] = rd[a][b]
      BY <1>5, <2>2
    <3> QED BY <1>0, <3>1, Zenon DEF Reading
  <2> QED BY <2>1, <2>2
<1>11. \A a \in Ends : Up(a, c)' = FALSE /\ Astray(a, c)' = Astray(a, c)
  BY <1>1, <1>4 DEF Up, Connected, Astray
<1>12. ASSUME NEW a \in Ends PROVE Coming(a, c)' = <<>>
  BY <1>11 DEF Coming
<1>13. InOrderTo(e, c)'
  <2>1. Stream(e, c)' = <<>>
    BY <1>2, <1>6, <1>12, ConcatEmptySeq DEF Stream
  <2>2. Up(e, c)' = FALSE
    BY <1>11
  <2> DEFINE start == StartOf(x.state)
             seen == x.sawInit
             n == Len(passed'[Other(e)][c])
             w == sent'[Other(e)][c]
             alien == link'[c].alien
             f == [k \in Nat |-> 0]
  <2>3. f \in Counters
    BY DEF Counters
  <2> HIDE DEF start, seen, n, w, alien, f
  <2>4. InOrder(<<>>, start, seen, n, w, FALSE, alien, f)
    BY Nothing, Zenon
  <2> QED BY <1>6, <2>1, <2>2, <2>3, <2>4 DEF InOrderTo, start, seen, n, w, alien
<1>14. InOrderTo(Other(e), c)'
  <2> DEFINE o == Other(e)
  <2>0. o \in Ends /\ o # e
    BY Others
  <2> HIDE DEF o
  <2>1. rd'[o][c] = rd[o][c] /\ net'[o][c] = net[o][c]
    BY <1>5, <2>0
  <2>2. /\ rd[o][c].buffer \in Seq(AllUnits) /\ net[o][c] \in Seq(AllUnits)
        /\ Coming(o, c) \in Seq(AllUnits)
    BY <1>0, <2>0, Entries, StreamIs, Zenon
  <2>3. Stream(o, c)' = rd[o][c].buffer \o net[o][c]
    BY <1>12, <2>0, <2>1, <2>2, ConcatEmptySeq DEF Stream
  <2>4. Stream(o, c) = Stream(o, c)' \o Coming(o, c)
    <3>1. (rd[o][c].buffer \o net[o][c]) \o Coming(o, c)
            = rd[o][c].buffer \o (net[o][c] \o Coming(o, c))
      BY <2>2, Associative, Zenon
    <3> QED BY <2>3, <3>1, Zenon DEF Stream
  <2>5. Stream(o, c)' \in Seq(AllUnits)
    BY <2>2, <2>3, ConcatProperties, Zenon
  <2>6. InOrderTo(o, c)'
    BY <1>4, <1>11, <2>0, <2>1, <2>2, <2>4, <2>5, LessStream
  <2> QED BY <2>6 DEF o
<1>15. Streams'
  <2> SUFFICES ASSUME NEW a \in Ends, NEW b \in Conns PROVE InOrderTo(a, b)'
    BY Zenon DEF Streams
  <2>1. CASE b = c
    BY <1>13, <1>14, <2>1, Others, Zenon
  <2>2. CASE b # c
    <3>1. InOrderTo(a, b)
      BY <1>0, Zenon DEF Streams
    <3>2. rd'[a][b] = rd[a][b] /\ net'[a][b] = net[a][b]
      BY <1>5, <2>2
    <3>3. wr'[Other(a)][b] = wr[Other(a)][b]
      BY <1>5, <2>2, Others
    <3> QED BY <1>1, <1>4, <2>2, <3>1, <3>2, <3>3, Unseen
  <2> QED BY <2>1, <2>2
<1> QED BY <1>8, <1>9, <1>10, <1>15 DEF Wires

(* Tables in which a place is set to x at both ends.                       *)
Cleared(f, c, x) == [e \in Ends |-> [f[e] EXCEPT ![c] = x]]
IsCleared(g, f, c, x) ==
  /\ \A a \in Ends : g[a][c] = x
  /\ \A a \in Ends, b \in Conns : b # c => g[a][b] = f[a][b]

LEMMA ClearedIs ==
  ASSUME NEW S, NEW f \in Table(S), NEW c \in Conns, NEW x \in S
  PROVE  Cleared(f, c, x) \in Table(S) /\ IsCleared(Cleared(f, c, x), f, c, x)
BY DEF Table, Cleared, IsCleared

LEMMA MakeKeepsWires ==
  ASSUME Wires, NEW n \in Numbers, NEW c \in Conns, NEW with \in Partners,
         NEW client \in Ends, NEW p \in {OpenPacket, AlienPacket},
         Make(n, c, with, client, p)
  PROVE  Wires'
<1> DEFINE o == Other(client)
           z == [todo |-> Whole(p), nowait |-> TRUE]
           init(e) == StartHeader(e = client)
<1>0. Types /\ Held /\ Reading /\ Streams
  BY DEF Wires
<1>1. /\ conn[n] = 0 /\ link[c].ends = {} /\ conn' = [conn EXCEPT ![n] = c]
      /\ link' = [link EXCEPT ![c] = [with |-> with, ends |-> Ends, up |-> TRUE,
                                      alien |-> p = AlienPacket]]
      /\ course' = Cleared(course, c, "sound")
      /\ net' = Cleared(net, c, <<>>) /\ late' = Cleared(late, c, <<>>)
      /\ rd' = [e \in Ends |-> [rd[e] EXCEPT ![c] = init(e)]]
      /\ wr' = Changed(wr, client, c, z)
      /\ sent' = Cleared(sent, c, <<>>) /\ passed' = Cleared(passed, c, <<>>)
  BY DEF Make, Changed, Cleared
<1>2. /\ o \in Ends /\ o # client /\ Other(o) = client
      /\ p \in Packets /\ First(p) /\ p.kind # "data" /\ (p.kind = "alien" => p = AlienPacket)
      /\ Whole(p) \in Seq(AllUnits)
  <2>1. o \in Ends /\ o # client /\ Other(o) = client
    BY Others, Zenon
  <2>2. /\ p \in Packets /\ First(p) /\ p.kind # "data"
        /\ p.kind = "alien" => p = AlienPacket
    BY Kinds DEF First
  <2>3. Whole(p) \in Seq(AllUnits)
    BY <2>2, WholeIs, Zenon
  <2> QED BY <2>1, <2>2, <2>3
<1>3. z \in Writes /\ z.todo = Whole(p)
  BY <1>2 DEF Writes
<1>4. \A e \in Ends : /\ init(e) \in Reads /\ init(e).state = "hdr" /\ init(e).full = HeaderSize
                      /\ init(e).buffer = <<>> /\ init(e).sawInit = (e = client)
  BY Constants, EmptySeq DEF StartHeader, Reads
<1> HIDE DEF z, init, o
<1>5. wr' \in Table(Writes) /\ IsChange(wr', wr, client, c, z)
  <2>1. wr \in Table(Writes)
    BY <1>0 DEF Types
  <2> QED BY <1>1, <1>3, <2>1, TableChange, Zenon
<1>6. /\ rd' \in Table(Reads)
      /\ \A a \in Ends : rd'[a][c] = init(a)
      /\ \A a \in Ends, b \in Conns : b # c => rd'[a][b] = rd[a][b]
  <2>1. rd \in Table(Reads)
    BY <1>0 DEF Types
  <2> QED BY <1>1, <1>4, <2>1 DEF Table
<1>7. /\ net' \in Table(Seq(AllUnits)) /\ \A a \in Ends : net'[a][c] = <<>>
      /\ \A a \in Ends, b \in Conns : b # c => net'[a][b] = net[a][b]
  <2>1. net \in Table(Seq(AllUnits)) /\ <<>> \in Seq(AllUnits)
    BY <1>0, EmptySeq DEF Types
  <2>2. net' \in Table(Seq(AllUnits)) /\ IsCleared(net', net, c, <<>>)
    BY <1>1, <2>1, ClearedIs, Zenon
  <2> QED BY <2>2, Zenon DEF IsCleared
<1>7a. late' \in Table(Seq(AllUnits))
  <2>1. late \in Table(Seq(AllUnits)) /\ <<>> \in Seq(AllUnits)
    BY <1>0, EmptySeq DEF Types
  <2> QED BY <1>1, <2>1, ClearedIs, Zenon
<1>7b. /\ course' \in Table(Courses) /\ \A a \in Ends : course'[a][c] = "sound"
       /\ \A a \in Ends, b \in Conns : b # c => course'[a][b] = course[a][b]
  <2>1. course \in Table(Courses) /\ "sound" \in Courses
    BY <1>0 DEF Types, Courses
  <2>2. course' \in Table(Courses) /\ IsCleared(course', course, c, "sound")
    BY <1>1, <2>1, ClearedIs, Zenon
  <2> QED BY <2>2, Zenon DEF IsCleared
<1>8. /\ sent' \in Table(Seq(DataPackets)) /\ \A a \in Ends : sent'[a][c] = <<>>
      /\ \A a \in Ends, b \in Conns : b # c => sent'[a][b] = sent[a][b]
  <2>1. sent \in Table(Seq(DataPackets)) /\ <<>> \in Seq(DataPackets)
    BY <1>0, EmptySeq DEF Types
  <2>2. sent' \in Table(Seq(DataPackets)) /\ IsCleared(sent', sent, c, <<>>)
    BY <1>1, <2>1, ClearedIs, Zenon
  <2> QED BY <2>2, Zenon DEF IsCleared
<1>9. /\ passed' \in Table(Seq(Contents)) /\ \A a \in Ends : passed'[a][c] = <<>>
      /\ \A a \in Ends, b \in Conns : b # c => passed'[a][b] = passed[a][b]
  <2>1. passed \in Table(Seq(Contents)) /\ <<>> \in Seq(Contents)
    BY <1>0, EmptySeq DEF Types
  <2>2. passed' \in Table(Seq(Contents)) /\ IsCleared(passed', passed, c, <<>>)
    BY <1>1, <2>1, ClearedIs, Zenon
  <2> QED BY <2>2, Zenon DEF IsCleared
<1>10. /\ link' \in [Conns -> Links] /\ link'[c].up = TRUE /\ link'[c].ends = Ends
       /\ link'[c].alien = (p = AlienPacket)
       /\ \A b \in Conns : b # c => link'[b] = link[b]
  <2>1. link \in [Conns -> Links]
    BY <1>0 DEF Types
  <2>2. [with |-> with, ends |-> Ends, up |-> TRUE, alien |-> p = AlienPacket] \in Links
    BY DEF Links, Someone
  <2> QED BY <1>1, <2>1, <2>2
<1>11. /\ conn' \in [Numbers -> Conns \cup {0}] /\ conn'[n] = c
       /\ \A m \in Numbers : m # n => conn'[m] = conn[m]
  <2>1. conn \in [Numbers -> Conns \cup {0}]
    BY <1>0 DEF Types
  <2> QED BY <1>1, <2>1
<1>12. Types'
  BY <1>5, <1>6, <1>7, <1>7a, <1>7b, <1>8, <1>9, <1>10, <1>11, Zenon DEF Types
<1>13. \A a \in Ends : Has(a, c)' /\ ~Has(a, c)
  BY <1>1, <1>10 DEF Has
<1>14. \A a \in Ends, b \in Conns : b # c => (Has(a, b)' <=> Has(a, b)) /\ wr'[a][b] = wr[a][b]
  BY <1>5, <1>10, Zenon DEF Has, IsChange
<1>15. Held'
  <2>0. "here" \in Ends
    BY DEF Ends
  <2>1. ASSUME NEW b \in Conns PROVE Has("here", b)' <=> \E m \in Numbers : conn'[m] = b
    <3>1. CASE b = c
      BY <1>11, <1>13, <2>0, <3>1
    <3>2. CASE b # c
      <4>1. Has("here", b)' <=> Has("here", b)
        BY <1>14, <2>0, <3>2
      <4>2. \A m \in Numbers : conn'[m] = b <=> conn[m] = b
        <5>1. b # 0
          BY Constants
        <5> QED BY <1>1, <1>11, <3>2, <5>1
      <4>3. Has("here", b) <=> \E m \in Numbers : conn[m] = b
        BY <1>0, Zenon DEF Held
      <4> QED BY <4>1, <4>2, <4>3, Zenon
    <3> QED BY <3>1, <3>2
  <2>2. ASSUME NEW a \in Ends, NEW b \in Conns
        PROVE  (Writing(a, b)' => Has(a, b)') /\ (rd'[a][b].state = "data" => Has(a, b)')
    <3>1. CASE b = c
      BY <1>13, <3>1
    <3>2. CASE b # c
      <4>1. /\ rd'[a][b] = rd[a][b] /\ wr'[a][b] = wr[a][b]
            /\ Has(a, b)' <=> Has(a, b)
        BY <1>6, <1>14, <3>2
      <4>2. (Writing(a, b) => Has(a, b)) /\ (rd[a][b].state = "data" => Has(a, b))
        BY <1>0, Zenon DEF Held
      <4> QED BY <4>1, <4>2 DEF Writing
    <3> QED BY <3>1, <3>2
  <2> QED BY <2>1, <2>2, Zenon DEF Held
<1>16. Reading'
  <2> SUFFICES ASSUME NEW a \in Ends, NEW b \in Conns
               PROVE  /\ Len(rd'[a][b].buffer) < rd'[a][b].full
                      /\ rd'[a][b].full = IF rd'[a][b].state = "data" THEN BodySize ELSE HeaderSize
    BY Zenon DEF Reading
  <2>1. CASE b = c
    <3>1. Len(init(a).buffer) = 0 /\ Len(init(a).buffer) < init(a).full
      BY <1>4, Constants
    <3> QED BY <1>4, <1>6, <2>1, <3>1
  <2>2. CASE b # c
    <3>1. rd'[a][b] = rd[a][b]
      BY <1>6, <2>2
    <3> QED BY <1>0, <3>1, Zenon DEF Reading
  <2> QED BY <2>1, <2>2
<1>17. \A a \in Ends : Up(a, c)' = TRUE
  <2>1. ASSUME NEW a \in Ends PROVE Up(a, c)' = TRUE
    <3>1. Other(a) \in Ends
      BY Others
    <3> QED BY <1>7b, <1>10, <3>1 DEF Up, Connected
  <2> QED BY <2>1
<1>18. \A a \in Ends : StartOf(rd'[a][c].state) = 1 /\ Len(passed'[a][c]) = 0
  BY <1>4, <1>6, <1>9 DEF StartOf
<1> DEFINE f == [k \in Nat |-> 0]
<1>19. f \in Counters
  BY DEF Counters
<1> HIDE DEF f
<1>20. InOrderTo(client, c)'
  <2>1. Coming(client, c)' = <<>>
    <3>1. wr'[o][c] = wr[o][c]
      BY <1>2, <1>5, Zenon DEF IsChange
    <3>2. ~Writing(o, c)
      BY <1>0, <1>2, <1>13, Zenon DEF Held
    <3> QED BY <1>17, <3>1, <3>2 DEF Coming, Writing, o
  <2>2. Stream(client, c)' = <<>>
    BY <1>4, <1>6, <1>7, <2>1, ConcatEmptySeq, EmptySeq DEF Stream
  <2> DEFINE seen == rd'[client][c].sawInit
             alien == link'[c].alien
  <2> HIDE DEF seen, alien
  <2>3. InOrder(<<>>, 1, seen, 0, <<>>, TRUE, alien, f)
    <3>1. TRUE => 1 = 1 /\ 0 = Len(<<>>)
      OBVIOUS
    <3> QED BY <3>1, Nothing
  <2>4. sent'[o][c] = <<>> /\ Len(passed'[o][c]) = 0
    BY <1>2, <1>8, <1>18
  <2> QED BY <1>17, <1>18, <1>19, <2>2, <2>3, <2>4 DEF InOrderTo, seen, alien, o
<1>21. InOrderTo(o, c)'
  <2>1. Coming(o, c)' = Whole(p)
    BY <1>2, <1>3, <1>5, <1>17 DEF Coming, IsChange
  <2>2. Stream(o, c)' = Whole(p)
    <3>1. Stream(o, c)' = <<>> \o (<<>> \o Whole(p))
      BY <1>2, <1>4, <1>6, <1>7, <2>1 DEF Stream
    <3> QED BY <1>2, <3>1, ConcatEmptySeq
  <2> DEFINE alien == link'[c].alien
             seen == FALSE
             e == <<>>
  <2>3. rd'[o][c].sawInit = FALSE
    BY <1>2, <1>4, <1>6
  <2>4. p.kind = "alien" => alien
    BY <1>2, <1>10
  <2>5. /\ e \in Seq(AllUnits) /\ e \in Seq(DataPackets) /\ Len(e) = 0 /\ With(e, p) = e
        /\ e \o Whole(p) = Whole(p)
    BY <1>2, EmptySeq, ConcatEmptySeq DEF With
  <2>6. IsExtended(Whole(p), e, p)
    <3>1. IsExtended(e \o Whole(p), e, p)
      BY <1>2, <2>5, WithWhole, Zenon
    <3> QED BY <2>5, <3>1
  <2> HIDE DEF alien
  <2>7. InOrder(e, 1, seen, 0, e, TRUE, alien, f)
    <3>1. TRUE => 1 = 1 /\ 0 = Len(e)
      OBVIOUS
    <3> QED BY <3>1, Nothing
  <2>8. First(p) => e = <<>> /\ ~seen
    OBVIOUS
  <2> HIDE DEF e, seen
  <2>10. PICK g \in Counters : InOrder(Whole(p), 1, seen, 0, With(e, p), TRUE, alien, g)
    <3> DEFINE t == Whole(p)
               one == 1
               zero == 0
    <3>1. t \in Seq(AllUnits) /\ IsExtended(t, e, p) /\ zero \in Nat
      BY <1>2, <2>6
    <3>2. e \in Seq(AllUnits) /\ e \in Seq(DataPackets)
      BY <2>5
    <3>3. InOrder(e, one, seen, zero, e, TRUE, alien, f)
      BY <2>7
    <3> HIDE DEF t, one, zero
    <3>4. \E g \in Counters : InOrder(t, one, seen, zero, With(e, p), TRUE, alien, g)
      BY <1>2, <1>19, <2>4, <2>8, <3>1, <3>2, <3>3, Extend
    <3> QED BY <3>4 DEF t, one, zero
  <2>11. sent'[client][c] = e /\ Len(passed'[client][c]) = 0
    BY <1>8, <1>18 DEF e
  <2> QED BY <1>2, <1>17, <1>18, <2>2, <2>3, <2>5, <2>10, <2>11 DEF InOrderTo, alien, seen
<1>22. Streams'
  <2> SUFFICES ASSUME NEW a \in Ends, NEW b \in Conns PROVE InOrderTo(a, b)'
    BY Zenon DEF Streams
  <2>1. CASE b = c
    <3>1. a = client \/ a = o
      BY Others, Zenon DEF o
    <3> QED BY <1>20, <1>21, <2>1, <3>1, Zenon
  <2>2. CASE b # c
    <3>1. InOrderTo(a, b)
      BY <1>0, Zenon DEF Streams
    <3>2. Other(a) \in Ends
      BY Others, Zenon
    <3>3. rd'[a][b] = rd[a][b] /\ net'[a][b] = net[a][b] /\ link'[b] = link[b]
      BY <1>6, <1>7, <1>10, <2>2
    <3>4. wr'[Other(a)][b] = wr[Other(a)][b]
      BY <1>14, <2>2, <3>2
    <3>6. course'[Other(a)][b] = course[Other(a)][b]
      BY <1>7b, <2>2, <3>2
    <3>5. sent'[Other(a)][b] = sent[Other(a)][b] /\ passed'[Other(a)][b] = passed[Other(a)][b]
      BY <1>8, <1>9, <2>2, <3>2
    <3> QED BY <3>1, <3>3, <3>4, <3>5, <3>6, Unseen
  <2> QED BY <2>1, <2>2
<1> QED BY <1>12, <1>15, <1>16, <1>22 DEF Wires

-----------------------------------------------------------------------------
(* The table of partners that were given up.                               *)

LEMMA Distinct ==
  ASSUME NEW S, NEW s \in Seq(S)
  PROVE  IsInjective(s) <=> \A i, j \in 1..Len(s) : s[i] = s[j] => i = j
<1>1. DOMAIN s = 1..Len(s)
  BY LenProperties, Zenon
<1> QED BY <1>1, Zenon DEF IsInjective

LEMMA RecentIs ==
  ASSUME NEW s, Recent(s)
  PROVE  /\ s \in Seq(Someone) /\ Len(s) \in Nat /\ Len(s) <= MaxTimedOut
         /\ \A i, j \in 1..Len(s) : s[i] = s[j] => i = j
         /\ \A i \in 1..Len(s) : s[i] \in Someone
         /\ s = <<>> => Len(s) = 0
BY Distinct, Lengths, Zenon DEF Recent

LEMMA LaterRecent ==
  ASSUME NEW s, Recent(s), NEW m \in Nat, m <= Len(s)
  PROVE  Recent(SubSeq(s, m + 1, Len(s)))
<1> DEFINE t == SubSeq(s, m + 1, Len(s))
<1>1. /\ s \in Seq(Someone) /\ Len(s) \in Nat /\ Len(s) <= MaxTimedOut
      /\ \A i, j \in 1..Len(s) : s[i] = s[j] => i = j
      /\ \A i \in 1..Len(s) : s[i] \in Someone
  BY RecentIs, Zenon
<1>2. /\ t \in Seq(Someone)
      /\ Len(t) = IF m + 1 <= Len(s) THEN Len(s) - (m + 1) + 1 ELSE 0
      /\ \A i \in 1..(Len(s) - (m + 1) + 1) : t[i] = s[(m + 1) + i - 1]
  <2>1. m + 1 \in Int /\ Len(s) \in Int /\ \A i \in (m + 1)..Len(s) : s[i] \in Someone
    BY <1>1
  <2> QED BY <2>1, SubSeqProperties
<1> HIDE DEF t
<1>3. Len(t) = Len(s) - m /\ \A i \in 1..Len(t) : i + m \in 1..Len(s) /\ t[i] = s[i + m]
  <2>1. Len(t) = Len(s) - m
    BY <1>1, <1>2
  <2>2. ASSUME NEW i \in 1..Len(t) PROVE i + m \in 1..Len(s) /\ t[i] = s[i + m]
    <3>1. /\ i + m \in 1..Len(s) /\ i \in 1..(Len(s) - (m + 1) + 1)
          /\ (m + 1) + i - 1 = i + m
      BY <1>1, <2>1
    <3> QED BY <1>2, <3>1
  <2> QED BY <2>1, <2>2
<1>4. Len(t) <= MaxTimedOut
  BY <1>1, <1>3, Constants
<1>5. ASSUME NEW i \in 1..Len(t), NEW j \in 1..Len(t), t[i] = t[j] PROVE i = j
  <2>1. i + m = j + m
    BY <1>1, <1>3, <1>5
  <2> QED BY <1>1, <1>3, <2>1
<1>6. IsInjective(t)
  BY <1>2, <1>5, Distinct, Zenon
<1>7. Recent(t)
  BY <1>2, <1>4, <1>6 DEF Recent
<1> QED BY <1>7 DEF t

LEMMA InsertRecent ==
  ASSUME NEW s, Recent(s), NEW p \in Someone, ~Contains(s, p)
  PROVE  Recent(Insert(p, s))
<1> DEFINE t == IF Len(s) = MaxTimedOut THEN Tail(s) ELSE s
           u == Append(t, p)
<1>1. /\ s \in Seq(Someone) /\ Len(s) \in Nat /\ Len(s) <= MaxTimedOut
      /\ \A i, j \in 1..Len(s) : s[i] = s[j] => i = j
      /\ s = <<>> => Len(s) = 0
      /\ \A i \in 1..Len(s) : s[i] # p
  BY RecentIs, Zenon DEF Contains
<1>2. /\ t \in Seq(Someone) /\ Len(t) \in Nat /\ Len(t) < MaxTimedOut
      /\ \A i, j \in 1..Len(t) : t[i] = t[j] => i = j
      /\ \A i \in 1..Len(t) : t[i] # p
  <2>1. CASE Len(s) = MaxTimedOut
    <3>1. s # <<>>
      BY <1>1, <2>1, Constants
    <3>2. /\ Tail(s) \in Seq(Someone) /\ Len(Tail(s)) = Len(s) - 1
          /\ \A i \in 1..Len(Tail(s)) : Tail(s)[i] = s[i + 1]
      BY <1>1, <3>1, HeadTailProperties, Zenon
    <3>3. t = Tail(s)
      BY <2>1
    <3> HIDE DEF t
    <3>4. /\ t \in Seq(Someone) /\ Len(t) \in Nat /\ Len(t) < MaxTimedOut
          /\ \A i \in 1..Len(t) : i + 1 \in 1..Len(s) /\ t[i] = s[i + 1]
      BY <1>1, <2>1, <3>2, <3>3, Constants
    <3>5. ASSUME NEW i \in 1..Len(t), NEW j \in 1..Len(t), t[i] = t[j] PROVE i = j
      <4>1. i + 1 = j + 1
        BY <1>1, <3>4, <3>5
      <4> QED BY <3>4, <4>1
    <3> QED BY <1>1, <3>4, <3>5
  <2>2. CASE Len(s) # MaxTimedOut
    BY <1>1, <2>2, Constants
  <2> QED BY <2>1, <2>2
<1> HIDE DEF t
<1>3. /\ u \in Seq(Someone) /\ Len(u) = Len(t) + 1
      /\ \A i \in 1..Len(t) : u[i] = t[i]
      /\ u[Len(t) + 1] = p
  <2>1. t \in Seq(Someone)
    BY <1>2, Zenon
  <2> QED BY ONLY <2>1, p \in Someone, AppendProperties
<1> HIDE DEF u
<1>4. Len(u) <= MaxTimedOut
  BY <1>2, <1>3, Constants
<1>5. ASSUME NEW i \in 1..Len(u), NEW j \in 1..Len(u), u[i] = u[j] PROVE i = j
  <2>1. \A k \in 1..Len(u) : k \in 1..Len(t) \/ k = Len(t) + 1
    BY <1>2, <1>3
  <2> QED BY <1>2, <1>3, <1>5, <2>1
<1>6. IsInjective(u)
  BY <1>3, <1>5, Distinct, Zenon
<1>7. Recent(u)
  BY <1>3, <1>4, <1>6 DEF Recent
<1> QED BY <1>7 DEF u, t, Insert

LEMMA RemoveRecent ==
  ASSUME NEW s, Recent(s), NEW k \in 1..Len(s)
  PROVE  Recent(RemoveAt(s, k))
<1> DEFINE x == SubSeq(s, 1, k - 1)
           y == SubSeq(s, k + 1, Len(s))
           u == x \o y
<1>1. /\ s \in Seq(Someone) /\ Len(s) \in Nat /\ Len(s) <= MaxTimedOut
      /\ \A i, j \in 1..Len(s) : s[i] = s[j] => i = j
      /\ \A i \in 1..Len(s) : s[i] \in Someone
  BY RecentIs, Zenon
<1>2. x \in Seq(Someone) /\ Len(x) = k - 1 /\ \A i \in 1..Len(x) : x[i] = s[i]
  <2>1. 1 \in Int /\ k - 1 \in Int /\ \A i \in 1..(k - 1) : s[i] \in Someone
    BY <1>1
  <2>2. /\ x \in Seq(Someone) /\ Len(x) = IF 1 <= k - 1 THEN (k - 1) - 1 + 1 ELSE 0
        /\ \A i \in 1..((k - 1) - 1 + 1) : x[i] = s[1 + i - 1]
    BY <2>1, SubSeqProperties
  <2> HIDE DEF x
  <2> QED BY <1>1, <2>2
<1>3. y \in Seq(Someone) /\ Len(y) = Len(s) - k /\ \A i \in 1..Len(y) : y[i] = s[i + k]
  <2>1. k + 1 \in Int /\ Len(s) \in Int /\ \A i \in (k + 1)..Len(s) : s[i] \in Someone
    BY <1>1
  <2>2. /\ y \in Seq(Someone)
        /\ Len(y) = IF k + 1 <= Len(s) THEN Len(s) - (k + 1) + 1 ELSE 0
        /\ \A i \in 1..(Len(s) - (k + 1) + 1) : y[i] = s[(k + 1) + i - 1]
    BY <2>1, SubSeqProperties
  <2> HIDE DEF y
  <2> QED BY <1>1, <2>2
<1> HIDE DEF x, y
<1>4. /\ u \in Seq(Someone) /\ Len(u) = Len(x) + Len(y)
      /\ \A i \in 1..(Len(x) + Len(y)) : u[i] = IF i <= Len(x) THEN x[i] ELSE y[i - Len(x)]
  BY <1>2, <1>3, ConcatProperties
<1> HIDE DEF u
<1> DEFINE h(i) == IF i < k THEN i ELSE i + 1
<1>5. Len(u) = Len(s) - 1
  BY <1>1, <1>2, <1>3, <1>4
<1>6. ASSUME NEW i \in 1..Len(u) PROVE h(i) \in 1..Len(s) /\ u[i] = s[h(i)]
  <2>1. h(i) \in 1..Len(s) /\ i \in 1..(Len(x) + Len(y))
    BY <1>1, <1>4, <1>5
  <2>2. CASE i < k
    <3>1. i \in 1..Len(x)
      BY <1>1, <1>2, <1>5, <2>2
    <3> QED BY <1>2, <1>4, <2>1, <2>2, <3>1
  <2>3. CASE ~(i < k)
    <3>1. ~(i <= Len(x)) /\ i - Len(x) \in 1..Len(y) /\ i - Len(x) + k = i + 1
      BY <1>1, <1>2, <1>3, <1>5, <2>3
    <3>2. u[i] = y[i - Len(x)]
      BY <1>4, <2>1, <3>1
    <3>3. y[i - Len(x)] = s[i - Len(x) + k]
      BY <1>3, <3>1, Zenon
    <3> QED BY <2>1, <2>3, <3>1, <3>2, <3>3
  <2> QED BY <2>2, <2>3
<1>7. ASSUME NEW i \in 1..Len(u), NEW j \in 1..Len(u), u[i] = u[j] PROVE i = j
  <2>1. h(i) = h(j)
    <3> HIDE DEF h
    <3> QED BY <1>1, <1>6, <1>7
  <2> QED BY <1>1, <1>5, <2>1
<1>8. IsInjective(u)
  BY <1>4, <1>7, Distinct, Zenon
<1>9. Len(u) <= MaxTimedOut
  BY <1>1, <1>5, Constants
<1>10. Recent(u)
  BY <1>4, <1>8, <1>9 DEF Recent
<1> QED BY <1>10 DEF u, x, y, RemoveAt

LEMMA KeptRecent ==
  ASSUME Recent(timedOut), NEW k \in 0..Len(timedOut)
  PROVE  Recent(Kept(k))
<1>1. Len(timedOut) \in Nat
  BY RecentIs, Zenon
<1>2. k \in Nat /\ k <= Len(timedOut)
  BY <1>1
<1> QED BY <1>2, LaterRecent, Zenon DEF Kept

LEMMA RememberKeepsRecent ==
  ASSUME Recent(timedOut), NEW p \in Someone, Remember(p)
  PROVE  Recent(timedOut')
<1>1. PICK k \in 0..Len(timedOut) :
        timedOut' = IF Contains(Kept(k), p) THEN Kept(k) ELSE Insert(p, Kept(k))
  BY Zenon DEF Remember
<1>2. Recent(Kept(k))
  BY KeptRecent, Zenon
<1>3. CASE Contains(Kept(k), p)
  BY <1>1, <1>2, <1>3, Zenon
<1>4. CASE ~Contains(Kept(k), p)
  BY <1>1, <1>2, <1>4, InsertRecent, Zenon
<1> QED BY <1>3, <1>4

LEMMA ForgetKeepsRecent ==
  ASSUME Recent(timedOut), NEW p \in Someone, Forget(p)
  PROVE  Recent(timedOut')
<1>1. PICK k \in 0..Len(timedOut) : timedOut' \in Without(Kept(k), p)
  BY Zenon DEF Forget
<1> DEFINE s == Kept(k)
<1>2. Recent(s)
  BY KeptRecent, Zenon
<1> HIDE DEF s
<1>3. timedOut' \in Without(s, p)
  BY <1>1 DEF s
<1>4. CASE Contains(s, p)
  <2>1. DOMAIN s = 1..Len(s)
    BY <1>2, LenProperties, Zenon DEF Recent
  <2>2. Without(s, p) = {RemoveAt(s, i) : i \in {j \in DOMAIN s : s[j] = p}}
    BY <1>4, Zenon DEF Without
  <2>3. PICK i \in {j \in DOMAIN s : s[j] = p} : timedOut' = RemoveAt(s, i)
    BY <1>3, <2>2, Zenon
  <2>4. i \in 1..Len(s)
    BY <2>1, <2>3, Zenon
  <2> QED BY <1>2, <2>3, <2>4, RemoveRecent, Zenon
<1>5. CASE ~Contains(s, p)
  <2>1. Without(s, p) = {s}
    BY <1>5, Zenon DEF Without
  <2> QED BY <1>2, <1>3, <2>1
<1> QED BY <1>4, <1>5

-----------------------------------------------------------------------------
(* The invariant.                                                          *)

LEMMA QuietKeepsWires ==
  ASSUME Wires, UNCHANGED <<conn, link, course, net, late, rd, wr, sent, passed>>
  PROVE  Wires'
<1>1. UNCHANGED conn /\ UNCHANGED link /\ UNCHANGED net /\ UNCHANGED rd /\ UNCHANGED course /\ UNCHANGED late
      /\ UNCHANGED wr /\ UNCHANGED sent /\ UNCHANGED passed
  OBVIOUS
<1>2. Types' /\ Held' /\ Reading'
  <2>1. Types'
    BY <1>1, Zenon DEF Wires, Types
  <2>2. Held'
    BY <1>1, Zenon DEF Wires, Held, Has, Writing
  <2>3. Reading'
    BY <1>1, Zenon DEF Wires, Reading
  <2> QED BY <2>1, <2>2, <2>3
<1>3. Streams'
  <2> SUFFICES ASSUME NEW a \in Ends, NEW b \in Conns PROVE InOrderTo(a, b)'
    BY Zenon DEF Streams
  <2>1. InOrderTo(a, b)
    BY Zenon DEF Wires, Streams
  <2> QED BY <1>1, <2>1, Unseen, Zenon
<1> QED BY <1>2, <1>3 DEF Wires

LEMMA QueuedIs ==
  ASSUME Inv, queue # <<>>, conn[Head(queue).number] # 0
  PROVE  /\ conn[Head(queue).number] \in Conns /\ Has("here", conn[Head(queue).number])
         /\ Head(queue).packet \in DataPackets
<1>1. Head(queue) \in Queued
  BY HeadTailProperties, Zenon DEF Inv, Lists
<1>2. Head(queue).number \in Numbers /\ Head(queue).packet \in DataPackets
  BY <1>1 DEF Queued
<1>3. conn[Head(queue).number] \in Conns
  BY <1>2 DEF Inv, Wires, Types
<1>4. Has("here", conn[Head(queue).number])
  BY <1>2, <1>3, Zenon DEF Inv, Wires, Held
<1> QED BY <1>2, <1>3, <1>4

LEMMA NextPacketIs ==
  ASSUME Inv, made < MaxPackets
  PROVE  NextPacket \in DataPackets /\ made + 1 \in 0..MaxPackets
<1>1. made \in 0..MaxPackets /\ MaxPackets \in Nat
  BY Constants DEF Inv, Lists
<1>2. made + 1 \in 1..MaxPackets /\ made + 1 \in 0..MaxPackets
  BY <1>1
<1> QED BY <1>2, Zenon DEF NextPacket, DataPackets

(* Steps of one end at one connection.                                     *)
LEMMA EndKeepsWires ==
  ASSUME Inv, NEW e \in Ends, NEW c \in Conns,
         \/ WriteNowait(e, c) \/ TestWrite(e, c) \/ TestWriteFails(e, c) \/ Close(e, c)
         \/ WriteOn(e, c) \/ ReadOn(e, c)
  PROVE  Wires'
<1>0. Wires
  BY DEF Inv
<1>1. CASE WriteNowait(e, c)
  <2>1. NextPacket \in DataPackets
    BY <1>1, NextPacketIs DEF WriteNowait
  <2>2. /\ Has(e, c) /\ Begin(e, c, NextPacket, TRUE)
        /\ UNCHANGED <<conn, link, course, net, late, rd, passed>>
    BY <1>1 DEF WriteNowait, way
  <2> QED BY <1>0, <2>1, <2>2, BeginKeepsWires
<1>2. CASE TestWrite(e, c)
  BY <1>0, <1>2, TestWriteKeepsWires
<1>3. CASE TestWriteFails(e, c)
  BY <1>0, <1>3, ReleaseKeepsWires DEF TestWriteFails, Quit
<1>4. CASE Close(e, c)
  BY <1>0, <1>4, ReleaseKeepsWires DEF Close, Quit
<1>5. CASE WritePiece(e, c)
  BY <1>0, <1>5, PieceKeepsWires
<1>6. CASE WriteFails(e, c)
  BY <1>0, <1>6, WriteFailsKeepsWires
<1>7. CASE WriteTimesOut(e, c)
  <2>1. CASE wr[e][c].todo[1][1] \in {OpenPacket, AlienPacket}
    BY <1>0, <1>7, <2>1, ReleaseKeepsWires DEF WriteTimesOut, Quit
  <2>2. CASE wr[e][c].todo[1][1] \notin {OpenPacket, AlienPacket}
    <3> DEFINE k == IF course[e][c] = "sound" THEN "cut" ELSE course[e][c]
    <3>1. /\ wr' = Changed(wr, e, c, NoWrite) /\ course' = Changed(course, e, c, k)
          /\ UNCHANGED <<conn, link, net, late, rd, sent, passed>>
      BY <1>7, <2>2 DEF WriteTimesOut, Changed
    <3> QED BY <1>0, <3>1, CutKeepsWires
  <2> QED BY <2>1, <2>2
<1>8. CASE ReadPart(e, c)
  BY <1>0, <1>8, PartKeepsWires
<1>9. CASE ReadHeader(e, c)
  BY <1>0, <1>9, HeaderKeepsWires
<1>10. CASE ReadAlien(e, c)
  <2>1. UNCHANGED <<sent, passed>> /\ (Release(e, c) \/ Linger(e, c))
    BY <1>10 DEF ReadAlien, Quit
  <2> QED BY <1>0, <2>1, ReleaseKeepsWires, LingerKeepsWires
<1>11. CASE ReadInit(e, c)
  BY <1>0, <1>11, InitKeepsWires
<1>12. CASE ReadData(e, c)
  BY <1>0, <1>12, DataKeepsWires
<1>13. CASE ReadEnd(e, c)
  BY <1>0, <1>13, ReleaseKeepsWires DEF ReadEnd, Quit
<1>14. CASE ReadBehind(e, c)
  BY <1>0, <1>14, BehindKeepsWires
<1> QED BY <1>1, <1>2, <1>3, <1>4, <1>5, <1>6, <1>7, <1>8, <1>9, <1>10, <1>11, <1>12, <1>13,
           <1>14
        DEF WriteOn, ReadOn

LEMMA StepKeepsWires ==
  ASSUME Inv, [Next]_vars
  PROVE  Wires'
<1>0. Wires
  BY DEF Inv
<1>1. ASSUME NEW n \in Numbers, NEW p \in Partners, NEW c \in Conns,
             OpenClient(n, p, c) \/ Accept(n, p, c)
      PROVE  Wires'
  <2>1. CASE OpenClient(n, p, c)
    <3>1. "here" \in Ends /\ OpenPacket \in {OpenPacket, AlienPacket}
      BY DEF Ends
    <3>2. Make(n, c, p, "here", OpenPacket)
      BY <2>1 DEF OpenClient
    <3> QED BY <1>0, <3>1, <3>2, MakeKeepsWires
  <2>2. CASE Accept(n, p, c)
    <3>1. "there" \in Ends
      BY DEF Ends
    <3>2. PICK q \in {OpenPacket, AlienPacket} : Make(n, c, p, "there", q)
      BY <2>2 DEF Accept
    <3> QED BY <1>0, <3>1, <3>2, MakeKeepsWires
  <2> QED BY <1>1, <2>1, <2>2
<1>2. ASSUME NEW p \in Partners, OpenClientFails(p) PROVE Wires'
  BY <1>0, <1>2, QuietKeepsWires DEF OpenClientFails, way
<1>3. ASSUME NEW n \in Numbers, Write(n) PROVE Wires'
  BY <1>0, <1>3, QuietKeepsWires DEF Write, way
<1>4. CASE DropQueued
  BY <1>0, <1>4, QuietKeepsWires DEF DropQueued, way
<1>5. CASE SendQueued
  <2> DEFINE c == conn[Head(queue).number]
             p == Head(queue).packet
  <2>1. c \in Conns /\ Has("here", c) /\ p \in DataPackets /\ "here" \in Ends
    BY <1>5, QueuedIs DEF SendQueued, Ends
  <2>2. Begin("here", c, p, FALSE) /\ UNCHANGED <<conn, link, course, net, late, rd, passed>>
    BY <1>5 DEF SendQueued, way
  <2> HIDE DEF c, p
  <2> QED BY <1>0, <2>1, <2>2, BeginKeepsWires
<1>6. ASSUME NEW c \in Conns, Break(c) PROVE Wires'
  BY <1>0, <1>6, BreakKeepsWires
<1>7. CASE UNCHANGED vars
  BY <1>0, <1>7, QuietKeepsWires DEF vars, way
<1> QED BY <1>1, <1>2, <1>3, <1>4, <1>5, <1>6, <1>7, EndKeepsWires DEF Next

LEMMA ListsOf ==
  ASSUME Lists, queue' \in Seq(Queued), failed' \subseteq Partners, made' \in 0..MaxPackets,
         Recent(timedOut')
  PROVE  Lists'
BY DEF Lists

LEMMA StepKeepsLists ==
  ASSUME Inv, [Next]_vars
  PROVE  Lists'
<1>0. /\ Lists /\ queue \in Seq(Queued) /\ failed \subseteq Partners /\ made \in 0..MaxPackets
      /\ Recent(timedOut) /\ \A c \in Conns : link[c].with \in Someone
  <2>1. \A c \in Conns : link[c].with \in Someone
    BY DEF Inv, Wires, Types, Links
  <2> QED BY <2>1 DEF Inv, Lists
<1>1. ASSUME NEW n \in Numbers, NEW p \in Partners, NEW c \in Conns,
             OpenClient(n, p, c) \/ Accept(n, p, c)
      PROVE  Lists'
  BY <1>0, <1>1, ListsOf DEF OpenClient, Accept
<1>2. ASSUME NEW p \in Partners, OpenClientFails(p) PROVE Lists'
  BY <1>0, <1>2, ListsOf DEF OpenClientFails
<1>3. ASSUME NEW n \in Numbers, Write(n) PROVE Lists'
  <2>1. NextPacket \in DataPackets /\ made' \in 0..MaxPackets
    BY <1>3, NextPacketIs DEF Write
  <2>2. [number |-> n, packet |-> NextPacket] \in Queued
    BY <2>1 DEF Queued
  <2>3. queue' \in Seq(Queued)
    BY <1>0, <1>3, <2>2, AppendProperties DEF Write
  <2> QED BY <1>0, <1>3, <2>1, <2>3, ListsOf DEF Write
<1>4. ASSUME DropQueued \/ SendQueued PROVE Lists'
  <2>1. queue # <<>> /\ queue' = Tail(queue) /\ UNCHANGED <<failed, timedOut, made>>
    BY <1>4 DEF DropQueued, SendQueued
  <2>2. queue' \in Seq(Queued)
    BY <1>0, <2>1, HeadTailProperties
  <2> QED BY <1>0, <2>1, <2>2, ListsOf
<1>5. ASSUME NEW e \in Ends, NEW c \in Conns,
             WriteNowait(e, c) \/ TestWrite(e, c)
      PROVE  Lists'
  <2>1. made' \in 0..MaxPackets /\ UNCHANGED <<queue, failed, timedOut>>
    BY <1>5, NextPacketIs DEF WriteNowait, TestWrite
  <2> QED BY <1>0, <2>1, ListsOf
<1>6. ASSUME NEW e \in Ends, NEW c \in Conns,
             \/ WritePiece(e, c) \/ WriteFails(e, c) \/ ReadPart(e, c) \/ ReadHeader(e, c)
             \/ ReadData(e, c) \/ ReadBehind(e, c)
      PROVE  Lists'
  <2>1. UNCHANGED <<queue, failed, timedOut, made>>
    BY <1>6 DEF WritePiece, WriteFails, ReadPart, ReadHeader, ReadData, ReadBehind
  <2> QED BY <1>0, <2>1, ListsOf
<1>7. ASSUME NEW e \in Ends, NEW c \in Conns,
             \/ WriteTimesOut(e, c) \/ ReadInit(e, c) \/ TestWriteFails(e, c)
             \/ Close(e, c) \/ ReadAlien(e, c) \/ ReadEnd(e, c)
      PROVE  Lists'
  <2>1. UNCHANGED <<queue, failed, made>>
    BY <1>7 DEF WriteTimesOut, ReadInit, TestWriteFails, Close, ReadAlien, ReadEnd, Quit, Linger
  <2>2. Remember(link[c].with) \/ Forget(link[c].with) \/ UNCHANGED timedOut
    BY <1>7 DEF WriteTimesOut, ReadInit, TestWriteFails, Close, ReadAlien, ReadEnd, Quit, Linger
  <2>3. Recent(timedOut')
    BY <1>0, <2>2, RememberKeepsRecent, ForgetKeepsRecent
  <2> QED BY <1>0, <2>1, <2>3, ListsOf
<1>8. ASSUME NEW c \in Conns, Break(c) PROVE Lists'
  BY <1>0, <1>8, ListsOf DEF Break
<1>9. CASE UNCHANGED vars
  BY <1>0, <1>9, ListsOf DEF vars
<1> QED BY <1>1, <1>2, <1>3, <1>4, <1>5, <1>6, <1>7, <1>8, <1>9 DEF Next, WriteOn, ReadOn

LEMMA InitInv == Init => Inv
<1> SUFFICES ASSUME Init PROVE Inv
  OBVIOUS
<1>1. /\ \A n \in Numbers : conn[n] = 0
      /\ conn \in [Numbers -> Conns \cup {0}]
  BY DEF Init
<1>2. link \in [Conns -> Links] /\ \A c \in Conns : link[c] = NoLink
  <2>1. NoLink \in Links
    BY DEF NoLink, Links, Someone
  <2> QED BY <2>1 DEF Init
<1> DEFINE x == StartHeader(FALSE)
<1>3. /\ x \in Reads /\ x.buffer = <<>> /\ x.state = "hdr" /\ x.full = HeaderSize
      /\ NoWrite \in Writes /\ NoWrite.todo = <<>>
      /\ <<>> \in Seq(AllUnits) /\ <<>> \in Seq(DataPackets)
  BY Constants, EmptySeq DEF Reads, Writes, NoWrite, StartHeader
<1> HIDE DEF x
<1>4. ASSUME NEW S, NEW y \in S
      PROVE  PerEnd(y) \in Table(S) /\ \A e \in Ends, c \in Conns : PerEnd(y)[e][c] = y
  BY <1>4 DEF PerEnd, Table
<1> DEFINE none == <<>>
<1>5. net \in Table(Seq(AllUnits)) /\ \A e \in Ends, c \in Conns : net[e][c] = none
  <2>1. net = PerEnd(none) /\ none \in Seq(AllUnits)
    BY <1>3 DEF Init
  <2> HIDE DEF none
  <2> QED BY <1>4, <2>1, Zenon
<1>5a. late \in Table(Seq(AllUnits))
  <2>1. late = PerEnd(none) /\ none \in Seq(AllUnits)
    BY <1>3 DEF Init
  <2> HIDE DEF none
  <2> QED BY <1>4, <2>1, Zenon
<1>5b. course \in Table(Courses)
  <2>1. course = PerEnd("sound") /\ "sound" \in Courses
    BY DEF Init, Courses
  <2> QED BY <1>4, <2>1, Zenon
<1>6. rd \in Table(Reads) /\ \A e \in Ends, c \in Conns : rd[e][c] = x
  <2>1. rd = PerEnd(x)
    BY DEF Init, x
  <2> QED BY <1>3, <1>4, <2>1, Zenon
<1>7. wr \in Table(Writes) /\ \A e \in Ends, c \in Conns : wr[e][c] = NoWrite
  <2>1. wr = PerEnd(NoWrite)
    BY DEF Init
  <2> QED BY <1>3, <1>4, <2>1, Zenon
<1>8. /\ sent \in Table(Seq(DataPackets)) /\ passed \in Table(Seq(Contents))
      /\ \A e \in Ends, c \in Conns : sent[e][c] = none /\ passed[e][c] = none
  <2>1. sent = PerEnd(none) /\ passed = PerEnd(none) 
    BY <1>3 DEF Init
  <2>2. none \in Seq(DataPackets) /\ none \in Seq(Contents)
    BY EmptySeq
  <2> HIDE DEF none
  <2> QED BY <1>4, <2>1, <2>2, Zenon
<1>9. Types
  BY <1>1, <1>2, <1>5, <1>5a, <1>5b, <1>6, <1>7, <1>8 DEF Types
<1>10. Held
  <2>1. ASSUME NEW c \in Conns PROVE Has("here", c) <=> \E n \in Numbers : conn[n] = c
    <3>1. c # 0 /\ ~Has("here", c)
      BY <1>2, Constants DEF Has, NoLink
    <3> QED BY <1>1, <3>1
  <2>2. ASSUME NEW e \in Ends, NEW c \in Conns
        PROVE  ~Writing(e, c) /\ rd[e][c].state # "data"
    BY <1>3, <1>6, <1>7 DEF Writing
  <2> QED BY <2>1, <2>2, Zenon DEF Held
<1>11. Reading
  <2>1. Len(x.buffer) < x.full
    BY <1>3, Constants
  <2> QED BY <1>3, <1>6, <2>1 DEF Reading
<1>12. Streams
  <2> SUFFICES ASSUME NEW e \in Ends, NEW c \in Conns PROVE InOrderTo(e, c)
    BY Zenon DEF Streams
  <2>1. Up(e, c) = FALSE
    BY <1>2 DEF Up, Connected, NoLink
  <2>2. Stream(e, c) = <<>>
    <3>1. Coming(e, c) = <<>>
      BY <2>1 DEF Coming
    <3> QED BY <1>3, <1>5, <1>6, <3>1, ConcatEmptySeq DEF Stream
  <2> DEFINE f == [k \in Nat |-> 0]
  <2>3. f \in Counters
    BY DEF Counters
  <2> HIDE DEF f
  <2> DEFINE start == StartOf(rd[e][c].state)
             seen == rd[e][c].sawInit
             n == Len(passed[Other(e)][c])
             w == sent[Other(e)][c]
             alien == link[c].alien
  <2> HIDE DEF start, seen, n, w, alien
  <2>4. InOrder(<<>>, start, seen, n, w, FALSE, alien, f)
    BY Nothing, Zenon
  <2> QED BY <2>1, <2>2, <2>3, <2>4 DEF InOrderTo, start, seen, n, w, alien
<1>13. Lists
  <2>1. queue = <<>> /\ failed = {} /\ made = 0 /\ timedOut = <<>>
    BY DEF Init
  <2>2. Recent(timedOut)
    <3>1. timedOut \in Seq(Someone) /\ Len(timedOut) = 0
      BY <2>1
    <3>2. Len(timedOut) <= MaxTimedOut /\ \A i, j \in 1..Len(timedOut) : i = j
      BY <3>1, Constants
    <3> QED BY <3>1, <3>2, Distinct, Zenon DEF Recent
  <2> QED BY <2>1, <2>2, Constants DEF Lists
<1> QED BY <1>9, <1>10, <1>11, <1>12, <1>13 DEF Inv, Wires

(* The invariant, of every state the transport reaches.                    *)
THEOREM TransportInvariance == Spec => []Inv
<1>1. Inv /\ [Next]_vars => Inv'
  BY StepKeepsWires, StepKeepsLists DEF Inv
<1> QED BY <1>1, InitInv, PTL DEF Spec

-----------------------------------------------------------------------------
(* What follows from it.                                                   *)

(* Types are kept; a number stands for a connection exactly as long as     *)
(* this end holds it, and nobody writes to a connection, or is in the      *)
(* middle of a packet from it, that he has released.                       *)
THEOREM TransportTypeCorrect == Spec => []TypeOK
<1>1. Inv => TypeOK
  <2> SUFFICES ASSUME Inv PROVE TypeOK
    OBVIOUS
  <2>1. conn \in [Numbers -> Conns \cup {0}]
    BY DEF Inv, Wires, Types
  <2>2. /\ \A c \in Conns : Has("here", c) <=> \E n \in Numbers : conn[n] = c
        /\ \A e \in Ends, c \in Conns :
             /\ Writing(e, c) => Has(e, c)
             /\ Len(rd[e][c].buffer) < rd[e][c].full
             /\ rd[e][c].state = "data" => Has(e, c)
    BY Zenon DEF Inv, Wires, Held, Reading
  <2>3. Len(timedOut) <= MaxTimedOut /\ failed \subseteq Partners
    BY DEF Inv, Lists, Recent
  <2> QED BY <2>1, <2>2, <2>3, Zenon DEF TypeOK
<1> QED BY <1>1, TransportInvariance, PTL

(* A partner whose connection was given up is remembered once, whatever    *)
(* was forgotten meanwhile, so that its return is reported once.           *)
THEOREM TimedOutOnce == Spec => []RememberedOnce
<1>1. Inv => RememberedOnce
  BY DEF Inv, Lists, Recent, RememberedOnce
<1> QED BY <1>1, TransportInvariance, PTL

(* is_header refuses nothing that DIM has written: through all splitting   *)
(* of writes and reads, only alien connections are taken for alien ones,   *)
(* and those read behind the place where a write timed out.                *)
THEOREM NoFalseAlien == Spec => InStep
<1>1. ASSUME Inv, NEW e \in Ends, NEW c \in Conns, ReadAlien(e, c)
      PROVE  link[c].alien \/ course[Other(e)][c] = "astray"
  <2> SUFFICES ASSUME ~Astray(e, c) PROVE link[c].alien
    BY DEF Astray
  <2>1. /\ rd[e][c].state = "hdr" /\ Came(e, c, Missing(e, c))
        /\ ~IsHeader(Buffer(e, c, Missing(e, c)))
    BY <1>1 DEF ReadAlien, Came
  <2> DEFINE b == Buffer(e, c, Missing(e, c))
  <2>2. PICK p \in Packets :
          b = Header(p) /\ b[1][1] = p /\ (p.kind = "alien" => link[c].alien)
    <3>1. Wires
      BY <1>1 DEF Inv
    <3> QED BY <2>1, <3>1, HeaderCame, Zenon
  <2> HIDE DEF b
  <2>3. ~(p.kind # "alien" /\ b = Header(p))
    BY <2>1, <2>2 DEF IsHeader, b
  <2> QED BY <2>2, <2>3, Zenon
<1>2. Inv /\ [Next]_vars
        => [\A e \in Ends, c \in Conns :
              ReadAlien(e, c) => link[c].alien \/ course[Other(e)][c] = "astray"]_vars
  BY <1>1
<1> QED BY <1>2, TransportInvariance, PTL DEF Spec, InStep

-----------------------------------------------------------------------------
(* The packet channel, and what it sees of the steps.                      *)

Line(e, c) == <<e, c>>
LinesOf(f) == [l \in Directions |-> f[l[1]][l[2]]]

LEMMA LineIs ==
  /\ \A l \in Directions : l = Line(l[1], l[2]) /\ l[1] \in Ends /\ l[2] \in Conns
  /\ \A e \in Ends, c \in Conns : Line(e, c) \in Directions
BY DEF Directions, Line

LEMMA LineAt ==
  ASSUME NEW f, NEW e \in Ends, NEW c \in Conns
  PROVE  LinesOf(f)[Line(e, c)] = f[e][c]
BY DEF Directions, Line, LinesOf

(* A table that changes in one place is one that changes in one line.      *)
LEMMA LineChange ==
  ASSUME NEW S, NEW f \in Table(S), NEW e \in Ends, NEW c \in Conns, NEW x \in S
  PROVE  LinesOf(Changed(f, e, c, x)) = [LinesOf(f) EXCEPT ![Line(e, c)] = x]
<1> DEFINE g == Changed(f, e, c, x)
<1>1. IsChange(g, f, e, c, x)
  BY TableChange, Zenon
<1> HIDE DEF g
<1>2. \A a \in Ends, b \in Conns :
        g[a][b] = IF Line(a, b) = Line(e, c) THEN x ELSE f[a][b]
  BY <1>1 DEF IsChange, Line
<1>3. \A l \in Directions :
        LinesOf(g)[l] = IF l = Line(e, c) THEN x ELSE LinesOf(f)[l]
  <2> SUFFICES ASSUME NEW l \in Directions
               PROVE  LinesOf(g)[l] = IF l = Line(e, c) THEN x ELSE LinesOf(f)[l]
    OBVIOUS
  <2>1. PICK a \in Ends, b \in Conns : l = Line(a, b)
    BY LineIs, Zenon
  <2>2. LinesOf(g)[l] = g[a][b] /\ LinesOf(f)[l] = f[a][b]
    BY <2>1, LineAt, Zenon
  <2> QED BY <1>2, <2>1, <2>2
<1>4. LinesOf(g) = [LinesOf(f) EXCEPT ![Line(e, c)] = x]
  BY <1>3 DEF LinesOf
<1> QED BY <1>4 DEF g

LEMMA LineCleared ==
  ASSUME NEW S, NEW f \in Table(S), NEW c \in Conns, NEW x \in S
  PROVE  LinesOf(Cleared(f, c, x))
           = [l \in Directions |-> IF l \in {Line("here", c), Line("there", c)}
                                     THEN x ELSE LinesOf(f)[l]]
<1> DEFINE g == Cleared(f, c, x)
           L == {Line("here", c), Line("there", c)}
<1>1. IsCleared(g, f, c, x)
  BY ClearedIs, Zenon
<1> HIDE DEF g
<1>2. \A l \in Directions : LinesOf(g)[l] = IF l \in L THEN x ELSE LinesOf(f)[l]
  <2> SUFFICES ASSUME NEW l \in Directions
               PROVE  LinesOf(g)[l] = IF l \in L THEN x ELSE LinesOf(f)[l]
    OBVIOUS
  <2>1. PICK a \in Ends, b \in Conns : l = Line(a, b)
    BY LineIs, Zenon
  <2>2. LinesOf(g)[l] = g[a][b] /\ LinesOf(f)[l] = f[a][b]
    BY <2>1, LineAt, Zenon
  <2>3. l \in L <=> b = c
    BY <2>1 DEF Line, Ends
  <2>4. g[a][b] = IF b = c THEN x ELSE f[a][b]
    BY <1>1 DEF IsCleared
  <2> QED BY <2>2, <2>3, <2>4, Zenon
<1>3. LinesOf(g) = [l \in Directions |-> IF l \in L THEN x ELSE LinesOf(f)[l]]
  BY <1>2 DEF LinesOf
<1> QED BY <1>3 DEF g

LEMMA InitIsChannelInit == Init => Channel!Init
<1> SUFFICES ASSUME Init PROVE Channel!Init
  OBVIOUS
<1>1. sent = PerEnd(<<>>) /\ passed = PerEnd(<<>>) /\ course = PerEnd("sound")
  BY DEF Init
<1>2. \A l \in Directions :
        /\ sent[l[1]][l[2]] = <<>> /\ passed[l[1]][l[2]] = <<>>
        /\ course[l[1]][l[2]] = "sound"
  BY <1>1, LineIs DEF PerEnd
<1> QED BY <1>2 DEF Channel!Init

LEMMA MakeIsRenew ==
  ASSUME Inv, NEW n \in Numbers, NEW c \in Conns, NEW with \in Partners, NEW client \in Ends,
         NEW p, Make(n, c, with, client, p)
  PROVE  Channel!Next
<1> DEFINE L == {Line("here", c), Line("there", c)}
<1>1. /\ sent' = Cleared(sent, c, <<>>) /\ passed' = Cleared(passed, c, <<>>)
      /\ course' = Cleared(course, c, "sound")
  BY DEF Make, Cleared
<1>2. /\ sent \in Table(Seq(DataPackets)) /\ passed \in Table(Seq(Contents))
      /\ <<>> \in Seq(DataPackets) /\ <<>> \in Seq(Contents)
      /\ course \in Table(Courses) /\ "sound" \in Courses
  BY EmptySeq DEF Inv, Wires, Types, Courses
<1>3. /\ LinesOf(sent') = [l \in Directions |-> IF l \in L THEN <<>> ELSE LinesOf(sent)[l]]
      /\ LinesOf(passed') = [l \in Directions |-> IF l \in L THEN <<>> ELSE LinesOf(passed)[l]]
  <2> DEFINE none == <<>>
  <2>1. /\ none \in Seq(DataPackets) /\ none \in Seq(Contents)
        /\ sent' = Cleared(sent, c, none) /\ passed' = Cleared(passed, c, none)
    BY <1>1, <1>2
  <2> HIDE DEF none
  <2>2. /\ LinesOf(Cleared(sent, c, none))
             = [l \in Directions |-> IF l \in L THEN none ELSE LinesOf(sent)[l]]
        /\ LinesOf(Cleared(passed, c, none))
             = [l \in Directions |-> IF l \in L THEN none ELSE LinesOf(passed)[l]]
    BY <1>2, <2>1, LineCleared
  <2> QED BY <2>1, <2>2 DEF none
<1>3a. LinesOf(course') = [l \in Directions |-> IF l \in L THEN "sound" ELSE LinesOf(course)[l]]
  <2> DEFINE k == "sound"
  <2>1. k \in Courses /\ course' = Cleared(course, c, k)
    BY <1>1, <1>2
  <2> HIDE DEF k
  <2>2. LinesOf(Cleared(course, c, k))
          = [l \in Directions |-> IF l \in L THEN k ELSE LinesOf(course)[l]]
    BY <1>2, <2>1, LineCleared
  <2> QED BY <2>1, <2>2 DEF k
<1>4. L \in SUBSET Directions
  BY LineIs DEF Ends
<1> HIDE DEF L
<1>5. Channel!Renew(L)
  BY <1>3, <1>3a DEF Channel!Renew, LinesOf
<1> QED BY <1>4, <1>5 DEF Channel!Next

LEMMA BeginIsSend ==
  ASSUME Inv, NEW e \in Ends, NEW c \in Conns, NEW p \in DataPackets, NEW nowait,
         Begin(e, c, p, nowait), UNCHANGED <<course, passed>>
  PROVE  Channel!Next
<1> DEFINE l == Line(e, c)
           w == Append(sent[e][c], p)
<1>1. sent' = Changed(sent, e, c, w)
  BY DEF Begin, Changed
<1>2. sent \in Table(Seq(DataPackets)) /\ w \in Seq(DataPackets)
  <2>1. sent[e][c] \in Seq(DataPackets)
    BY Entries, Zenon DEF Inv, Wires
  <2> QED BY <2>1, AppendProperties DEF Inv, Wires, Types
<1>3. LinesOf(sent') = [LinesOf(sent) EXCEPT ![l] = w]
  <2> HIDE DEF w
  <2>1. LinesOf(Changed(sent, e, c, w)) = [LinesOf(sent) EXCEPT ![Line(e, c)] = w]
    BY <1>2, LineChange
  <2> QED BY <1>1, <2>1, Zenon
<1>4. LinesOf(sent)[l] = sent[e][c] /\ l \in Directions
  <2>1. LinesOf(sent)[Line(e, c)] = sent[e][c]
    BY LineAt, Zenon
  <2>2. Line(e, c) \in Directions
    BY LineIs, Zenon
  <2> QED BY <2>1, <2>2, Zenon
<1> HIDE DEF l
<1>5. LinesOf(sent') = [LinesOf(sent) EXCEPT ![l] = Append(@, p)]
  BY <1>3, <1>4
<1>6. Channel!Send(l)
  BY <1>5 DEF Channel!Send, LinesOf
<1> QED BY <1>4, <1>6 DEF Channel!Next

LEMMA DataIsPassUp ==
  ASSUME Inv, NEW e \in Ends, NEW c \in Conns, ReadData(e, c)
  PROVE  Channel!Next
<1> DEFINE o == Other(e)
           l == Line(o, c)
           n == Len(passed[o][c])
<1>1. Wires /\ UNCHANGED <<course, sent>>
  BY DEF Inv, ReadData, Complete, Arrive
<1>2. PICK p \in Contents :
        /\ passed' = Changed(passed, o, c, Append(passed[o][c], p))
        /\ ~Astray(e, c) => n + 1 <= Len(sent[o][c]) /\ sent[o][c][n + 1] = p
  BY <1>1, DataKeepsWires, Zenon
<1> DEFINE w == Append(passed[o][c], p)
<1>3. /\ passed \in Table(Seq(Contents)) /\ w \in Seq(Contents) /\ o \in Ends
      /\ n \in Nat /\ Len(sent[o][c]) \in Nat
  <2>1. o \in Ends
    BY Others
  <2> HIDE DEF o
  <2>2. passed[o][c] \in Seq(Contents) /\ sent[o][c] \in Seq(DataPackets)
    BY <1>1, <2>1, Entries, Zenon DEF Wires
  <2>3. n \in Nat /\ Len(sent[o][c]) \in Nat
    BY <2>2, Lengths, Zenon
  <2> QED BY <1>1, <2>1, <2>2, <2>3, AppendProperties DEF Wires, Types
<1>4. LinesOf(passed') = [LinesOf(passed) EXCEPT ![l] = w]
  <2> HIDE DEF w, o
  <2>1. passed' = Changed(passed, o, c, w)
    BY <1>2 DEF w
  <2>2. LinesOf(Changed(passed, o, c, w)) = [LinesOf(passed) EXCEPT ![Line(o, c)] = w]
    BY <1>3, LineChange
  <2> QED BY <2>1, <2>2, Zenon
<1>5. /\ LinesOf(passed)[l] = passed[o][c] /\ LinesOf(sent)[l] = sent[o][c]
      /\ LinesOf(course)[l] = course[o][c] /\ l \in Directions
  <2> HIDE DEF o
  <2>1. LinesOf(passed)[Line(o, c)] = passed[o][c]
    BY <1>3, LineAt, Zenon
  <2>2. LinesOf(sent)[Line(o, c)] = sent[o][c]
    BY <1>3, LineAt, Zenon
  <2>3. Line(o, c) \in Directions
    BY <1>3, LineIs, Zenon
  <2>4. LinesOf(course)[Line(o, c)] = course[o][c]
    BY <1>3, LineAt, Zenon
  <2> QED BY <2>1, <2>2, <2>3, <2>4, Zenon
<1>6. CASE Astray(e, c)
  <2>1. LinesOf(passed') = [LinesOf(passed) EXCEPT ![l] = Append(@, p)]
    BY <1>4, <1>5
  <2>2. LinesOf(course)[l] = "astray"
    BY <1>5, <1>6 DEF Astray
  <2> HIDE DEF l, o
  <2>3. Channel!PassAnything(l)
    BY <1>1, <2>1, <2>2 DEF Channel!PassAnything, LinesOf
  <2> QED BY <1>5, <2>3 DEF Channel!Next
<1>7. CASE ~Astray(e, c)
  <2>1. n < Len(sent[o][c])
    <3> HIDE DEF n, o
    <3> QED BY <1>2, <1>3, <1>7
  <2>2. LinesOf(course)[l] # "astray"
    BY <1>5, <1>7 DEF Astray
  <2> HIDE DEF l, o
  <2>3. LinesOf(passed') = [LinesOf(passed) EXCEPT ![l] = Append(@, LinesOf(sent)[l][Len(@) + 1])]
    BY <1>2, <1>4, <1>5, <1>7
  <2>4. Channel!PassUp(l)
    BY <1>1, <1>5, <2>1, <2>2, <2>3 DEF Channel!PassUp, LinesOf
  <2> QED BY <1>5, <2>4 DEF Channel!Next
<1> QED BY <1>6, <1>7

(* The course of one direction changes.                                    *)
LEMMA CourseOf ==
  ASSUME Inv, NEW e \in Ends, NEW c \in Conns, NEW k \in Courses,
         course' = Changed(course, e, c, k), UNCHANGED <<sent, passed>>,
         \/ course[e][c] = k
         \/ course[e][c] = "sound" /\ k = "cut"
         \/ course[e][c] = "cut" /\ k = "astray"
  PROVE  Channel!Next \/ UNCHANGED <<course, sent, passed>>
<1> DEFINE l == Line(e, c)
<1>1. course \in Table(Courses)
  BY DEF Inv, Wires, Types
<1>2. l \in Directions /\ LinesOf(course)[l] = course[e][c]
  BY LineIs, LineAt, Zenon
<1>3. LinesOf(course') = [LinesOf(course) EXCEPT ![l] = k]
  <2>1. LinesOf(Changed(course, e, c, k)) = [LinesOf(course) EXCEPT ![Line(e, c)] = k]
    BY <1>1, LineChange
  <2> QED BY <2>1, Zenon
<1> HIDE DEF l
<1>4. CASE course[e][c] = k
  BY <1>1, <1>4 DEF Table, Changed
<1>5. CASE course[e][c] = "sound" /\ k = "cut"
  <2>1. Channel!Cut(l)
    BY <1>2, <1>3, <1>5 DEF Channel!Cut, LinesOf
  <2> QED BY <1>2, <2>1 DEF Channel!Next
<1>6. CASE course[e][c] = "cut" /\ k = "astray"
  <2>1. Channel!GoAstray(l)
    BY <1>2, <1>3, <1>6 DEF Channel!GoAstray, LinesOf
  <2> QED BY <1>2, <2>1 DEF Channel!Next
<1> QED BY <1>4, <1>5, <1>6

LEMMA TimeOutIsCut ==
  ASSUME Inv, NEW e \in Ends, NEW c \in Conns, WriteTimesOut(e, c)
  PROVE  Channel!Next \/ UNCHANGED <<course, sent, passed>>
<1>1. CASE wr[e][c].todo[1][1] \in {OpenPacket, AlienPacket}
  BY <1>1 DEF WriteTimesOut, Quit, Release
<1>2. CASE wr[e][c].todo[1][1] \notin {OpenPacket, AlienPacket}
  <2> DEFINE k == IF course[e][c] = "sound" THEN "cut" ELSE course[e][c]
  <2>1. course' = Changed(course, e, c, k) /\ UNCHANGED <<sent, passed>>
    BY <1>2 DEF WriteTimesOut, Changed
  <2>2. course[e][c] \in Courses
    BY Entries, Zenon DEF Inv, Wires
  <2>3. k \in Courses /\ (course[e][c] = k \/ (course[e][c] = "sound" /\ k = "cut"))
    BY <2>2 DEF Courses
  <2> HIDE DEF k
  <2> QED BY <2>1, <2>3, CourseOf
<1> QED BY <1>1, <1>2

LEMMA BehindIsAstray ==
  ASSUME Inv, NEW e \in Ends, NEW c \in Conns, ReadBehind(e, c)
  PROVE  Channel!Next \/ UNCHANGED <<course, sent, passed>>
<1> DEFINE o == Other(e)
           k == "astray"
<1>1. /\ o \in Ends /\ k \in Courses /\ course' = Changed(course, o, c, k)
      /\ course[o][c] = "cut" /\ UNCHANGED <<sent, passed>>
  BY Others DEF ReadBehind, Changed, Courses
<1> HIDE DEF o
<1> QED BY <1>1, CourseOf

LEMMA StepIsChannelStep ==
  ASSUME Inv, [Next]_vars
  PROVE  Channel!Next \/ UNCHANGED <<course, sent, passed>>
<1>1. ASSUME NEW n \in Numbers, NEW p \in Partners, NEW c \in Conns,
             OpenClient(n, p, c) \/ Accept(n, p, c)
      PROVE  Channel!Next
  <2>1. "here" \in Ends /\ "there" \in Ends
    BY DEF Ends
  <2>2. \/ Make(n, c, p, "here", OpenPacket)
        \/ \E q \in {OpenPacket, AlienPacket} : Make(n, c, p, "there", q)
    BY <1>1 DEF OpenClient, Accept
  <2> QED BY <2>1, <2>2, MakeIsRenew
<1>2. CASE SendQueued
  <2>1. /\ conn[Head(queue).number] \in Conns /\ Head(queue).packet \in DataPackets
        /\ "here" \in Ends
    BY <1>2, QueuedIs DEF SendQueued, Ends
  <2>2. /\ Begin("here", conn[Head(queue).number], Head(queue).packet, FALSE)
        /\ UNCHANGED <<course, passed>>
    BY <1>2 DEF SendQueued, way
  <2> QED BY <2>1, <2>2, BeginIsSend
<1>3. ASSUME NEW e \in Ends, NEW c \in Conns, WriteNowait(e, c) PROVE Channel!Next
  <2>1. NextPacket \in DataPackets
    BY <1>3, NextPacketIs DEF WriteNowait
  <2>2. Begin(e, c, NextPacket, TRUE) /\ UNCHANGED <<course, passed>>
    BY <1>3 DEF WriteNowait, way
  <2> QED BY <2>1, <2>2, BeginIsSend
<1>4. ASSUME NEW e \in Ends, NEW c \in Conns, ReadData(e, c) PROVE Channel!Next
  BY <1>4, DataIsPassUp
<1>5. ASSUME NEW e \in Ends, NEW c \in Conns,
             \/ TestWrite(e, c) \/ TestWriteFails(e, c) \/ Close(e, c)
             \/ WritePiece(e, c) \/ WriteFails(e, c)
             \/ ReadPart(e, c) \/ ReadHeader(e, c) \/ ReadAlien(e, c) \/ ReadInit(e, c)
             \/ ReadEnd(e, c)
      PROVE  UNCHANGED <<course, sent, passed>>
  BY <1>5 DEF TestWrite, TestWriteFails, Close, WritePiece, WriteFails, Put, way, ReadPart,
              ReadHeader, ReadAlien, ReadInit, ReadEnd, Complete, Arrive, Quit, Release, Linger
<1>6. ASSUME \/ \E p \in Partners : OpenClientFails(p)
             \/ \E n \in Numbers : Write(n)
             \/ DropQueued
             \/ \E c \in Conns : Break(c)
             \/ UNCHANGED vars
      PROVE  UNCHANGED <<course, sent, passed>>
  BY <1>6 DEF OpenClientFails, Write, DropQueued, Break, vars, way
<1>7. ASSUME NEW e \in Ends, NEW c \in Conns, WriteTimesOut(e, c) \/ ReadBehind(e, c)
      PROVE  Channel!Next \/ UNCHANGED <<course, sent, passed>>
  BY <1>7, TimeOutIsCut, BehindIsAstray
<1> QED BY <1>1, <1>2, <1>3, <1>4, <1>5, <1>6, <1>7 DEF Next, WriteOn, ReadOn

(* Whole packets, in order, none twice: over each connection the layers    *)
(* above see a packet channel, which misses packets only at its end, until *)
(* they read on behind a place where a write has timed out.                *)
THEOREM TransportIsChannel == Spec => ImplementsPacketChannel
<1>1. Inv /\ [Next]_vars
        => [Channel!Next]_<<[l \in Directions |-> course[l[1]][l[2]]],
                            [l \in Directions |-> sent[l[1]][l[2]]],
                            [l \in Directions |-> passed[l[1]][l[2]]]>>
  BY StepIsChannelStep
<1> QED BY <1>1, InitIsChannelInit, TransportInvariance, PTL
        DEF Spec, ImplementsPacketChannel, Channel!Spec
=============================================================================
