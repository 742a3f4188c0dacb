-------------------------- MODULE ServiceListProofs --------------------------
(***************************************************************************)
(* Proofs about the list of services in dis.c, for any number of services, *)
(* clients and buckets.                                                    *)
(*                                                                         *)
(* An update serves one request after the other, and each of them changes  *)
(* the counts that decide what the next one is told.  The invariant speaks *)
(* of the state between two calls; Stage is what it becomes when i of the  *)
(* requests have been served.                                              *)
(***************************************************************************)
EXTENDS ServiceList, SequenceTheorems, FiniteSetTheorems, WellFoundedInduction, TLAPS

USE ServiceListAssumption

Most == Cardinality(Clients)
Counts == 0..(Most + 1)
States == [registered : [Services -> Counts], pending : BOOLEAN,
           view : [Clients -> SUBSET Services], missed : [Clients -> SUBSET Services]]

Asked == {requests[i].client : i \in DOMAIN requests}
Served == {requests[i].client : i \in {j \in DOMAIN requests : ~requests[j].first}}

(* What c has been told is there, but for what it may be wrong about.      *)
Sound(k, c) == k.view[c] \subseteq table \cup k.missed[c]

(* What more than m know, the name server included, c knows too.           *)
Shared(k, c, m) ==
  \A s \in table : k.registered[s] > m => s \in k.view[c] \cup k.missed[c]

Gone(k) == {s \in table : k.registered[s] = 0}

(* c has been served: it knows of all there is, and that the rest is gone. *)
Told(k, c) ==
  /\ Sound(k, c) /\ table \ Gone(k) \subseteq k.view[c] \cup k.missed[c]
  /\ k.view[c] \cap Gone(k) = {}

(* q is what has become of k after i requests have been served.            *)
Stage(k, q, i) ==
  /\ q \in States /\ q.pending = k.pending /\ Gone(q) = Gone(k)
  /\ \A c \in Clients \ Asked : q.view[c] = {} /\ q.missed[c] = {}
  /\ \A j \in 1..Len(requests) :
       LET c == requests[j].client IN
         IF j <= i THEN Told(q, c)
                   ELSE requests[j].first \/ (Sound(q, c) /\ Shared(q, c, i + 1))

-----------------------------------------------------------------------------
(* What the requests are.                                                  *)

RequestRecords == [client : Clients, first : BOOLEAN]
OnePerClient ==
  /\ requests \in Seq(RequestRecords)
  /\ \A i, j \in 1..Len(requests) : requests[i].client = requests[j].client => i = j

(* Between two calls.                                                      *)
Right(c) ==
  /\ Sound(Known, c) /\ Shared(Known, c, 1)
  /\ ~pending => table \ fresh \subseteq view[c] \cup missed[c]

Inv ==
  /\ TypeOK /\ OnePerClient /\ NewEntriesCounted /\ Unregistered \subseteq fresh
  /\ \A c \in Served : Right(c)

LEMMA ClientsFinite == Most \in Nat
  BY FS_CardinalityType DEF Most

-----------------------------------------------------------------------------
(* What service_info does, service by service and client by client.        *)

(* r is q after c, one of n clients, has been told what changes.           *)
New(q, n) == {s \in table : q.registered[s] \in 1..n}

IsChanged(r, q, c, n) ==
  /\ r \in States /\ r.pending = q.pending
  /\ \A s \in Services : r.registered[s] =
       IF s \in New(q, n) THEN q.registered[s] + 1 ELSE q.registered[s]
  /\ \A d \in Clients \ {c} : r.view[d] = q.view[d] /\ r.missed[d] = q.missed[d]
  /\ r.view[c] = (q.view[c] \ Gone(q)) \cup New(q, n)
  /\ r.missed[c] = q.missed[c] \ (Gone(q) \cup New(q, n))

LEMMA ChangesAre ==
  ASSUME table \subseteq Services,
         NEW q \in States, NEW c \in Clients, NEW n \in Nat, n <= Most
  PROVE  IsChanged(Changes(q, c, n), q, c, n)
<1> DEFINE r == Changes(q, c, n)
           new == New(q, n)
<1> HIDE DEF r, new
<1> DEFINE reg == [s \in Services |-> IF s \in new THEN q.registered[s] + 1
                                                   ELSE q.registered[s]]
           vw == [q.view EXCEPT ![c] = (@ \ Gone(q)) \cup new]
           ms == [q.missed EXCEPT ![c] = @ \ (Gone(q) \cup new)]
<1>1. r = [q EXCEPT !.registered = reg, !.view = vw, !.missed = ms]
  BY DEF Changes, Gone, New, States, r, new
<1>2. /\ q.registered \in [Services -> Counts] /\ q.pending \in BOOLEAN
      /\ q.view \in [Clients -> SUBSET Services] /\ q.missed \in [Clients -> SUBSET Services]
  BY DEF States
<1>3. new \subseteq Services /\ Gone(q) \subseteq Services
  BY DEF Gone, New, new
<1>4. reg \in [Services -> Counts]
  <2>1. \A s \in Services : s \in new => q.registered[s] \in 1..n
    BY DEF new, New
  <2> QED BY <1>2, <2>1, ClientsFinite DEF Counts
<1>5. vw \in [Clients -> SUBSET Services] /\ ms \in [Clients -> SUBSET Services]
  BY <1>2, <1>3
<1>6. r.registered = reg /\ r.view = vw /\ r.missed = ms /\ r.pending = q.pending
  BY <1>1 DEF States
<1>7. r \in States
  <2> HIDE DEF reg, vw, ms
  <2> QED BY <1>1, <1>2, <1>4, <1>5 DEF States
<1>8. \A s \in Services : reg[s] =
        IF s \in new THEN q.registered[s] + 1 ELSE q.registered[s]
  OBVIOUS
<1>9. /\ \A d \in Clients \ {c} : vw[d] = q.view[d] /\ ms[d] = q.missed[d]
      /\ vw[c] = (q.view[c] \ Gone(q)) \cup new
      /\ ms[c] = q.missed[c] \ (Gone(q) \cup new)
  BY <1>2
<1>10. IsChanged(r, q, c, n)
  <2> HIDE DEF reg, vw, ms
  <2> QED BY <1>6, <1>7, <1>8, <1>9 DEF IsChanged, new
<1> QED BY <1>10, Zenon DEF r

(* r is q after the clients of C have been sent the services listed.       *)
IsListed(r, q, C, n, late, listed) ==
  /\ r \in States /\ r.pending = q.pending
  /\ \A s \in Services : r.registered[s] = IF s \in listed THEN n + 1 ELSE q.registered[s]
  /\ \A d \in C : /\ r.view[d] = listed
                  /\ r.missed[d] = IF late THEN (table \ Gone(q)) \ listed ELSE {}
  /\ \A d \in Clients \ C :
       /\ r.view[d] = q.view[d]
       /\ r.missed[d] = q.missed[d] \cup (IF late /\ Asks(d) THEN listed \ q.view[d] ELSE {})

LEMMA WholeListIs ==
  ASSUME table \subseteq Services,
         NEW q \in States, NEW C \in SUBSET Clients, NEW n \in Nat, n <= Most,
         NEW late
  PROVE  IsListed(WholeList(q, C, n, late), q, C, n, late, Listed(q, n))
<1> DEFINE r == WholeList(q, C, n, late)
           listed == Listed(q, n)
<1> HIDE DEF r, listed
<1> DEFINE unknown(d) == IF late /\ Asks(d) THEN listed \ q.view[d] ELSE {}
           skipped == IF late THEN {s \in table : q.registered[s] # 0} \ listed ELSE {}
           reg == [s \in Services |-> IF s \in listed THEN n + 1 ELSE q.registered[s]]
           vw == [d \in Clients |-> IF d \in C THEN listed ELSE q.view[d]]
           ms == [d \in Clients |-> IF d \in C THEN skipped ELSE q.missed[d] \cup unknown(d)]
<1>1. r = [q EXCEPT !.registered = reg, !.view = vw, !.missed = ms]
  BY DEF WholeList, States, r, listed
<1>2. /\ q.registered \in [Services -> Counts] /\ q.pending \in BOOLEAN
      /\ q.view \in [Clients -> SUBSET Services] /\ q.missed \in [Clients -> SUBSET Services]
  BY DEF States
<1>3. listed \subseteq Services /\ skipped \subseteq Services
  BY DEF Listed, listed
<1>4. reg \in [Services -> Counts]
  BY <1>2, ClientsFinite DEF Counts
<1>5. vw \in [Clients -> SUBSET Services]
  BY <1>2, <1>3
<1>6. ms \in [Clients -> SUBSET Services]
  <2>1. \A d \in Clients : q.missed[d] \cup unknown(d) \in SUBSET Services
    BY <1>2, <1>3
  <2> HIDE DEF unknown, skipped
  <2> QED BY <1>3, <2>1
<1>7. r.registered = reg /\ r.view = vw /\ r.missed = ms /\ r.pending = q.pending
  BY <1>1 DEF States
<1>8. r \in States
  <2> HIDE DEF reg, vw, ms
  <2> QED BY <1>1, <1>2, <1>4, <1>5, <1>6 DEF States
<1>9. skipped = IF late THEN (table \ Gone(q)) \ listed ELSE {}
  BY DEF Gone
<1>10. \A d \in Clients \ C : ms[d] = q.missed[d] \cup unknown(d) /\ vw[d] = q.view[d]
  <2> HIDE DEF skipped, unknown
  <2> QED OBVIOUS
<1>11. \A d \in C : ms[d] = skipped /\ vw[d] = listed
  <2> HIDE DEF skipped, unknown
  <2> QED OBVIOUS
<1>12. \A s \in Services : reg[s] = IF s \in listed THEN n + 1 ELSE q.registered[s]
  OBVIOUS
<1>13. IsListed(r, q, C, n, late, listed)
  <2> HIDE DEF reg, vw, ms, skipped
  <2> QED BY <1>7, <1>8, <1>9, <1>10, <1>11, <1>12 DEF IsListed
<1> QED BY <1>13, Zenon DEF r, listed

-----------------------------------------------------------------------------
(* An update.                                                              *)

LEMMA AskedAre ==
  ASSUME OnePerClient
  PROVE  /\ Len(requests) \in Nat /\ DOMAIN requests = 1..Len(requests)
         /\ \A i \in 1..Len(requests) : /\ requests[i].client \in Clients
                                        /\ requests[i].first \in BOOLEAN
                                        /\ requests[i] \in RequestRecords
         /\ \A c : c \in Asked <=> Asks(c)
         /\ Asked \subseteq Clients
<1>1. requests \in Seq(RequestRecords)
  BY DEF OnePerClient
<1>2. /\ Len(requests) \in Nat /\ DOMAIN requests = 1..Len(requests)
      /\ \A i \in 1..Len(requests) : requests[i] \in RequestRecords
  BY <1>1
<1>3. \A i \in 1..Len(requests) : requests[i].client \in Clients /\ requests[i].first \in BOOLEAN
  BY <1>2 DEF RequestRecords
<1> QED BY <1>2, <1>3 DEF Asked, Asks

(* As many requests as clients at most.                                    *)
LEMMA RequestsFew ==
  ASSUME NEW s \in Seq(RequestRecords),
         \A i, j \in 1..Len(s) : s[i].client = s[j].client => i = j
  PROVE  Len(s) <= Cardinality(Clients)
<1> DEFINE f == [i \in 1..Len(s) |-> s[i].client]
<1>1. Len(s) \in Nat /\ \A i \in 1..Len(s) : s[i] \in RequestRecords
  OBVIOUS
<1>2. \A i \in 1..Len(s) : s[i].client \in Clients
  BY <1>1 DEF RequestRecords
<1>3. f \in Injection(1..Len(s), Clients)
  BY <1>2 DEF Injection, IsInjective
<1>4. Cardinality(1..Len(s)) <= Cardinality(Clients)
  <2> HIDE DEF f
  <2> QED BY <1>3, FS_Injection
<1>5. Cardinality(1..Len(s)) = Len(s)
  <2>1. PICK m : m = Len(s)
    OBVIOUS
  <2>2. m \in Nat
    BY <1>1, <2>1
  <2>3. Cardinality(1..m) = m
    BY <2>2, FS_Interval
  <2> QED BY <2>1, <2>3
<1> QED BY <1>4, <1>5

LEMMA NotMany ==
  ASSUME OnePerClient PROVE Len(requests) \in Nat /\ Len(requests) <= Most
<1>1. Len(requests) \in Nat
  BY AskedAre
<1>2. Len(requests) <= Cardinality(Clients)
  BY RequestsFew DEF OnePerClient
<1> QED BY <1>1, <1>2 DEF Most

(* A request that is served for the first time.                            *)
LEMMA FirstServed ==
  ASSUME table \subseteq Services, OnePerClient,
         NEW k, NEW q, NEW i \in Nat, i < Len(requests), Stage(k, q, i),
         requests[i + 1].first
  PROVE  Stage(k, Serve(q, requests[i + 1]), i + 1)
<1> DEFINE n == Len(requests)
           c == requests[i + 1].client
           listed == Listed(q, n)
<1>0. /\ n \in Nat /\ n <= Most /\ i + 1 \in 1..n /\ i + 1 <= n
      /\ \A j \in 1..n : requests[j].client \in Clients
      /\ \A d : d \in Asked <=> Asks(d)
  <2>1. n \in Nat /\ n <= Most
    BY NotMany
  <2>2. i + 1 \in 1..n /\ i + 1 <= n
    BY <2>1
  <2>3. \A j \in 1..n : requests[j].client \in Clients
    BY AskedAre
  <2>4. \A d : d \in Asked <=> Asks(d)
    BY AskedAre
  <2> QED BY <2>1, <2>2, <2>3, <2>4
<1>1. /\ q \in States /\ q.pending = k.pending /\ Gone(q) = Gone(k)
      /\ \A d \in Clients \ Asked : q.view[d] = {} /\ q.missed[d] = {}
      /\ \A j \in 1..n : LET d == requests[j].client IN
           IF j <= i THEN Told(q, d)
                     ELSE requests[j].first \/ (Sound(q, d) /\ Shared(q, d, i + 1))
  BY DEF Stage
<1>2. PICK r : r = Serve(q, requests[i + 1])
  OBVIOUS
<1>3. r = WholeList(q, {c}, n, TRUE) /\ c \in Clients
  BY <1>0, <1>2 DEF Serve, NClients
<1>4. listed \subseteq table \ Gone(q)
  BY DEF Listed, Gone
<1>5. /\ r \in States /\ r.pending = q.pending
      /\ \A s \in Services : r.registered[s] = IF s \in listed THEN n + 1 ELSE q.registered[s]
      /\ r.view[c] = listed /\ r.missed[c] = (table \ Gone(q)) \ listed
      /\ \A d \in Clients \ {c} :
           /\ r.view[d] = q.view[d]
           /\ r.missed[d] = q.missed[d] \cup (IF Asks(d) THEN listed \ q.view[d] ELSE {})
  <2> HIDE DEF n, c, listed
  <2>1. {c} \in SUBSET Clients /\ n \in Nat /\ n <= Most /\ q \in States
    BY <1>0, <1>1, <1>3 DEF n
  <2>2. IsListed(r, q, {c}, n, TRUE, listed)
    BY <1>3, <2>1, WholeListIs, Zenon DEF listed
  <2> QED BY <2>2 DEF IsListed
<1> HIDE DEF listed, n, c
<1>6. \A s \in Services : q.registered[s] \in Nat
  BY <1>1, ClientsFinite DEF States, Counts
<1>7. Gone(r) = Gone(q)
  BY <1>0, <1>4, <1>5, <1>6 DEF Gone
<1>8. \A d \in Clients \ Asked : r.view[d] = {} /\ r.missed[d] = {}
  <2>1. c \in Asked
    BY <1>0, AskedAre DEF c, Asked
  <2> QED BY <1>0, <1>1, <1>5, <2>1
<1>9. Told(r, c)
  BY <1>4, <1>5, <1>7 DEF Told, Sound
<1>10. \A j \in 1..n : j # i + 1 => requests[j].client \in Clients \ {c}
  BY <1>0 DEF OnePerClient, c, n
<1>11. ASSUME NEW j \in 1..n, j <= i PROVE Told(r, requests[j].client)
  <2>1. requests[j].client \in Clients \ {c} /\ Told(q, requests[j].client)
    BY <1>0, <1>1, <1>10, <1>11
  <2> QED BY <1>5, <1>7, <2>1 DEF Told, Sound
<1>12. ASSUME NEW j \in 1..n, j > i + 1, ~requests[j].first
       PROVE  Sound(r, requests[j].client) /\ Shared(r, requests[j].client, i + 2)
  <2>1. PICK d : d = requests[j].client
    OBVIOUS
  <2>2. d \in Clients \ {c} /\ Sound(q, d) /\ Shared(q, d, i + 1) /\ Asks(d)
    BY <1>0, <1>1, <1>10, <1>12, <2>1, AskedAre DEF Asked, n
  <2>3. Sound(r, d)
    BY <1>5, <2>2 DEF Sound
  <2>4. ASSUME NEW s \in table, r.registered[s] > i + 2 PROVE s \in r.view[d] \cup r.missed[d]
    <3>1. CASE s \in listed
      BY <1>5, <2>2, <3>1
    <3>2. CASE s \notin listed
      <4>1. q.registered[s] > i + 1
        BY <1>5, <1>6, <2>4, <3>2
      <4> QED BY <1>5, <2>2, <4>1 DEF Shared
    <3> QED BY <3>1, <3>2
  <2> QED BY <2>1, <2>3, <2>4 DEF Shared
<1>13. i + 1 + 1 = i + 2
  OBVIOUS
<1>14. ASSUME NEW j \in 1..n
       PROVE LET d == requests[j].client IN
               IF j <= i + 1 THEN Told(r, d)
                         ELSE requests[j].first \/ (Sound(r, d) /\ Shared(r, d, (i + 1) + 1))
  <2>1. CASE j <= i
    BY <1>0, <1>11, <2>1
  <2>2. CASE j = i + 1
    BY <1>0, <1>9, <2>2 DEF c
  <2>3. CASE j > i + 1
    BY <1>0, <1>12, <1>13, <2>3
  <2> QED BY <1>0, <2>1, <2>2, <2>3
<1> QED BY <1>1, <1>2, <1>5, <1>7, <1>8, <1>14 DEF Stage, n

(* A request that has been served before: its client is told what changes. *)
LEMMA LaterServed ==
  ASSUME table \subseteq Services, OnePerClient,
         NEW k, NEW q, NEW i \in Nat, i < Len(requests), Stage(k, q, i),
         ~requests[i + 1].first
  PROVE  Stage(k, Serve(q, requests[i + 1]), i + 1)
<1> DEFINE n == Len(requests)
           c == requests[i + 1].client
           new == New(q, n)
<1>0. /\ n \in Nat /\ n <= Most /\ i + 1 \in 1..n /\ i + 1 <= n
      /\ \A j \in 1..n : requests[j].client \in Clients
      /\ \A d : d \in Asked <=> Asks(d)
  <2>1. n \in Nat /\ n <= Most
    BY NotMany
  <2>2. i + 1 \in 1..n /\ i + 1 <= n
    BY <2>1
  <2>3. \A j \in 1..n : requests[j].client \in Clients
    BY AskedAre
  <2>4. \A d : d \in Asked <=> Asks(d)
    BY AskedAre
  <2> QED BY <2>1, <2>2, <2>3, <2>4
<1>1. /\ q \in States /\ q.pending = k.pending /\ Gone(q) = Gone(k)
      /\ \A d \in Clients \ Asked : q.view[d] = {} /\ q.missed[d] = {}
      /\ \A j \in 1..n : LET d == requests[j].client IN
           IF j <= i THEN Told(q, d)
                     ELSE requests[j].first \/ (Sound(q, d) /\ Shared(q, d, i + 1))
  BY DEF Stage
<1>2. PICK r : r = Serve(q, requests[i + 1])
  OBVIOUS
<1>3. r = Changes(q, c, n) /\ c \in Clients
  BY <1>0, <1>2 DEF Serve, NClients
<1>6. \A s \in Services : q.registered[s] \in Nat
  BY <1>1, ClientsFinite DEF States, Counts
<1>4. new \subseteq table \ Gone(q)
  BY <1>6 DEF Gone, New
<1>5. /\ r \in States /\ r.pending = q.pending
      /\ \A s \in Services : r.registered[s] =
           IF s \in new THEN q.registered[s] + 1 ELSE q.registered[s]
      /\ \A d \in Clients \ {c} : r.view[d] = q.view[d] /\ r.missed[d] = q.missed[d]
      /\ r.view[c] = (q.view[c] \ Gone(q)) \cup new
      /\ r.missed[c] = q.missed[c] \ (Gone(q) \cup new)
  <2>1. n \in Nat /\ n <= Most /\ q \in States
    BY <1>0, <1>1
  <2>2. IsChanged(r, q, c, n)
    BY <1>3, <2>1, ChangesAre, Zenon
  <2> QED BY <2>2 DEF IsChanged
<1>15. Sound(q, c) /\ Shared(q, c, i + 1)
  BY <1>0, <1>1
<1>16. \A s \in table \ Gone(q) : s \notin new => q.registered[s] > i + 1
  <2>1. \A s \in table \ Gone(q) : s \notin new => q.registered[s] > n
    BY <1>0, <1>6 DEF Gone, New
  <2> HIDE DEF new
  <2> QED BY <1>0, <1>6, <2>1
<1> HIDE DEF new, n, c
<1>7. Gone(r) = Gone(q)
  BY <1>4, <1>5, <1>6 DEF Gone
<1>8. \A d \in Clients \ Asked : r.view[d] = {} /\ r.missed[d] = {}
  <2>1. c \in Asked
    BY <1>0, AskedAre DEF c, Asked
  <2> QED BY <1>0, <1>1, <1>5, <2>1
<1>9. Told(r, c)
  <2>1. \A s \in table \ Gone(q) : s \in r.view[c] \cup r.missed[c]
    BY <1>5, <1>15, <1>16 DEF Shared
  <2>2. r.view[c] \subseteq table \cup r.missed[c] /\ r.view[c] \cap Gone(q) = {}
    BY <1>4, <1>5, <1>15 DEF Sound
  <2> QED BY <1>7, <2>1, <2>2 DEF Told, Sound
<1>10. \A j \in 1..n : j # i + 1 => requests[j].client \in Clients \ {c}
  BY <1>0 DEF OnePerClient, c, n
<1>11. ASSUME NEW j \in 1..n, j <= i PROVE Told(r, requests[j].client)
  <2>1. requests[j].client \in Clients \ {c} /\ Told(q, requests[j].client)
    BY <1>0, <1>1, <1>10, <1>11
  <2> QED BY <1>5, <1>7, <2>1 DEF Told, Sound
<1>12. ASSUME NEW j \in 1..n, j > i + 1, ~requests[j].first
       PROVE  Sound(r, requests[j].client) /\ Shared(r, requests[j].client, i + 2)
  <2>1. PICK d : d = requests[j].client
    OBVIOUS
  <2>2. d \in Clients \ {c} /\ Sound(q, d) /\ Shared(q, d, i + 1)
    BY <1>0, <1>1, <1>10, <1>12, <2>1
  <2>3. Sound(r, d)
    BY <1>5, <2>2 DEF Sound
  <2>4. ASSUME NEW s \in table, r.registered[s] > i + 2 PROVE s \in r.view[d] \cup r.missed[d]
    <3>1. q.registered[s] > i + 1
      BY <1>5, <1>6, <2>4
    <3> QED BY <1>5, <2>2, <3>1 DEF Shared
  <2> QED BY <2>1, <2>3, <2>4 DEF Shared
<1>13. i + 1 + 1 = i + 2
  OBVIOUS
<1>14. ASSUME NEW j \in 1..n
       PROVE LET d == requests[j].client IN
               IF j <= i + 1 THEN Told(r, d)
                         ELSE requests[j].first \/ (Sound(r, d) /\ Shared(r, d, (i + 1) + 1))
  <2>1. CASE j <= i
    BY <1>0, <1>11, <2>1
  <2>2. CASE j = i + 1
    BY <1>0, <1>9, <2>2 DEF c
  <2>3. CASE j > i + 1
    BY <1>0, <1>12, <1>13, <2>3
  <2> QED BY <1>0, <2>1, <2>2, <2>3
<1> QED BY <1>1, <1>2, <1>5, <1>7, <1>8, <1>14 DEF Stage, n

(* All requests in turn.  f is what has become of k after each of them.    *)
IsHistory(f, k, m) ==
  f = [i \in 0..m |-> IF i = 0 THEN k ELSE Serve(f[i - 1], requests[i])]

LEMMA UpdatedIs ==
  ASSUME NEW k
  PROVE  Updated(k) = (CHOOSE f : IsHistory(f, k, Len(requests)))[Len(requests)]
  BY DEF Updated, IsHistory

LEMMA HistoryExists ==
  ASSUME NEW k, NEW m \in Nat
  PROVE  \E f : IsHistory(f, k, m)
<1> DEFINE B == {i \in Nat : ~\E f : IsHistory(f, k, i)}
<1>1. B = {}
  <2> SUFFICES ASSUME B # {} PROVE FALSE
    OBVIOUS
  <2>1. PICK i \in B : \A l \in B : ~(<<l, i>> \in OpToRel(<, Nat))
    <3>1. B \subseteq Nat
      OBVIOUS
    <3> HIDE DEF B
    <3> QED BY <3>1, NatLessThanWellFounded, WFMin, Zenon
  <2>2. CASE i = 0
    <3> DEFINE f == [l \in 0..0 |-> k]
    <3>1. f = [l \in 0..0 |-> IF l = 0 THEN k ELSE Serve(f[l - 1], requests[l])]
      OBVIOUS
    <3> HIDE DEF f
    <3>2. IsHistory(f, k, 0)
      BY <3>1 DEF IsHistory
    <3> QED BY <2>2, <3>2
  <2>3. CASE i # 0
    <3>1. i - 1 \in Nat /\ i - 1 < i /\ i \in Nat
      BY <2>3
    <3>2. i - 1 \notin B
      BY <2>1, <3>1 DEF OpToRel
    <3>3. PICK g : IsHistory(g, k, i - 1)
      BY <3>1, <3>2
    <3> DEFINE f == [l \in 0..i |-> IF l = i THEN Serve(g[i - 1], requests[i]) ELSE g[l]]
    <3>4. ASSUME NEW l \in 0..i
          PROVE f[l] = IF l = 0 THEN k ELSE Serve(f[l - 1], requests[l])
      <4>1. CASE l = i
        BY <2>3, <3>1, <4>1
      <4>2. CASE l # i
        <5>1. l \in 0..(i - 1) /\ f[l] = g[l]
          BY <3>1, <4>2
        <5>2. g[l] = IF l = 0 THEN k ELSE Serve(g[l - 1], requests[l])
          BY <3>3, <5>1 DEF IsHistory
        <5>3. l # 0 => f[l - 1] = g[l - 1]
          BY <3>1, <4>2
        <5> HIDE DEF f
        <5> QED BY <5>1, <5>2, <5>3
      <4> QED BY <4>1, <4>2
    <3>5. f = [l \in 0..i |-> IF l = 0 THEN k ELSE Serve(f[l - 1], requests[l])]
      <4>1. f = [l \in 0..i |-> f[l]]
        OBVIOUS
      <4> HIDE DEF f
      <4> QED BY <3>4, <4>1
    <3> HIDE DEF f
    <3>6. IsHistory(f, k, i)
      BY <3>5 DEF IsHistory
    <3> QED BY <3>6
  <2> QED BY <2>2, <2>3
<1> QED BY <1>1

LEMMA UpdatedStage ==
  ASSUME table \subseteq Services, OnePerClient, NEW k, Stage(k, k, 0)
  PROVE  Stage(k, Updated(k), Len(requests))
<1>1. Len(requests) \in Nat
  BY AskedAre
<1> DEFINE n == Len(requests)
<1>2. PICK f : IsHistory(f, k, n) /\ Updated(k) = f[n]
  <2>1. \E f : IsHistory(f, k, n)
    BY <1>1, HistoryExists
  <2>2. IsHistory(CHOOSE f : IsHistory(f, k, n), k, n)
    BY <2>1
  <2> QED BY <2>2, UpdatedIs
<1>3. /\ f[0] = k
      /\ \A i \in 1..n : f[i] = Serve(f[i - 1], requests[i])
  BY <1>1, <1>2 DEF IsHistory
<1> DEFINE B == {i \in Nat : i <= n /\ ~Stage(k, f[i], i)}
<1>4. B = {}
  <2> SUFFICES ASSUME B # {} PROVE FALSE
    OBVIOUS
  <2>1. PICK i \in B : \A l \in B : ~(<<l, i>> \in OpToRel(<, Nat))
    <3>1. B \subseteq Nat
      OBVIOUS
    <3> HIDE DEF B
    <3> QED BY <3>1, NatLessThanWellFounded, WFMin, Zenon
  <2>2. i # 0
    BY <1>3, <2>1
  <2>3. i - 1 \in Nat /\ i - 1 < i /\ i \in Nat /\ i <= n /\ i - 1 < n /\ i - 1 + 1 = i
    BY <1>1, <2>2
  <2>4. Stage(k, f[i - 1], i - 1)
    <3>1. i - 1 \notin B
      BY <2>1, <2>3 DEF OpToRel
    <3> QED BY <2>3, <3>1
  <2>5. PICK l : l = i - 1
    OBVIOUS
  <2>6. l \in Nat /\ l < Len(requests) /\ l + 1 = i
    BY <2>3, <2>5
  <2>7. Stage(k, Serve(f[l], requests[l + 1]), l + 1)
    BY <2>4, <2>5, <2>6, FirstServed, LaterServed
  <2>8. f[i] = Serve(f[l], requests[i])
    BY <1>3, <2>3, <2>5
  <2> QED BY <2>6, <2>7, <2>8
<1> QED BY <1>1, <1>2, <1>4

-----------------------------------------------------------------------------
(* The counts of new entries.                                              *)

LEMMA InFinite ==
  ASSUME table \subseteq Services, NEW S \in SUBSET table, NEW b
  PROVE  IsFiniteSet(In(b, S)) /\ Cardinality(In(b, S)) \in Nat
<1>1. In(b, S) \subseteq Services
  BY DEF In
<1> QED BY <1>1, FS_Subset, FS_CardinalityType

LEMMA FewerUnregistered ==
  ASSUME TypeOK, NewEntriesCounted, Unregistered' \subseteq Unregistered, UNCHANGED newEntries
  PROVE  NewEntriesCounted'
<1> SUFFICES ASSUME NEW b \in Buckets
             PROVE  Cardinality(In(b, Unregistered')) <= newEntries[b]
  BY DEF NewEntriesCounted, In
<1>1. Unregistered \subseteq table /\ table \subseteq Services
  BY DEF TypeOK, Unregistered
<1>2. In(b, Unregistered') \subseteq In(b, Unregistered)
  BY DEF In
<1>3. IsFiniteSet(In(b, Unregistered)) /\ Cardinality(In(b, Unregistered)) \in Nat
  BY <1>1, InFinite
<1>4. /\ Cardinality(In(b, Unregistered')) <= Cardinality(In(b, Unregistered))
      /\ Cardinality(In(b, Unregistered')) \in Nat
  BY <1>2, <1>3, FS_Subset, FS_CardinalityType
<1>5. Cardinality(In(b, Unregistered)) <= newEntries[b] /\ newEntries[b] \in Nat
  BY DEF NewEntriesCounted, TypeOK
<1> QED BY <1>3, <1>4, <1>5

LEMMA NoneUnregistered ==
  ASSUME newEntries' \in [Buckets -> 0..MaxNew], Unregistered' = {}
  PROVE  NewEntriesCounted'
<1> SUFFICES ASSUME NEW b \in Buckets
             PROVE  Cardinality(In(b, Unregistered')) <= newEntries'[b]
  BY DEF NewEntriesCounted, In
<1>1. In(b, Unregistered') = {}
  BY DEF In
<1> QED BY <1>1, FS_EmptySet

LEMMA MinusIs ==
  ASSUME TypeOK, NEW S \in SUBSET table,
         newEntries' = [b \in Buckets |-> Minus(newEntries[b], Cardinality(In(b, S)))]
  PROVE  newEntries' \in [Buckets -> 0..MaxNew]
<1>1. table \subseteq Services
  BY DEF TypeOK
<1>2. \A b \in Buckets : newEntries[b] \in 0..MaxNew /\ Cardinality(In(b, S)) \in Nat
  BY <1>1, InFinite DEF TypeOK
<1>3. \A b \in Buckets : Minus(newEntries[b], Cardinality(In(b, S))) \in 0..MaxNew
  BY <1>2 DEF Minus
<1> QED BY <1>3

(* A start finds all there is to find.                                     *)
LEMMA AllFound ==
  ASSUME TypeOK, NewEntriesCounted, NEW R \in SUBSET Unregistered,
         \A b \in Buckets :
           Cardinality(In(b, R)) = Least(newEntries[b], Cardinality(In(b, Unregistered)))
  PROVE  R = Unregistered
<1>1. Unregistered \subseteq table /\ table \subseteq Services
  BY DEF TypeOK, Unregistered
<1> SUFFICES ASSUME NEW s \in Unregistered PROVE s \in R
  OBVIOUS
<1> DEFINE b == Hash[s]
<1>2. b \in Buckets /\ s \in In(b, Unregistered)
  BY <1>1 DEF In
<1>3. IsFiniteSet(In(b, Unregistered)) /\ Cardinality(In(b, Unregistered)) \in Nat
  BY <1>1, InFinite
<1>4. Cardinality(In(b, Unregistered)) <= newEntries[b] /\ newEntries[b] \in Nat
  BY <1>2 DEF NewEntriesCounted, TypeOK
<1>5. Cardinality(In(b, R)) = Cardinality(In(b, Unregistered))
  BY <1>2, <1>3, <1>4 DEF Least
<1>6. In(b, R) \subseteq In(b, Unregistered)
  BY DEF In
<1> HIDE DEF b
<1>7. In(b, R) = In(b, Unregistered)
  BY <1>3, <1>5, <1>6, FS_Subset
<1> QED BY <1>2, <1>7 DEF In

-----------------------------------------------------------------------------
(* The steps: services.                                                    *)

LEMMA TypesNow ==
  ASSUME Inv
  PROVE  /\ table \subseteq Services /\ fresh \subseteq table
         /\ registered \in [Services -> Counts] /\ Known \in States
         /\ newEntries \in [Buckets -> 0..MaxNew]
         /\ view \in [Clients -> SUBSET Services] /\ missed \in [Clients -> SUBSET Services]
         /\ open \in BOOLEAN /\ pending \in BOOLEAN
         /\ \A c \in Clients : c \notin Asked => view[c] = {} /\ missed[c] = {}
         /\ \A s \in Services : registered[s] \in Nat
         /\ \A s \in table \ fresh : registered[s] # 0
         /\ OnePerClient
  BY AskedAre, ClientsFinite DEF Inv, TypeOK, Known, States, Counts, Most, Unregistered

LEMMA InitInv == Init => Inv
<1> SUFFICES ASSUME Init PROVE Inv
  OBVIOUS
<1>1. Len(requests) = 0 /\ requests = <<>> /\ DOMAIN requests = {} /\ Served = {}
  BY DEF Init, Served
<1>2. /\ registered \in [Services -> Counts] /\ newEntries \in [Buckets -> 0..MaxNew]
      /\ view \in [Clients -> SUBSET Services] /\ missed \in [Clients -> SUBSET Services]
      /\ \A c \in Clients : view[c] = {} /\ missed[c] = {}
  BY ClientsFinite DEF Init, Counts
<1>3. table = {} /\ fresh = {} /\ open \in BOOLEAN /\ pending \in BOOLEAN
  BY DEF Init
<1>4. TypeOK
  BY <1>1, <1>2, <1>3 DEF TypeOK, Counts, Most
<1>5. OnePerClient
  BY <1>1 DEF OnePerClient
<1>6. Unregistered = {}
  BY <1>3 DEF Unregistered
<1>7. \A b : In(b, Unregistered) = {}
  BY <1>6 DEF In
<1>8. NewEntriesCounted
  BY <1>2, <1>7, FS_EmptySet DEF NewEntriesCounted
<1> QED BY <1>1, <1>4, <1>5, <1>6, <1>8 DEF Inv

(* A step that leaves the requests alone.                                  *)
LEMMA SameRequests ==
  ASSUME Inv, UNCHANGED requests
  PROVE  /\ OnePerClient' /\ Asked' = Asked /\ Len(requests') = Len(requests)
         /\ \A c : Asks(c)' <=> c \in Asked
         /\ Served' = Served /\ Served \subseteq Clients
         /\ \A i \in DOMAIN requests' : /\ requests'[i].client \in Clients
                                        /\ requests'[i].first \in BOOLEAN
<1>1. OnePerClient
  BY DEF Inv
<1>2. /\ OnePerClient' /\ Asked' = Asked /\ Served' = Served
      /\ \A c : Asks(c)' <=> Asks(c)
  BY <1>1 DEF OnePerClient, Asked, Served, Asks
<1> QED BY <1>1, <1>2, AskedAre DEF Served

LEMMA AddServiceKeepsInv ==
  ASSUME Inv, NEW s \in Services, AddService(s) PROVE Inv'
<1>1. /\ s \notin table /\ newEntries[Hash[s]] < MaxNew
      /\ table' = table \cup {s} /\ fresh' = fresh \cup {s}
      /\ registered' = [registered EXCEPT ![s] = 0]
      /\ newEntries' = [newEntries EXCEPT ![Hash[s]] = @ + 1]
      /\ UNCHANGED open /\ UNCHANGED pending /\ UNCHANGED requests
      /\ UNCHANGED view /\ UNCHANGED missed
  BY DEF AddService
<1>2. Hash[s] \in Buckets
  OBVIOUS
<1>3. /\ registered' \in [Services -> Counts] /\ registered'[s] = 0
      /\ \A t \in table : registered'[t] = registered[t]
  BY <1>1, TypesNow, ClientsFinite DEF Counts
<1>4. /\ newEntries' \in [Buckets -> 0..MaxNew]
      /\ newEntries'[Hash[s]] = newEntries[Hash[s]] + 1
      /\ \A b \in Buckets \ {Hash[s]} : newEntries'[b] = newEntries[b]
  BY <1>1, <1>2, TypesNow
<1>5. TypeOK'
  BY <1>1, <1>3, <1>4, SameRequests, TypesNow DEF TypeOK, Counts, Most
<1>6. Unregistered' = Unregistered \cup {s} /\ s \notin Unregistered
  BY <1>1, <1>3 DEF Unregistered
<1>7. NewEntriesCounted'
  <2> SUFFICES ASSUME NEW b \in Buckets
               PROVE  Cardinality(In(b, Unregistered')) <= newEntries'[b]
    BY DEF NewEntriesCounted, In
  <2>1. IsFiniteSet(In(b, Unregistered)) /\ Cardinality(In(b, Unregistered)) \in Nat
    BY TypesNow, InFinite DEF Unregistered
  <2>2. Cardinality(In(b, Unregistered)) <= newEntries[b] /\ newEntries[b] \in Nat
    BY TypesNow DEF Inv, NewEntriesCounted
  <2>3. CASE b = Hash[s]
    <3>1. In(b, Unregistered') = In(b, Unregistered) \cup {s} /\ s \notin In(b, Unregistered)
      BY <1>6, <2>3 DEF In
    <3>2. Cardinality(In(b, Unregistered')) = Cardinality(In(b, Unregistered)) + 1
      BY <2>1, <3>1, FS_AddElement
    <3> QED BY <1>4, <2>1, <2>2, <2>3, <3>2
  <2>4. CASE b # Hash[s]
    <3>1. In(b, Unregistered') = In(b, Unregistered)
      BY <1>6, <2>4 DEF In
    <3> QED BY <1>4, <2>2, <2>4, <3>1
  <2> QED BY <2>3, <2>4
<1>8. Unregistered' \subseteq fresh'
  BY <1>1, <1>6 DEF Inv
<1>9. ASSUME NEW c \in Served PROVE Right(c)'
  <2>1. Right(c)
    BY <1>9 DEF Inv
  <2>2. table' \ fresh' = table \ fresh
    BY <1>1, TypesNow
  <2> QED BY <1>1, <1>3, <2>1, <2>2 DEF Right, Sound, Shared, Known
<1> QED BY <1>1, <1>5, <1>7, <1>8, <1>9, SameRequests DEF Inv

LEMMA StartServingKeepsInv ==
  ASSUME Inv, StartServing PROVE Inv'
<1>1. PICK R \in SUBSET Unregistered :
        /\ \A b \in Buckets :
             Cardinality(In(b, R)) = Least(newEntries[b], Cardinality(In(b, Unregistered)))
        /\ registered' = [s \in Services |-> IF s \in R THEN 1 ELSE registered[s]]
        /\ newEntries' = [b \in Buckets |-> Minus(newEntries[b], Cardinality(In(b, R)))]
        /\ pending' = TRUE /\ fresh' = {}
        /\ UNCHANGED table /\ UNCHANGED open /\ UNCHANGED requests
        /\ UNCHANGED view /\ UNCHANGED missed
  BY DEF StartServing
<1>2. R = Unregistered
  BY <1>1, AllFound DEF Inv
<1>3. /\ registered' \in [Services -> Counts]
      /\ \A s \in table : registered'[s] = IF registered[s] = 0 THEN 1 ELSE registered[s]
  BY <1>1, <1>2, TypesNow, ClientsFinite DEF Counts, Unregistered
<1>4. newEntries' \in [Buckets -> 0..MaxNew]
  BY <1>1, MinusIs DEF Inv, Unregistered
<1>5. TypeOK'
  BY <1>1, <1>3, <1>4, SameRequests, TypesNow DEF TypeOK, Counts, Most
<1>6. Unregistered' = {}
  <2>1. table' = table
    BY <1>1
  <2>2. \A t \in table : registered'[t] # 0
    BY <1>3
  <2> QED BY <2>1, <2>2 DEF Unregistered
<1>7. NewEntriesCounted'
  BY <1>4, <1>6, NoneUnregistered
<1>8. ASSUME NEW c \in Served PROVE Right(c)'
  <2>1. Right(c)
    BY <1>8 DEF Inv
  <2>2. \A s \in table : registered'[s] > 1 => registered[s] > 1
    BY <1>3, TypesNow
  <2> QED BY <1>1, <2>1, <2>2 DEF Right, Sound, Shared, Known
<1> QED BY <1>1, <1>5, <1>6, <1>7, <1>8, SameRequests DEF Inv

LEMMA RegisterAllKeepsInv ==
  ASSUME Inv, RegisterAll PROVE Inv'
<1>1. /\ open' = TRUE
      /\ registered' = [s \in Services |-> IF s \in table THEN 1 ELSE registered[s]]
      /\ newEntries' = [b \in Buckets |-> Minus(newEntries[b], Cardinality(In(b, table)))]
      /\ UNCHANGED table /\ UNCHANGED pending /\ UNCHANGED requests
      /\ UNCHANGED view /\ UNCHANGED missed /\ UNCHANGED fresh
  BY DEF RegisterAll
<1>2. registered' \in [Services -> Counts] /\ \A s \in table : registered'[s] = 1
  BY <1>1, TypesNow, ClientsFinite DEF Counts
<1>3. newEntries' \in [Buckets -> 0..MaxNew]
  BY <1>1, MinusIs DEF Inv
<1>4. TypeOK'
  BY <1>1, <1>2, <1>3, SameRequests, TypesNow DEF TypeOK, Counts, Most
<1>5. Unregistered' = {}
  BY <1>1, <1>2 DEF Unregistered
<1>6. NewEntriesCounted'
  BY <1>3, <1>5, NoneUnregistered
<1>7. ASSUME NEW c \in Served PROVE Right(c)'
  <2>1. Right(c)
    BY <1>7 DEF Inv
  <2> QED BY <1>1, <1>2, <2>1 DEF Right, Sound, Shared, Known
<1> QED BY <1>1, <1>4, <1>5, <1>6, <1>7, SameRequests DEF Inv

LEMMA LoseNameServerKeepsInv ==
  ASSUME Inv, LoseNameServer PROVE Inv'
<1>1. /\ open' = FALSE /\ UNCHANGED table /\ UNCHANGED registered /\ UNCHANGED newEntries
      /\ UNCHANGED pending /\ UNCHANGED requests /\ UNCHANGED view /\ UNCHANGED missed
      /\ UNCHANGED fresh
  BY DEF LoseNameServer
<1>2. TypeOK'
  BY <1>1, SameRequests, TypesNow DEF TypeOK, Counts, Most
<1>3. Unregistered' = Unregistered
  BY <1>1 DEF Unregistered
<1>4. NewEntriesCounted'
  BY <1>1, <1>3, FewerUnregistered DEF Inv
<1>5. \A c : Right(c)' <=> Right(c)
  BY <1>1 DEF Right, Sound, Shared, Known
<1> QED BY <1>1, <1>2, <1>3, <1>4, <1>5, SameRequests DEF Inv

LEMMA RemoveQuietlyKeepsInv ==
  ASSUME Inv, NEW s \in Services, RemoveQuietly(s) PROVE Inv'
<1>1. /\ s \in table /\ table' = table \ {s} /\ fresh' = fresh \ {s}
      /\ registered' = [registered EXCEPT ![s] = 0]
      /\ missed' = [c \in Clients |-> missed[c] \cup ({s} \cap view[c])]
      /\ UNCHANGED newEntries /\ UNCHANGED open /\ UNCHANGED pending
      /\ UNCHANGED requests /\ UNCHANGED view
  BY DEF RemoveQuietly
<1>2. /\ registered' \in [Services -> Counts]
      /\ \A t \in table' : registered'[t] = registered[t]
  BY <1>1, TypesNow, ClientsFinite DEF Counts
<1>3. /\ missed' \in [Clients -> SUBSET Services]
      /\ \A c \in Clients : missed'[c] = missed[c] \cup ({s} \cap view[c])
  BY <1>1, TypesNow
<1>4. TypeOK'
  BY <1>1, <1>2, <1>3, SameRequests, TypesNow DEF TypeOK, Counts, Most
<1>5. Unregistered' \subseteq Unregistered
  BY <1>1, <1>2 DEF Unregistered
<1>6. NewEntriesCounted'
  BY <1>1, <1>5, FewerUnregistered DEF Inv
<1>7. Unregistered' \subseteq fresh'
  BY <1>1, <1>5 DEF Inv, Unregistered
<1>8. ASSUME NEW c \in Served PROVE Right(c)'
  <2>1. Right(c) /\ c \in Clients
    BY <1>1, <1>8, SameRequests DEF Inv
  <2> QED BY <1>1, <1>2, <1>3, <2>1 DEF Right, Sound, Shared, Known
<1> QED BY <1>1, <1>4, <1>6, <1>7, <1>8, SameRequests DEF Inv

-----------------------------------------------------------------------------
(* The steps: updates.                                                     *)

LEMMA StageBegins ==
  ASSUME Inv, NEW k \in States, k.view = view, k.missed = missed,
         \A s \in table : k.registered[s] > 1 => registered[s] > 1
  PROVE  Stage(k, k, 0)
<1>1. \A c \in Clients \ Asked : k.view[c] = {} /\ k.missed[c] = {}
  BY TypesNow
<1>2. ASSUME NEW j \in 1..Len(requests), ~requests[j].first
      PROVE  Sound(k, requests[j].client) /\ Shared(k, requests[j].client, 1)
  <2>1. Right(requests[j].client)
    BY <1>2, AskedAre, TypesNow DEF Inv, Served
  <2> QED BY <2>1 DEF Right, Sound, Shared, Known
<1>3. \A j \in 1..Len(requests) :
        LET c == requests[j].client IN
          IF j <= 0 THEN Told(k, c)
                    ELSE requests[j].first \/ (Sound(k, c) /\ Shared(k, c, 0 + 1))
  BY <1>2
<1> QED BY <1>1, <1>3 DEF Stage

(* The requests after an update, all served now.                           *)
LEMMA RequestsServed ==
  ASSUME Inv, requests' = [i \in DOMAIN requests |-> [requests[i] EXCEPT !.first = FALSE]]
  PROVE  /\ OnePerClient' /\ Asked' = Asked /\ Served' \subseteq Asked
         /\ \A c : Asks(c)' <=> c \in Asked
         /\ \A i \in DOMAIN requests' :
              /\ requests'[i].client \in Clients /\ requests'[i].first \in BOOLEAN
<1>1. OnePerClient /\ Len(requests) \in Nat /\ DOMAIN requests = 1..Len(requests)
  BY AskedAre, TypesNow
<1>2. \A i \in 1..Len(requests) : requests[i] \in RequestRecords
  BY <1>1, AskedAre
<1>3. \A i \in 1..Len(requests) :
        /\ requests'[i] \in RequestRecords /\ requests'[i].client = requests[i].client
        /\ requests'[i].client \in Clients /\ requests'[i].first \in BOOLEAN
  BY <1>1, <1>2 DEF RequestRecords
<1>4. requests' \in Seq(RequestRecords) /\ Len(requests') = Len(requests)
      /\ DOMAIN requests' = 1..Len(requests)
  <2>1. requests' = [i \in 1..Len(requests) |-> requests'[i]]
    BY <1>1
  <2> QED BY <1>1, <1>3, <2>1
<1>5. OnePerClient'
  BY <1>1, <1>3, <1>4 DEF OnePerClient
<1>6. Asked' = Asked
  BY <1>1, <1>3, <1>4 DEF Asked
<1> QED BY <1>1, <1>3, <1>4, <1>5, <1>6 DEF Asks, Asked, Served

LEMMA UpdateIs ==
  ASSUME Inv, NEW k, Stage(k, k, 0), Update(k)
  PROVE  /\ registered' \in [Services -> Counts] /\ pending' = k.pending
         /\ view' \in [Clients -> SUBSET Services] /\ missed' \in [Clients -> SUBSET Services]
         /\ \A s \in table : registered'[s] = 0 <=> s \in Gone(k)
         /\ \A c \in Clients \ Asked : view'[c] = {} /\ missed'[c] = {}
         /\ \A c \in Asked : /\ view'[c] \subseteq table \cup missed'[c]
                             /\ table \ Gone(k) \subseteq view'[c] \cup missed'[c]
                             /\ view'[c] \cap Gone(k) = {}
<1>1. PICK q : q = Updated(k)
  OBVIOUS
<1>2. Stage(k, q, Len(requests))
  BY <1>1, TypesNow, UpdatedStage
<1>3. registered' = q.registered /\ pending' = q.pending /\ view' = q.view /\ missed' = q.missed
  BY <1>1 DEF Update, Become
<1>4. q \in States /\ q.pending = k.pending /\ Gone(q) = Gone(k)
  BY <1>2 DEF Stage
<1>5. \A s \in table : registered'[s] = 0 <=> s \in Gone(k)
  BY <1>3, <1>4 DEF Gone
<1>6. \A c \in Asked : Told(q, c)
  BY <1>2, TypesNow, AskedAre DEF Stage, Asked
<1> QED BY <1>2, <1>3, <1>4, <1>5, <1>6 DEF Stage, Told, Sound, States

LEMMA UpdateListKeepsInv ==
  ASSUME Inv, UpdateList PROVE Inv'
<1> DEFINE k == [Known EXCEPT !.pending = FALSE]
<1>1. /\ Update(k) /\ UNCHANGED table /\ UNCHANGED newEntries /\ UNCHANGED open
      /\ UNCHANGED fresh
  BY DEF UpdateList
<1>2. /\ k \in States /\ k.registered = registered /\ k.view = view /\ k.missed = missed
      /\ k.pending = FALSE
  BY TypesNow DEF Known, States
<1> HIDE DEF k
<1>3. Stage(k, k, 0)
  BY <1>2, StageBegins
<1>4. requests' = [i \in DOMAIN requests |-> [requests[i] EXCEPT !.first = FALSE]]
  BY <1>1 DEF Update
<1>5. TypeOK'
  BY <1>1, <1>2, <1>3, <1>4, UpdateIs, RequestsServed, TypesNow DEF TypeOK, Counts, Most
<1>6. \A s \in table : registered'[s] = 0 <=> registered[s] = 0
  BY <1>1, <1>2, <1>3, UpdateIs DEF Gone
<1>7. Unregistered' = Unregistered
  BY <1>1, <1>6 DEF Unregistered
<1>8. NewEntriesCounted'
  BY <1>1, <1>7, FewerUnregistered DEF Inv
<1>9. \A c \in Asked : Right(c)'
  <2>1. \A s \in table : registered'[s] > 1 => s \in table \ Gone(k)
    BY <1>2, <1>6 DEF Gone
  <2>2. table \ fresh \subseteq table \ Gone(k)
    BY <1>2, TypesNow DEF Gone
  <2> QED BY <1>1, <1>3, <2>1, <2>2, UpdateIs DEF Right, Sound, Shared, Known
<1>10. Unregistered' \subseteq fresh'
  BY <1>1, <1>7 DEF Inv
<1>11. OnePerClient' /\ \A c \in Served' : Right(c)'
  BY <1>4, <1>9, RequestsServed
<1> QED BY <1>5, <1>8, <1>10, <1>11 DEF Inv

LEMMA RemoveServiceKeepsInv ==
  ASSUME Inv, NEW s \in Services, RemoveService(s) PROVE Inv'
<1> DEFINE k == [Known EXCEPT !.registered[s] = 0]
<1>1. /\ Update(k) /\ UNCHANGED newEntries /\ UNCHANGED open
      /\ s \in table /\ table' = table \ {s} /\ fresh' = fresh \ {s}
  BY DEF RemoveService
<1>2. /\ k.registered = [registered EXCEPT ![s] = 0] /\ k.view = view /\ k.missed = missed
      /\ k.pending = pending
  BY DEF Known
<1>3. k.registered \in [Services -> Counts]
  <2>1. registered \in [Services -> Counts] /\ 0 \in Counts
    BY TypesNow, ClientsFinite DEF Counts
  <2> HIDE DEF k
  <2> QED BY <1>2, <2>1
<1>4. k \in States
  BY <1>3, TypesNow DEF Known, States
<1> HIDE DEF k
<1>5. Gone(k) = Unregistered \cup {s}
  BY <1>1, <1>2, TypesNow DEF Gone, Unregistered
<1>6. \A t \in table : k.registered[t] > 1 => registered[t] > 1
  BY <1>2, TypesNow
<1>7. Stage(k, k, 0)
  BY <1>2, <1>4, <1>6, StageBegins
<1>8. requests' = [i \in DOMAIN requests |-> [requests[i] EXCEPT !.first = FALSE]]
  BY <1>1 DEF Update
<1>9. TypeOK'
  BY <1>1, <1>2, <1>7, <1>8, UpdateIs, RequestsServed, TypesNow DEF TypeOK, Counts, Most
<1>10. Unregistered' \subseteq Unregistered
  BY <1>1, <1>5, <1>7, UpdateIs DEF Unregistered
<1>11. NewEntriesCounted'
  BY <1>1, <1>10, FewerUnregistered DEF Inv
<1>12. \A c \in Asked : Right(c)'
  <2>1. \A t \in table' : registered'[t] > 1 => t \in table \ Gone(k)
    BY <1>1, <1>7, UpdateIs
  <2>2. table' \ fresh' \subseteq table \ Gone(k)
    BY <1>1, <1>5, TypesNow DEF Unregistered
  <2> QED BY <1>1, <1>5, <1>7, <2>1, <2>2, UpdateIs DEF Right, Sound, Shared, Known
<1>13. Unregistered' \subseteq fresh'
  BY <1>1, <1>10 DEF Inv, Unregistered
<1>14. OnePerClient' /\ \A c \in Served' : Right(c)'
  BY <1>8, <1>12, RequestsServed
<1> QED BY <1>9, <1>11, <1>13, <1>14 DEF Inv

-----------------------------------------------------------------------------
(* The steps: clients.                                                     *)

LEMMA OneMoreRequest ==
  ASSUME Inv, NEW c \in Clients, ~Asks(c), NEW first \in BOOLEAN,
         requests' = Append(requests, Request(c, first))
  PROVE  /\ OnePerClient' /\ Asked' = Asked \cup {c} /\ c \notin Asked
         /\ Served' = IF first THEN Served ELSE Served \cup {c}
         /\ \A d : Asks(d)' <=> d \in Asked'
         /\ \A i \in DOMAIN requests' :
              requests'[i].client \in Clients /\ requests'[i].first \in BOOLEAN
<1> DEFINE n == Len(requests)
<1>1. OnePerClient /\ n \in Nat /\ DOMAIN requests = 1..n
  BY AskedAre, TypesNow
<1>2. Request(c, first) \in RequestRecords
  BY DEF Request, RequestRecords
<1>3. /\ requests' \in Seq(RequestRecords) /\ Len(requests') = n + 1
      /\ DOMAIN requests' = 1..(n + 1)
      /\ \A i \in 1..n : requests'[i] = requests[i]
      /\ requests'[n + 1] = Request(c, first)
  BY <1>1, <1>2 DEF OnePerClient
<1>4. requests'[n + 1].client = c /\ requests'[n + 1].first = first
  BY <1>3 DEF Request
<1>5. c \notin Asked /\ \A i \in 1..n : requests[i].client # c
  BY <1>1 DEF Asks, Asked
<1> HIDE DEF n
<1>6. \A i \in 1..(n + 1) : i \in 1..n \/ i = n + 1
  BY <1>1
<1>7. \A i \in 1..n : requests'[i].client = requests[i].client
                   /\ requests'[i].first = requests[i].first
  BY <1>3
<1>8. \A i, j \in 1..(n + 1) : requests'[i].client = requests'[j].client => i = j
  BY <1>1, <1>4, <1>5, <1>6, <1>7 DEF OnePerClient, n
<1>9. OnePerClient'
  BY <1>3, <1>8 DEF OnePerClient
<1>10. n + 1 \in 1..(n + 1) /\ 1..n \subseteq 1..(n + 1)
  BY <1>1
<1>11. Asked' = Asked \cup {c}
  BY <1>1, <1>3, <1>4, <1>6, <1>7, <1>10 DEF Asked
<1>12. Served' = IF first THEN Served ELSE Served \cup {c}
  <2>1. \A x : x \in Served' <=> \E i \in 1..(n + 1) : ~requests'[i].first /\ x = requests'[i].client
    BY <1>3 DEF Served
  <2>2. \A x : x \in Served <=> \E i \in 1..n : ~requests[i].first /\ x = requests[i].client
    BY <1>1 DEF Served
  <2>3. \A x : x \in Served' <=> x \in Served \/ (~first /\ x = c)
    <3>1. ASSUME NEW x \in Served' PROVE x \in Served \/ (~first /\ x = c)
      <4>1. PICK i \in 1..(n + 1) : ~requests'[i].first /\ x = requests'[i].client
        BY <2>1
      <4>2. CASE i \in 1..n
        BY <1>7, <2>2, <4>1, <4>2
      <4>3. CASE i = n + 1
        BY <1>4, <4>1, <4>3
      <4> QED BY <1>6, <4>2, <4>3
    <3>2. ASSUME NEW x \in Served PROVE x \in Served'
      <4>1. PICK i \in 1..n : ~requests[i].first /\ x = requests[i].client
        BY <2>2
      <4>2. i \in 1..(n + 1) /\ ~requests'[i].first /\ x = requests'[i].client
        BY <1>7, <1>10, <4>1
      <4> QED BY <2>1, <4>2
    <3>3. ~first => c \in Served'
      BY <1>4, <1>10, <2>1
    <3> QED BY <3>1, <3>2, <3>3
  <2> QED BY <2>3
<1>13. \A i \in DOMAIN requests' : requests'[i] \in RequestRecords
  BY <1>3
<1> QED BY <1>5, <1>9, <1>11, <1>12, <1>13 DEF Asks, Asked, RequestRecords

LEMMA OneRequestLess ==
  ASSUME Inv, NEW i \in DOMAIN requests, requests' = RemoveAt(requests, i)
  PROVE  /\ OnePerClient' /\ Asked' \subseteq Asked \ {requests[i].client}
         /\ Asked \ {requests[i].client} \subseteq Asked'
         /\ Served' \subseteq Served \ {requests[i].client}
         /\ \A d : Asks(d)' <=> d \in Asked'
         /\ \A j \in DOMAIN requests' :
              requests'[j].client \in Clients /\ requests'[j].first \in BOOLEAN
<1> DEFINE n == Len(requests)
           s == requests
           x == SubSeq(s, 1, i - 1)
           y == SubSeq(s, i + 1, Len(s))
<1>1. /\ OnePerClient /\ n \in Nat /\ DOMAIN requests = 1..n /\ i \in 1..n
      /\ s \in Seq(RequestRecords) /\ Len(s) = n /\ \A j \in 1..Len(s) : s[j] \in RequestRecords
  BY AskedAre, TypesNow DEF OnePerClient
<1>2. x \in Seq(RequestRecords) /\ Len(x) = i - 1 /\ \A j \in 1..Len(x) : x[j] = s[j]
  <2>1. 1 \in Int /\ i - 1 \in Int /\ \A j \in 1..(i - 1) : s[j] \in RequestRecords
    BY <1>1
  <2>2. /\ x \in Seq(RequestRecords) /\ Len(x) = IF 1 <= i - 1 THEN (i - 1) - 1 + 1 ELSE 0
        /\ \A j \in 1..((i - 1) - 1 + 1) : x[j] = s[1 + j - 1]
    BY <2>1, SubSeqProperties
  <2> HIDE DEF x
  <2> QED BY <1>1, <2>2
<1>3. y \in Seq(RequestRecords) /\ Len(y) = n - i /\ \A j \in 1..Len(y) : y[j] = s[j + i]
  <2>1. i + 1 \in Int /\ Len(s) \in Int /\ \A j \in (i + 1)..Len(s) : s[j] \in RequestRecords
    BY <1>1
  <2>2. /\ y \in Seq(RequestRecords)
        /\ Len(y) = IF i + 1 <= Len(s) THEN Len(s) - (i + 1) + 1 ELSE 0
        /\ \A j \in 1..(Len(s) - (i + 1) + 1) : y[j] = s[(i + 1) + j - 1]
    BY <2>1, SubSeqProperties
  <2> HIDE DEF y
  <2>3. Len(y) = n - i
    BY <1>1, <2>2
  <2>4. ASSUME NEW j \in 1..Len(y) PROVE y[j] = s[j + i]
    <3>1. j \in 1..(Len(s) - (i + 1) + 1) /\ (i + 1) + j - 1 = j + i
      BY <1>1, <2>3
    <3> QED BY <2>2, <3>1
  <2> QED BY <2>2, <2>3, <2>4
<1>4. requests' = x \o y
  BY DEF RemoveAt
<1> HIDE DEF x, y
<1>5. /\ requests' \in Seq(RequestRecords) /\ Len(requests') = n - 1
      /\ DOMAIN requests' = 1..(n - 1)
      /\ \A j \in 1..(n - 1) : requests'[j] = IF j < i THEN s[j] ELSE s[j + 1]
  <2>1. /\ requests' \in Seq(RequestRecords) /\ Len(requests') = Len(x) + Len(y)
        /\ \A j \in 1..(Len(x) + Len(y)) :
             requests'[j] = IF j <= Len(x) THEN x[j] ELSE y[j - Len(x)]
    <3>1. PICK u : u = x \o y
      OBVIOUS
    <3>2. /\ u \in Seq(RequestRecords) /\ Len(u) = Len(x) + Len(y)
          /\ \A j \in 1..(Len(x) + Len(y)) : u[j] = IF j <= Len(x) THEN x[j] ELSE y[j - Len(x)]
      BY <1>2, <1>3, <3>1, ConcatProperties
    <3>3. requests' = u
      BY <1>4, <3>1
    <3> QED BY <3>2, <3>3
  <2>2. Len(x) + Len(y) = n - 1
    BY <1>1, <1>2, <1>3
  <2>3. DOMAIN requests' = 1..(n - 1)
    BY <2>1, <2>2
  <2>4. ASSUME NEW j \in 1..(n - 1) PROVE requests'[j] = IF j < i THEN s[j] ELSE s[j + 1]
    <3>1. requests'[j] = IF j <= Len(x) THEN x[j] ELSE y[j - Len(x)]
      BY <2>1, <2>2
    <3>2. CASE j < i
      <4>1. j <= Len(x) /\ j \in 1..Len(x)
        BY <1>1, <1>2, <3>2
      <4> QED BY <1>2, <3>1, <3>2, <4>1
    <3>3. CASE ~(j < i)
      <4>1. ~(j <= Len(x)) /\ j - Len(x) \in 1..Len(y) /\ j - Len(x) + i = j + 1
        BY <1>1, <1>2, <1>3, <3>3
      <4>2. y[j - Len(x)] = s[j - Len(x) + i]
        BY <1>3, <4>1, Zenon
      <4> QED BY <3>1, <3>3, <4>1, <4>2
    <3> QED BY <3>2, <3>3
  <2> QED BY <2>1, <2>2, <2>3, <2>4
<1> HIDE DEF n
<1>6. \A j \in 1..(n - 1) : \E l \in 1..n : /\ l = IF j < i THEN j ELSE j + 1
                                           /\ requests'[j] = requests[l] /\ l # i
  BY <1>1, <1>5
<1>7. \A l \in 1..n : l # i => \E j \in 1..(n - 1) : requests'[j] = requests[l]
  <2> SUFFICES ASSUME NEW l \in 1..n, l # i
               PROVE  \E j \in 1..(n - 1) : requests'[j] = requests[l]
    OBVIOUS
  <2>1. CASE l < i
    <3>1. l \in 1..(n - 1) /\ requests'[l] = requests[l]
      BY <1>1, <1>5, <2>1
    <3> QED BY <3>1
  <2>2. CASE l > i
    <3>1. l - 1 \in 1..(n - 1) /\ requests'[l - 1] = requests[l]
      BY <1>1, <1>5, <2>2
    <3> QED BY <3>1
  <2> QED BY <1>1, <2>1, <2>2
<1>8. \A j, l \in 1..n : requests[j].client = requests[l].client => j = l
  BY <1>1 DEF OnePerClient, n
<1>9. \A j, l \in 1..(n - 1) : requests'[j].client = requests'[l].client => j = l
  BY <1>1, <1>6, <1>8
<1>10. OnePerClient'
  BY <1>5, <1>9 DEF OnePerClient
<1>11. Asked' \subseteq Asked \ {requests[i].client}
  <2> SUFFICES ASSUME NEW a \in Asked' PROVE a \in Asked /\ a # requests[i].client
    OBVIOUS
  <2>1. PICK j \in 1..(n - 1) : a = requests'[j].client
    BY <1>5 DEF Asked
  <2>2. PICK l \in 1..n : requests'[j] = requests[l] /\ l # i
    BY <1>6
  <2> QED BY <1>1, <1>8, <2>1, <2>2 DEF Asked
<1>12. Asked \ {requests[i].client} \subseteq Asked'
  <2> SUFFICES ASSUME NEW a \in Asked, a # requests[i].client PROVE a \in Asked'
    OBVIOUS
  <2>1. PICK l \in 1..n : a = requests[l].client
    BY <1>1 DEF Asked
  <2>2. PICK j \in 1..(n - 1) : requests'[j] = requests[l]
    BY <1>7, <2>1
  <2>3. DOMAIN requests' = 1..(n - 1)
    BY <1>5
  <2> QED BY <2>1, <2>2, <2>3 DEF Asked
<1>13. Served' \subseteq Served \ {requests[i].client}
  <2> SUFFICES ASSUME NEW a \in Served' PROVE a \in Served /\ a # requests[i].client
    OBVIOUS
  <2>1. PICK j \in 1..(n - 1) : a = requests'[j].client /\ ~requests'[j].first
    BY <1>5 DEF Served
  <2>2. PICK l \in 1..n : requests'[j] = requests[l] /\ l # i
    BY <1>6
  <2> QED BY <1>1, <1>8, <2>1, <2>2 DEF Served
<1>14. \A j \in DOMAIN requests' : requests'[j] \in RequestRecords
  BY <1>5
<1> QED BY <1>10, <1>11, <1>12, <1>13, <1>14 DEF Asks, Asked, RequestRecords

LEMMA LeaveKeepsInv ==
  ASSUME Inv, NEW c \in Clients, Leave(c) PROVE Inv'
<1>1. PICK i \in DOMAIN requests :
        requests[i].client = c /\ requests' = RemoveAt(requests, i)
  BY DEF Leave
<1>2. /\ view' = [view EXCEPT ![c] = {}] /\ missed' = [missed EXCEPT ![c] = {}]
      /\ UNCHANGED table /\ UNCHANGED registered /\ UNCHANGED newEntries
      /\ UNCHANGED open /\ UNCHANGED pending /\ UNCHANGED fresh
  BY DEF Leave
<1>3. /\ view' \in [Clients -> SUBSET Services] /\ missed' \in [Clients -> SUBSET Services]
      /\ view'[c] = {} /\ missed'[c] = {}
      /\ \A d \in Clients \ {c} : view'[d] = view[d] /\ missed'[d] = missed[d]
  BY <1>2, TypesNow
<1>4. /\ OnePerClient' /\ Asked' = Asked \ {c} /\ Served' \subseteq Served \ {c}
      /\ \A d : Asks(d)' <=> d \in Asked'
      /\ \A j \in DOMAIN requests' :
           requests'[j].client \in Clients /\ requests'[j].first \in BOOLEAN
  BY <1>1, OneRequestLess
<1>5. TypeOK'
  BY <1>2, <1>3, <1>4, TypesNow DEF TypeOK, Counts, Most
<1>6. Unregistered' = Unregistered
  BY <1>2 DEF Unregistered
<1>7. NewEntriesCounted'
  BY <1>2, <1>6, FewerUnregistered DEF Inv
<1>8. Served \subseteq Clients
  BY TypesNow, AskedAre DEF Served
<1>9. ASSUME NEW d \in Served' PROVE Right(d)'
  <2>1. Right(d) /\ d \in Clients \ {c}
    BY <1>4, <1>8 DEF Inv
  <2> QED BY <1>2, <1>3, <2>1 DEF Right, Sound, Shared, Known
<1> QED BY <1>2, <1>4, <1>5, <1>6, <1>7, <1>9 DEF Inv

LEMMA SubscribeLaterKeepsInv ==
  ASSUME Inv, NEW c \in Clients, SubscribeLater(c) PROVE Inv'
<1>1. /\ ~Asks(c) /\ requests' = Append(requests, Request(c, TRUE))
      /\ UNCHANGED table /\ UNCHANGED registered /\ UNCHANGED newEntries
      /\ UNCHANGED open /\ UNCHANGED pending /\ UNCHANGED view /\ UNCHANGED missed
      /\ UNCHANGED fresh
  BY DEF SubscribeLater
<1>2. /\ OnePerClient' /\ Asked' = Asked \cup {c} /\ Served' = Served
      /\ \A d : Asks(d)' <=> d \in Asked'
      /\ \A i \in DOMAIN requests' :
           requests'[i].client \in Clients /\ requests'[i].first \in BOOLEAN
  BY <1>1, OneMoreRequest
<1>3. TypeOK'
  BY <1>1, <1>2, TypesNow DEF TypeOK, Counts, Most
<1>4. Unregistered' = Unregistered
  BY <1>1 DEF Unregistered
<1>5. NewEntriesCounted'
  BY <1>1, <1>4, FewerUnregistered DEF Inv
<1>6. \A d \in Served : Right(d)'
  BY <1>1 DEF Inv, Right, Sound, Shared, Known
<1> QED BY <1>1, <1>2, <1>3, <1>4, <1>5, <1>6 DEF Inv

(* The whole list goes to C, when an update will tell the others what it   *)
(* leaves out, or it is noted that they will not hear of it.               *)
LEMMA WholeListTold ==
  ASSUME Inv, NEW C \in SUBSET (Clients \ Served), NEW n \in Nat, n <= Most,
         NEW late, late \/ (pending /\ n > 1) \/ Served = {},
         Become(WholeList(Known, C, n, late)), late \/ pending
  PROVE  /\ registered' \in [Services -> Counts] /\ pending' = pending
         /\ view' \in [Clients -> SUBSET Services] /\ missed' \in [Clients -> SUBSET Services]
         /\ \A s \in table : registered'[s] = 0 <=> registered[s] = 0
         /\ \A c \in Clients \ (Asked \cup C) : view'[c] = {} /\ missed'[c] = {}
         /\ \A c \in C \cup Served :
              /\ view'[c] \subseteq table \cup missed'[c]
              /\ \A s \in table : registered'[s] > 1 => s \in view'[c] \cup missed'[c]
              /\ ~pending => table \ fresh \subseteq view'[c] \cup missed'[c]
<1> DEFINE r == WholeList(Known, C, n, late)
           listed == Listed(Known, n)
<1>1. /\ table \subseteq Services /\ Known \in States /\ registered \in [Services -> Counts]
      /\ \A s \in Services : registered[s] \in Nat
      /\ \A s \in table \ fresh : registered[s] # 0
      /\ \A c \in Clients \ Asked : view[c] = {} /\ missed[c] = {}
      /\ \A c : c \in Asked <=> Asks(c)
      /\ Served \subseteq Asked /\ Asked \subseteq Clients
  BY TypesNow, AskedAre DEF Asked, Served
<1>2. C \in SUBSET Clients
  OBVIOUS
<1>3. IsListed(r, Known, C, n, late, listed)
  BY <1>1, <1>2, WholeListIs, Zenon
<1>4. listed = {s \in table : registered[s] # 0 /\ ~(pending /\ n > 1 /\ registered[s] = 1)}
  BY DEF Listed, Known
<1>5. /\ registered' = r.registered /\ pending' = r.pending
      /\ view' = r.view /\ missed' = r.missed
  BY DEF Become
<1> HIDE DEF r, listed
<1>6. /\ registered' \in [Services -> Counts] /\ pending' = pending
      /\ view' \in [Clients -> SUBSET Services] /\ missed' \in [Clients -> SUBSET Services]
  BY <1>3, <1>5 DEF IsListed, States, Known
<1>7. \A s \in table : registered'[s] = IF s \in listed THEN n + 1 ELSE registered[s]
  BY <1>1, <1>3, <1>5 DEF IsListed, Known
<1>8. \A c \in C : /\ view'[c] = listed
                   /\ missed'[c] = IF late THEN (table \ Gone(Known)) \ listed ELSE {}
  BY <1>3, <1>5 DEF IsListed
<1>9. \A c \in Clients \ C :
        /\ view'[c] = view[c]
        /\ missed'[c] = missed[c] \cup (IF late /\ Asks(c) THEN listed \ view[c] ELSE {})
  BY <1>3, <1>5 DEF IsListed, Known
<1>10. \A s \in table : registered'[s] = 0 <=> registered[s] = 0
  BY <1>1, <1>4, <1>7
<1>11. \A c \in Clients \ (Asked \cup C) : view'[c] = {} /\ missed'[c] = {}
  BY <1>1, <1>9
<1>12. ASSUME NEW c \in C
       PROVE  /\ view'[c] \subseteq table \cup missed'[c]
              /\ \A s \in table : registered'[s] > 1 => s \in view'[c] \cup missed'[c]
              /\ ~pending => table \ fresh \subseteq view'[c] \cup missed'[c]
  <2>1. \A s \in table : s \notin listed => registered[s] <= 1
    BY <1>1, <1>4
  <2>2. \A s \in table : registered'[s] > 1 => s \in listed
    BY <1>1, <1>7, <2>1
  <2>3. ~pending => table \ fresh \subseteq listed
    BY <1>1, <1>4
  <2> QED BY <1>4, <1>8, <2>2, <2>3
<1>13. ASSUME NEW c \in Served
       PROVE  /\ view'[c] \subseteq table \cup missed'[c]
              /\ \A s \in table : registered'[s] > 1 => s \in view'[c] \cup missed'[c]
              /\ ~pending => table \ fresh \subseteq view'[c] \cup missed'[c]
  <2>1. Right(c) /\ c \in Clients \ C /\ Asks(c)
    BY <1>1 DEF Inv
  <2>2. /\ view[c] \subseteq table \cup missed[c]
        /\ \A s \in table : registered[s] > 1 => s \in view[c] \cup missed[c]
        /\ ~pending => table \ fresh \subseteq view[c] \cup missed[c]
    BY <2>1 DEF Right, Sound, Shared, Known
  <2>3. view'[c] = view[c] /\ missed[c] \subseteq missed'[c]
        /\ (late => listed \subseteq view'[c] \cup missed'[c])
    BY <1>9, <2>1
  <2>4. ~late => \A s \in listed : registered[s] > 1
    BY <1>1, <1>4
  <2>5. \A s \in table : registered'[s] > 1 => s \in view'[c] \cup missed'[c]
    BY <1>7, <2>2, <2>3, <2>4
  <2> QED BY <2>2, <2>3, <2>5
<1> QED BY <1>6, <1>10, <1>11, <1>12, <1>13

LEMMA SubscribeKeepsInv ==
  ASSUME Inv, NEW c \in Clients, Subscribe(c) PROVE Inv'
<1> DEFINE n == Len(requests) + 1
<1>1. /\ ~Asks(c) /\ requests' = Append(requests, Request(c, FALSE))
      /\ Become(WholeList(Known, {c}, n, ~pending))
      /\ UNCHANGED table /\ UNCHANGED newEntries /\ UNCHANGED open /\ UNCHANGED fresh
  BY DEF Subscribe, NClients
<1>2. /\ OnePerClient' /\ Asked' = Asked \cup {c} /\ c \notin Asked
      /\ Served' = Served \cup {c} /\ \A d : Asks(d)' <=> d \in Asked'
      /\ \A i \in DOMAIN requests' :
           requests'[i].client \in Clients /\ requests'[i].first \in BOOLEAN
  BY <1>1, OneMoreRequest
<1>3. n \in Nat /\ n <= Most
  <2>1. Len(requests') = n
    BY <1>1, AskedAre, TypesNow DEF OnePerClient
  <2>2. Len(requests') <= Cardinality(Clients)
    BY <1>2, RequestsFew DEF OnePerClient
  <2> QED BY <2>1, <2>2, AskedAre, TypesNow DEF Most
<1>4. Served \subseteq Asked
  BY DEF Served, Asked
<1>5. ~pending \/ (pending /\ n > 1) \/ Served = {}
  BY AskedAre, TypesNow DEF Served
<1>6. {c} \in SUBSET (Clients \ Served) /\ (~pending \/ pending)
  BY <1>2, <1>4
<1> HIDE DEF n
<1>7. /\ registered' \in [Services -> Counts] /\ pending' = pending
      /\ view' \in [Clients -> SUBSET Services] /\ missed' \in [Clients -> SUBSET Services]
      /\ \A s \in table : registered'[s] = 0 <=> registered[s] = 0
      /\ \A d \in Clients \ (Asked \cup {c}) : view'[d] = {} /\ missed'[d] = {}
      /\ \A d \in {c} \cup Served :
           /\ view'[d] \subseteq table \cup missed'[d]
           /\ \A s \in table : registered'[s] > 1 => s \in view'[d] \cup missed'[d]
           /\ ~pending => table \ fresh \subseteq view'[d] \cup missed'[d]
  BY <1>1, <1>3, <1>5, <1>6, WholeListTold
<1>8. TypeOK'
  BY <1>1, <1>2, <1>7, TypesNow DEF TypeOK, Counts, Most
<1>9. Unregistered' = Unregistered
  BY <1>1, <1>7 DEF Unregistered
<1>10. NewEntriesCounted'
  BY <1>1, <1>9, FewerUnregistered DEF Inv
<1>11. \A d \in Served' : Right(d)'
  BY <1>1, <1>2, <1>7 DEF Right, Sound, Shared, Known
<1> QED BY <1>1, <1>2, <1>8, <1>9, <1>10, <1>11 DEF Inv

LEMMA AskOnceKeepsInv ==
  ASSUME Inv, AskOnce PROVE Inv'
<1> DEFINE n == Len(requests)
           late == ~pending \/ n = 1
<1>1. /\ Become(WholeList(Known, {}, n, late))
      /\ UNCHANGED table /\ UNCHANGED newEntries /\ UNCHANGED open
      /\ UNCHANGED requests /\ UNCHANGED fresh
  BY DEF AskOnce, NClients
<1>2. n \in Nat /\ n <= Most
  BY NotMany, TypesNow
<1>3. late \/ (pending /\ n > 1) \/ Served = {}
  BY AskedAre, TypesNow DEF Served
<1>4. {} \in SUBSET (Clients \ Served) /\ (late \/ pending)
  OBVIOUS
<1> HIDE DEF n, late
<1>5. /\ registered' \in [Services -> Counts] /\ pending' = pending
      /\ view' \in [Clients -> SUBSET Services] /\ missed' \in [Clients -> SUBSET Services]
      /\ \A s \in table : registered'[s] = 0 <=> registered[s] = 0
      /\ \A d \in Clients \ (Asked \cup {}) : view'[d] = {} /\ missed'[d] = {}
      /\ \A d \in {} \cup Served :
           /\ view'[d] \subseteq table \cup missed'[d]
           /\ \A s \in table : registered'[s] > 1 => s \in view'[d] \cup missed'[d]
           /\ ~pending => table \ fresh \subseteq view'[d] \cup missed'[d]
  BY <1>1, <1>2, <1>3, <1>4, WholeListTold
<1>6. TypeOK'
  BY <1>1, <1>5, SameRequests, TypesNow DEF TypeOK, Counts, Most
<1>7. Unregistered' = Unregistered
  BY <1>1, <1>5 DEF Unregistered
<1>8. NewEntriesCounted'
  BY <1>1, <1>7, FewerUnregistered DEF Inv
<1>9. \A d \in Served : Right(d)'
  BY <1>1, <1>5 DEF Right, Sound, Shared, Known
<1> QED BY <1>1, <1>6, <1>7, <1>8, <1>9, SameRequests DEF Inv

-----------------------------------------------------------------------------
(* The theorems.                                                           *)

LEMMA StutterKeepsInv == ASSUME Inv, UNCHANGED vars PROVE Inv'
<1>1. /\ UNCHANGED table /\ UNCHANGED registered /\ UNCHANGED newEntries
      /\ UNCHANGED open /\ UNCHANGED pending /\ UNCHANGED requests /\ UNCHANGED view
      /\ UNCHANGED missed /\ UNCHANGED fresh
  BY DEF vars
<1>2. TypeOK'
  BY <1>1, SameRequests, TypesNow DEF TypeOK, Counts, Most
<1>3. Unregistered' = Unregistered
  BY <1>1 DEF Unregistered
<1>4. NewEntriesCounted'
  BY <1>1, <1>3, FewerUnregistered DEF Inv
<1>5. \A c : Right(c)' <=> Right(c)
  BY <1>1 DEF Right, Sound, Shared, Known
<1> QED BY <1>1, <1>2, <1>3, <1>4, <1>5, SameRequests DEF Inv

LEMMA NextKeepsInv == Inv /\ [Next]_vars => Inv'
<1> SUFFICES ASSUME Inv, [Next]_vars PROVE Inv'
  OBVIOUS
<1>1. CASE \E s \in Services : AddService(s) \/ RemoveService(s) \/ RemoveQuietly(s)
  BY <1>1, AddServiceKeepsInv, RemoveServiceKeepsInv, RemoveQuietlyKeepsInv
<1>2. CASE StartServing \/ RegisterAll \/ LoseNameServer \/ UpdateList
  BY <1>2, StartServingKeepsInv, RegisterAllKeepsInv, LoseNameServerKeepsInv,
     UpdateListKeepsInv
<1>3. CASE \E c \in Clients : Subscribe(c) \/ SubscribeLater(c) \/ Leave(c)
  BY <1>3, SubscribeKeepsInv, SubscribeLaterKeepsInv, LeaveKeepsInv
<1>4. CASE AskOnce
  BY <1>4, AskOnceKeepsInv
<1>5. CASE UNCHANGED vars
  BY <1>5, StutterKeepsInv
<1> QED BY <1>1, <1>2, <1>3, <1>4, <1>5 DEF Next

(* What the clients of the list have been told, the counts that stand for  *)
(* it, and the counts of new entries agree in every reachable state.       *)
THEOREM ListInvariance == Spec => []Inv
  BY InitInv, NextKeepsInv, PTL DEF Spec

(* The state has its types: no count passes the number of clients by more  *)
(* than one, and only who asked has been told anything.                    *)
THEOREM ListTypeCorrect == Spec => []TypeOK
<1>1. Inv => TypeOK
  BY DEF Inv
<1> QED BY <1>1, ListInvariance, PTL

(* The counts of new entries never make dis_start_serving miss a service.  *)
THEOREM NewServicesAreFound == Spec => []NewEntriesCounted
<1>1. Inv => NewEntriesCounted
  BY DEF Inv
<1> QED BY <1>1, ListInvariance, PTL

(* Clients that are only told what changes agree with the list.            *)
THEOREM ClientsAgree == Spec => []ListsAgree
<1>1. Inv => ListsAgree
  BY DEF Inv, Right, Sound, Known, ListsAgree, Served
<1> QED BY <1>1, ListInvariance, PTL
=============================================================================
