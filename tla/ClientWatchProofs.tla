-------------------------- MODULE ClientWatchProofs --------------------------
(***************************************************************************)
(* Proofs about CLIENT_LIST and the exit routine in dis.c, for any number  *)
(* of connections, partners, wishes and updates.                           *)
(***************************************************************************)
EXTENDS ClientWatch, TLAPS

LEMMA InitInv == Init => Inv
<1> SUFFICES ASSUME Init PROVE Inv
  OBVIOUS
<1>1. TypeOK
  BY DEF Init, TypeOK, Watchers, Others
<1>2. PeersApart /\ WatchersRight /\ EndsAreTrue
  BY DEF Init, PeersApart, WatchersRight, EndsAreTrue, Watchers, Connected
<1> QED BY <1>1, <1>2 DEF Inv

(* What Inv says, in the terms the steps need.                             *)
LEMMA TypesNow ==
  ASSUME Inv
  PROVE  /\ peer \in [Conns -> Peers \cup {"nobody"}] /\ req \in [Conns -> SUBSET Services]
         /\ view \in [Conns -> SUBSET Peers] /\ missed \in [Conns -> SUBSET Peers]
         /\ exits \in [Conns -> Peers \cup {"nobody"}]
         /\ announced \in [Peers -> {"nothing", "trouble", "end"}]
         /\ clients \subseteq Conns /\ \A c \in clients : peer[c] # "nobody"
         /\ \A c \in Conns \ clients : req[c] = {}
         /\ Watchers \subseteq clients /\ doomed \subseteq Watchers /\ due \subseteq clients
         /\ inUse \subseteq Others /\ putOff \subseteq inUse
         /\ \A c \in Conns : peer[c] # "nobody" => peer[c] \in Peers
         /\ \A c, d \in Conns : peer[c] # "nobody" /\ peer[c] = peer[d] => c = d
         /\ \A c \in Conns : peer[c] # "nobody" => announced[peer[c]] # "end"
         /\ \A w \in Watchers \ (doomed \ inUse) : view[w] = Present \ missed[w]
  BY DEF Inv, TypeOK, PeersApart, WatchersRight, EndsAreTrue, Watchers, Connected

-----------------------------------------------------------------------------
(* Who is there, and who knows it.                                         *)

LEMMA PresentAdd ==
  ASSUME NEW c \in Conns, clients' = clients \cup {c}, UNCHANGED peer
  PROVE  Present' = Present \cup {peer[c]}
  BY DEF Present

LEMMA PresentDrop ==
  ASSUME Inv, NEW c \in clients, clients' = clients \ {c}, peer' = [peer EXCEPT ![c] = "nobody"]
  PROVE  Present' = Present \ {peer[c]}
<1>1. \A d \in clients : d \in Conns /\ peer[d] # "nobody"
  BY TypesNow
<1>2. \A d \in clients \ {c} : peer'[d] = peer[d] /\ peer[d] # peer[c]
  BY <1>1, TypesNow
<1>3. \A x : x \in Present' <=> \E d \in clients \ {c} : x = peer[d]
  BY <1>2 DEF Present
<1>4. \A x : x \in Present <=> \E d \in clients : x = peer[d]
  BY DEF Present
<1> QED BY <1>2, <1>3, <1>4

LEMMA ViewTypes ==
  ASSUME Inv, NEW c \in Conns, peer[c] \in Peers, NEW T, NEW U, NEW sign \in {"+", "-"}
  PROVE  /\ View(c, T, U, sign) \in [Conns -> SUBSET Peers]
         /\ Missed(c, T, U, sign) \in [Conns -> SUBSET Peers]
  BY TypesNow DEF View, Missed

(* A watcher that was right before is right after it has been told, or has *)
(* been put down as not told.                                              *)
LEMMA HearsComing ==
  ASSUME Inv, NEW c \in Conns, NEW T, NEW U, Present' = Present \cup {peer[c]},
         NEW w \in Conns, w \in T \cup U, view[w] = Present \ missed[w]
  PROVE  View(c, T, U, "+")[w] = Present' \ Missed(c, T, U, "+")[w]
<1>1. CASE w \in T
  <2>1. View(c, T, U, "+")[w] = view[w] \cup {peer[c]}
    BY <1>1 DEF View
  <2>2. Missed(c, T, U, "+")[w] = missed[w] \ {peer[c]}
    BY <1>1 DEF Missed
  <2> QED BY <2>1, <2>2
<1>2. CASE w \notin T
  <2>1. View(c, T, U, "+")[w] = view[w] \ {peer[c]}
    BY <1>2 DEF View
  <2>2. Missed(c, T, U, "+")[w] = missed[w] \cup {peer[c]}
    BY <1>2 DEF Missed
  <2> QED BY <2>1, <2>2
<1> QED BY <1>1, <1>2

LEMMA HearsGoing ==
  ASSUME Inv, NEW c \in Conns, NEW T, NEW U,
         \/ Present' = Present \ {peer[c]}
         \/ T = {} /\ Present' = Present \cup {peer[c]},
         NEW w \in Conns \ {c}, w \in T \cup U, view[w] = Present \ missed[w]
  PROVE  View(c, T, U, "-")[w] = Present' \ Missed(c, T, U, "-")[w]
<1>1. View(c, T, U, "-")[w] = view[w] \ {peer[c]}
  BY DEF View
<1>2. CASE w \in T
  <2>1. Missed(c, T, U, "-")[w] = missed[w] \ {peer[c]}
    BY <1>2 DEF Missed
  <2> QED BY <1>1, <1>2, <2>1
<1>3. CASE w \notin T
  <2>1. Missed(c, T, U, "-")[w] = missed[w] \cup {peer[c]}
    BY <1>3 DEF Missed
  <2> QED BY <1>1, <2>1
<1> QED BY <1>2, <1>3

(* In an update of CLIENT_LIST in which the writes to F fail, all watchers *)
(* that are not to be released at once are told or put down.               *)
LEMMA ToldOrNot ==
  ASSUME Inv, NEW F, NEW w \in Watchers, w \notin (F \cup doomed) \ inUse
  PROVE  w \in Conns /\ w \in Told(F) \cup Untold(F) /\ view[w] = Present \ missed[w]
<1>1. w \in Conns /\ w \in Told(F) \cup Untold(F)
  BY DEF Told, Untold, Watchers
<1>2. view[w] = Present \ missed[w]
  BY TypesNow
<1> QED BY <1>1, <1>2

-----------------------------------------------------------------------------
(* Requests.                                                               *)

(* A step that leaves who is connected alone, and adds at most one client, *)
(* c, of which all watchers that are left learn something.                 *)
Arrives(c) ==
  /\ Connected(c) /\ clients' = clients \cup {c} /\ UNCHANGED peer
  /\ req' \in [Conns -> SUBSET Services]
  /\ \A d \in Conns \ {c} : req'[d] = req[d]
  /\ view' \in [Conns -> SUBSET Peers] /\ missed' \in [Conns -> SUBSET Peers]
  /\ exits' \in [Conns -> Peers \cup {"nobody"}]
  /\ doomed' \subseteq Watchers' /\ inUse \subseteq Others'
  /\ UNCHANGED <<useVars, announced>>

LEMMA ArrivesKeepsInv ==
  ASSUME Inv, NEW c \in Conns, Arrives(c), WatchersRight' PROVE Inv'
<1>1. \A d \in Conns \ clients' : req'[d] = {}
  BY DEF Arrives, Inv, TypeOK
<1>2. clients' \subseteq {d \in Conns : Connected(d)}
  BY DEF Arrives, Inv, TypeOK, Connected
<1>3. /\ inUse' = inUse /\ putOff' = putOff /\ due' = due /\ announced' = announced
      /\ due \subseteq clients'
  BY TypesNow DEF Arrives, useVars
<1>4. TypeOK'
  BY <1>1, <1>2, <1>3 DEF Arrives, Inv, TypeOK, Connected
<1>5. PeersApart' /\ EndsAreTrue'
  BY <1>3 DEF Arrives, Inv, PeersApart, EndsAreTrue, Connected
<1> QED BY <1>4, <1>5 DEF Inv

LEMMA RequestFields ==
  ASSUME Inv, NEW c \in Conns, NEW s \in Services, Request(c, s)
  PROVE  /\ doomed = {} /\ Connected(c) /\ peer[c] \in Peers
         /\ clients' = clients \cup {c} /\ UNCHANGED <<peer, useVars, exits, announced>>
         /\ inUse' = inUse
         /\ req' \in [Conns -> SUBSET Services] /\ req'[c] = req[c] \cup {s}
         /\ \A d \in Conns \ {c} : req'[d] = req[d]
         /\ exits' \in [Conns -> Peers \cup {"nobody"}]
         /\ Present' = Present \cup {peer[c]}
         /\ inUse \subseteq Others'
<1>1. /\ doomed = {} /\ Connected(c) /\ clients' = clients \cup {c}
      /\ UNCHANGED <<peer, useVars, exits, announced>>
      /\ req' = [req EXCEPT ![c] = @ \cup {s}] /\ inUse' = inUse
  BY DEF Request, LockFree, exitVars, useVars
<1>2. peer[c] \in Peers
  BY <1>1, TypesNow DEF Connected
<1>3. /\ req' \in [Conns -> SUBSET Services] /\ req'[c] = req[c] \cup {s}
      /\ \A d \in Conns \ {c} : req'[d] = req[d]
  BY <1>1, TypesNow
<1>4. inUse \subseteq Others'
  BY <1>3, TypesNow DEF Others
<1> QED BY <1>1, <1>2, <1>3, <1>4, PresentAdd DEF Inv, TypeOK

LEMMA ConnectKeepsInv ==
  ASSUME Inv, NEW c \in Conns, NEW p \in Peers, Connect(c, p) PROVE Inv'
<1>1. /\ doomed = {} /\ peer[c] = "nobody" /\ \A d \in Conns : peer[d] # p
      /\ peer' = [peer EXCEPT ![c] = p] /\ announced' = [announced EXCEPT ![p] = "nothing"]
      /\ UNCHANGED <<clients, req, view, missed, doomed, inUse, putOff, due, exits>>
  BY DEF Connect, LockFree, Connected, useVars
<1>2. p # "nobody"
  BY ClientWatchAssumption
<1>3. /\ peer'[c] = p /\ \A d \in Conns \ {c} : peer'[d] = peer[d]
      /\ peer' \in [Conns -> Peers \cup {"nobody"}]
      /\ announced' \in [Peers -> {"nothing", "trouble", "end"}]
      /\ announced'[p] = "nothing" /\ \A q \in Peers \ {p} : announced'[q] = announced[q]
  BY <1>1, TypesNow
<1>4. c \notin clients
  BY <1>1, TypesNow
<1>5. clients \subseteq {d \in Conns : Connected(d)'}
  BY <1>3, <1>4, TypesNow DEF Connected
<1>6. TypeOK'
  BY <1>1, <1>3, <1>5 DEF Inv, TypeOK, Watchers, Others, Connected
<1>7. PeersApart'
  BY <1>1, <1>2, <1>3 DEF Inv, PeersApart, Connected
<1>8. Present' = Present
  BY <1>1, <1>3, <1>4, TypesNow DEF Present
<1>9. WatchersRight'
  BY <1>1, <1>8 DEF Inv, WatchersRight, Watchers
<1>10. EndsAreTrue'
  BY <1>1, <1>3, TypesNow DEF EndsAreTrue, Connected
<1> QED BY <1>6, <1>7, <1>9, <1>10 DEF Inv

LEMMA SubscribeKeepsInv ==
  ASSUME Inv, NEW c \in Conns, Subscribe(c) PROVE Inv'
<1>1. Request(c, "other")
  BY DEF Subscribe
<1>2. /\ doomed = {} /\ Connected(c) /\ peer[c] \in Peers
      /\ clients' = clients \cup {c} /\ UNCHANGED <<peer, useVars, exits, announced>>
      /\ inUse' = inUse
      /\ req' \in [Conns -> SUBSET Services] /\ req'[c] = req[c] \cup {"other"}
      /\ \A d \in Conns \ {c} : req'[d] = req[d]
      /\ exits' \in [Conns -> Peers \cup {"nobody"}]
      /\ Present' = Present \cup {peer[c]}
      /\ inUse \subseteq Others'
  BY <1>1, RequestFields DEF Services
<1>3. Watchers' = Watchers
  BY <1>2 DEF Watchers
<1>4. CASE c \in clients
  <2>1. UNCHANGED <<view, missed, doomed>>
    BY <1>4 DEF Subscribe
  <2>2. Present' = Present
    BY <1>2, <1>4 DEF Present
  <2>3. WatchersRight'
    BY <1>2, <1>3, <2>1, <2>2 DEF Inv, WatchersRight
  <2>4. Arrives(c)
    BY <1>2, <1>3, <2>1, TypesNow DEF Arrives
  <2> QED BY <2>3, <2>4, ArrivesKeepsInv
<1>5. CASE c \notin clients
  <2>1. PICK F \in SUBSET Watchers : Learn(c, F, "+") /\ doomed' = F
    BY <1>5 DEF Subscribe
  <2>2. view' = View(c, Told(F), Untold(F), "+") /\ missed' = Missed(c, Told(F), Untold(F), "+")
    BY <2>1 DEF Learn
  <2>3. view' \in [Conns -> SUBSET Peers] /\ missed' \in [Conns -> SUBSET Peers]
    BY <1>2, <2>2, ViewTypes
  <2>4. ASSUME NEW w \in Watchers \ (F \ inUse) PROVE view'[w] = Present' \ missed'[w]
    <3>1. w \in Conns /\ w \in Told(F) \cup Untold(F) /\ view[w] = Present \ missed[w]
      BY <1>2, ToldOrNot
    <3>2. PICK T, U : T = Told(F) /\ U = Untold(F)
      OBVIOUS
    <3> QED BY <1>2, <2>2, <3>1, <3>2, HearsComing
  <2>5. WatchersRight'
    BY <1>2, <1>3, <2>1, <2>4 DEF WatchersRight
  <2>6. Arrives(c)
    BY <1>2, <1>3, <2>1, <2>3 DEF Arrives
  <2> QED BY <2>5, <2>6, ArrivesKeepsInv
<1> QED BY <1>4, <1>5

LEMMA WatchKeepsInv ==
  ASSUME Inv, NEW c \in Conns, Watch(c) PROVE Inv'
<1>1. Request(c, "list")
  BY DEF Watch
<1>2. /\ doomed = {} /\ Connected(c) /\ peer[c] \in Peers
      /\ clients' = clients \cup {c} /\ UNCHANGED <<peer, useVars, exits, announced>>
      /\ inUse' = inUse
      /\ req' \in [Conns -> SUBSET Services] /\ req'[c] = req[c] \cup {"list"}
      /\ \A d \in Conns \ {c} : req'[d] = req[d]
      /\ exits' \in [Conns -> Peers \cup {"nobody"}]
      /\ Present' = Present \cup {peer[c]}
      /\ inUse \subseteq Others'
  BY <1>1, RequestFields DEF Services
<1>3. Watchers' = Watchers \cup {c}
  BY <1>2 DEF Watchers
<1>4. {peer[x] : x \in clients'} = Present' /\ Present' \subseteq Peers
  BY <1>2, TypesNow DEF Present
<1>5. CASE c \in clients
  <2>1. clients' = clients /\ Present' = Present
    BY <1>2, <1>5 DEF Present
  <2>2. /\ view' = [View(c, {}, {}, "+") EXCEPT ![c] = Present']
        /\ missed' = [Missed(c, {}, {}, "+") EXCEPT ![c] = {}]
        /\ UNCHANGED doomed
    BY <1>4, <1>5, <2>1 DEF Watch, LearnAll
  <2>3. /\ View(c, {}, {}, "+") \in [Conns -> SUBSET Peers]
        /\ Missed(c, {}, {}, "+") \in [Conns -> SUBSET Peers]
    BY <1>2, ViewTypes
  <2>4. view' \in [Conns -> SUBSET Peers] /\ missed' \in [Conns -> SUBSET Peers]
    BY <1>4, <2>2, <2>3
  <2>5. view'[c] = Present' /\ missed'[c] = {}
    BY <2>2, <2>3
  <2>6. \A w \in Conns \ {c} : view'[w] = view[w] /\ missed'[w] = missed[w]
    BY <2>2 DEF View, Missed
  <2>7. WatchersRight'
    BY <1>2, <1>3, <2>1, <2>2, <2>5, <2>6, TypesNow DEF WatchersRight, Watchers
  <2>8. Arrives(c)
    BY <1>2, <1>3, <2>2, <2>4 DEF Arrives
  <2> QED BY <2>7, <2>8, ArrivesKeepsInv
<1>6. CASE c \notin clients
  <2>1. PICK F \in SUBSET (Watchers \cup {c}) :
          LearnAll(c, clients', Told(F), Untold(F)) /\ doomed' = F
    BY <1>2, <1>6 DEF Watch
  <2> DEFINE V == View(c, Told(F), Untold(F), "+")
             M == Missed(c, Told(F), Untold(F), "+")
  <2>2. view' = [V EXCEPT ![c] = Present'] /\ missed' = [M EXCEPT ![c] = {}]
    BY <1>4, <2>1 DEF LearnAll
  <2>3. V \in [Conns -> SUBSET Peers] /\ M \in [Conns -> SUBSET Peers]
    BY <1>2, ViewTypes
  <2>4. ASSUME NEW w \in Watchers \ (F \ inUse) PROVE V[w] = Present' \ M[w]
    <3>1. w \in Conns /\ w \in Told(F) \cup Untold(F) /\ view[w] = Present \ missed[w]
      BY <1>2, ToldOrNot
    <3>2. PICK T, U : T = Told(F) /\ U = Untold(F)
      OBVIOUS
    <3>3. View(c, T, U, "+")[w] = Present' \ Missed(c, T, U, "+")[w]
      BY <1>2, <3>1, <3>2, HearsComing
    <3> QED BY <3>2, <3>3
  <2> HIDE DEF V, M
  <2>5. /\ view' \in [Conns -> SUBSET Peers] /\ missed' \in [Conns -> SUBSET Peers]
        /\ view'[c] = Present' /\ missed'[c] = {}
        /\ \A w \in Conns \ {c} : view'[w] = V[w] /\ missed'[w] = M[w]
    BY <1>4, <2>2, <2>3
  <2>6. ASSUME NEW w \in (Watchers \cup {c}) \ (F \ inUse) PROVE view'[w] = Present' \ missed'[w]
    BY <2>4, <2>5 DEF Watchers
  <2>7. WatchersRight'
    BY <1>2, <1>3, <2>1, <2>6 DEF WatchersRight
  <2>8. Arrives(c)
    BY <1>2, <1>3, <2>1, <2>5 DEF Arrives
  <2> QED BY <2>7, <2>8, ArrivesKeepsInv
<1> QED BY <1>5, <1>6

LEMMA AppearKeepsInv ==
  ASSUME Inv, NEW c \in Conns, Appear(c), exits' \in [Conns -> Peers \cup {"nobody"}],
         UNCHANGED announced
  PROVE  Inv'
<1>1. /\ doomed = {} /\ Connected(c) /\ clients' = clients \cup {c}
      /\ UNCHANGED <<peer, req, doomed, useVars>> /\ inUse' = inUse
  BY DEF Appear, LockFree, useVars
<1>2. /\ Watchers' = Watchers /\ Others' = Others
      /\ peer[c] \in Peers /\ Present' = Present \cup {peer[c]}
  BY <1>1, PresentAdd, TypesNow DEF Watchers, Others, Connected
<1>3. CASE c \in clients
  <2>1. UNCHANGED <<view, missed>> /\ Present' = Present
    BY <1>1, <1>3 DEF Appear, Present
  <2>2. WatchersRight'
    BY <1>1, <1>2, <2>1 DEF Inv, WatchersRight
  <2>3. Arrives(c)
    BY <1>1, <1>2, <2>1, TypesNow DEF Arrives
  <2> QED BY <2>2, <2>3, ArrivesKeepsInv
<1>4. CASE c \notin clients
  <2>1. view' = View(c, {}, Watchers, "-") /\ missed' = Missed(c, {}, Watchers, "-")
    BY <1>4 DEF Appear, LearnNothing
  <2>2. view' \in [Conns -> SUBSET Peers] /\ missed' \in [Conns -> SUBSET Peers]
    BY <1>2, <2>1, ViewTypes
  <2>3. ASSUME NEW w \in Watchers PROVE view'[w] = Present' \ missed'[w]
    <3>1. w \in Conns /\ w # c /\ view[w] = Present \ missed[w]
      BY <1>1, <1>4, TypesNow DEF Watchers
    <3>2. PICK U : U = Watchers
      OBVIOUS
    <3> QED BY <1>2, <2>1, <3>1, <3>2, HearsGoing
  <2>4. WatchersRight'
    BY <1>2, <2>3 DEF WatchersRight
  <2>5. Arrives(c)
    BY <1>1, <1>2, <2>2, TypesNow DEF Arrives
  <2> QED BY <2>4, <2>5, ArrivesKeepsInv
<1> QED BY <1>3, <1>4

LEMMA ExitRequestsKeepInv ==
  ASSUME Inv, NEW c \in Conns, AskOnce(c) \/ AskExit(c) \/ AskNoExit(c) PROVE Inv'
<1>1. Appear(c) /\ UNCHANGED announced
  BY DEF AskOnce, AskExit, AskNoExit, exitVars
<1>2. exits \in [Conns -> Peers \cup {"nobody"}] /\ peer[c] \in Peers \cup {"nobody"}
  BY TypesNow
<1>3. exits' \in [Conns -> Peers \cup {"nobody"}]
  BY <1>2 DEF AskOnce, AskExit, AskNoExit, exitVars
<1> QED BY <1>1, <1>3, AppearKeepsInv

LEMMA UnsubscribeKeepsInv ==
  ASSUME Inv, NEW c \in Conns, NEW s \in Services, Unsubscribe(c, s) PROVE Inv'
<1>1. /\ doomed = {} /\ s \in req[c] /\ req' = [req EXCEPT ![c] = @ \ {s}]
      /\ s = "other" => c \notin inUse
      /\ UNCHANGED <<peer, clients, doomed, useVars, exits, announced>> /\ inUse' = inUse
      /\ IF s = "list"
           THEN view' = [view EXCEPT ![c] = {}] /\ missed' = [missed EXCEPT ![c] = {}]
           ELSE UNCHANGED <<view, missed>>
  BY DEF Unsubscribe, LockFree, useVars, exitVars
<1>2. /\ req' \in [Conns -> SUBSET Services] /\ req'[c] = req[c] \ {s}
      /\ \A d \in Conns \ {c} : req'[d] = req[d]
  BY <1>1, TypesNow
<1>3. c \in clients
  BY <1>1 DEF Inv, TypeOK
<1>4. view' \in [Conns -> SUBSET Peers] /\ missed' \in [Conns -> SUBSET Peers]
  BY <1>1, TypesNow
<1>5. Present' = Present /\ clients' = clients \cup {c}
  BY <1>1, <1>3 DEF Present
<1>6. \A w \in Watchers' : w \in Watchers /\ view'[w] = view[w] /\ missed'[w] = missed[w]
  BY <1>1, <1>2, TypesNow DEF Watchers
<1>7. WatchersRight'
  BY <1>1, <1>5, <1>6 DEF Inv, WatchersRight
<1>8. inUse \subseteq Others'
  BY <1>1, <1>2, TypesNow DEF Others
<1>9. Arrives(c)
  BY <1>1, <1>2, <1>3, <1>4, <1>5, <1>8, TypesNow DEF Arrives, Connected
<1> QED BY <1>7, <1>9, ArrivesKeepsInv

-----------------------------------------------------------------------------
(* Updates of other services.                                              *)

LEMMA UseKeepsInv ==
  ASSUME Inv, NEW c \in Conns, Use(c) PROVE Inv'
<1>1. /\ c \in Others /\ inUse' = inUse \cup {c} /\ doomed = {}
      /\ UNCHANGED <<peer, clients, req, view, missed, doomed, putOff, due, exits, announced>>
  BY DEF Use, LockFree, clientVars, exitVars
<1>2. Watchers' = Watchers /\ Others' = Others /\ Present' = Present
  BY <1>1 DEF Watchers, Others, Present
<1>3. TypeOK'
  BY <1>1, <1>2 DEF Inv, TypeOK, Connected
<1>4. PeersApart' /\ EndsAreTrue'
  BY <1>1 DEF Inv, PeersApart, EndsAreTrue, Connected
<1>5. WatchersRight'
  BY <1>1, <1>2 DEF Inv, WatchersRight
<1> QED BY <1>3, <1>4, <1>5 DEF Inv

LEMMA EndUseKeepsInv ==
  ASSUME Inv, NEW C, EndUse(C) PROVE Inv'
<1>1. /\ doomed = {} /\ C \subseteq inUse
      /\ inUse' = inUse \ C /\ putOff' = putOff \ C
      /\ UNCHANGED <<peer, clients, view, missed, doomed, exits, announced>>
  BY DEF EndUse, LockFree, exitVars
<1>2. PICK W \in SUBSET {c \in C : req[c] = {"other"}} :
        /\ req' = [c \in Conns |-> IF c \in W THEN {} ELSE req[c]]
        /\ due' = (C \cap putOff) \cup W
  BY DEF EndUse
<1>3. C \subseteq clients
  BY <1>1, TypesNow DEF Others
<1>4. Watchers' = Watchers /\ Others \ C \subseteq Others' /\ Present' = Present
  BY <1>1, <1>2 DEF Watchers, Others, Present
<1>5. req' \in [Conns -> SUBSET Services] /\ \A c \in Conns \ clients : req'[c] = {}
  BY <1>2, TypesNow
<1>6. /\ inUse' \subseteq Others' /\ putOff' \subseteq inUse' /\ due' \subseteq clients
      /\ doomed' \subseteq Watchers'
  BY <1>1, <1>2, <1>3, <1>4, TypesNow
<1>7. TypeOK'
  BY <1>1, <1>5, <1>6 DEF Inv, TypeOK, Connected
<1>8. PeersApart' /\ EndsAreTrue'
  BY <1>1 DEF Inv, PeersApart, EndsAreTrue, Connected
<1>9. WatchersRight'
  BY <1>1, <1>4 DEF Inv, WatchersRight
<1> QED BY <1>7, <1>8, <1>9 DEF Inv

-----------------------------------------------------------------------------
(* release_conn                                                            *)

(* What the exit routine does.                                             *)
LEMMA RunExitFields ==
  ASSUME Inv, NEW c \in Conns, RunExit(c)
  PROVE  /\ inUse' \subseteq inUse /\ putOff' \subseteq inUse'
         /\ exits' \in [Conns -> Peers \cup {"nobody"}]
         /\ announced' \in [Peers -> {"nothing", "trouble", "end"}]
         /\ \A p \in Peers : announced'[p] = "end" => announced[p] = "end" \/ p = peer[c]
<1>1. PICK N \in SUBSET Others, U \in SUBSET inUse :
        /\ inUse' = inUse \ U /\ putOff' = (putOff \cup N) \cap inUse'
        /\ CallExit(c, N \ inUse')
  BY DEF RunExit
<1>2. exits' \in [Conns -> Peers \cup {"nobody"}]
  BY <1>1, TypesNow DEF CallExit
<1>3. announced' \in [Peers -> {"nothing", "trouble", "end"}]
  BY <1>1, TypesNow DEF CallExit
<1>4. \A p \in Peers : announced'[p] = "end" => announced[p] = "end" \/ p = peer[c]
  BY <1>1 DEF CallExit
<1> QED BY <1>1, <1>2, <1>3, <1>4

LEMMA PartKeepsViews ==
  ASSUME Inv, NEW c \in Conns, Connected(c), c \notin inUse, Part(c), Forget(c),
         inUse' \subseteq inUse
  PROVE  /\ view' \in [Conns -> SUBSET Peers] /\ missed' \in [Conns -> SUBSET Peers]
         /\ doomed' \subseteq Watchers' /\ WatchersRight'
<1>1. /\ clients' = clients \ {c} /\ req' = [req EXCEPT ![c] = {}]
      /\ peer' = [peer EXCEPT ![c] = "nobody"]
  BY DEF Forget
<1>2. req'[c] = {} /\ \A d \in Conns \ {c} : req'[d] = req[d]
  BY <1>1, TypesNow
<1>3. Watchers' = Watchers \ {c}
  BY <1>2 DEF Watchers
<1>4. peer[c] \in Peers
  BY TypesNow DEF Connected
<1>5. CASE req[c] = {} /\ c \notin clients
  <2>1. UNCHANGED <<view, missed, doomed>>
    BY <1>5 DEF Part
  <2>2. c \notin Watchers /\ Present' = Present
    BY <1>1, <1>5, TypesNow DEF Present
  <2> QED BY <1>3, <2>1, <2>2, TypesNow DEF WatchersRight
<1>6. CASE req[c] = {} /\ c \in clients
  <2>1. /\ view' = View(c, {}, Watchers, "-") /\ missed' = Missed(c, {}, Watchers, "-")
        /\ UNCHANGED doomed
    BY <1>6 DEF Part, LearnNothing
  <2>2. view' \in [Conns -> SUBSET Peers] /\ missed' \in [Conns -> SUBSET Peers]
    BY <1>4, <2>1, ViewTypes
  <2>3. c \notin Watchers /\ Present' = Present \ {peer[c]}
    BY <1>1, <1>6, PresentDrop DEF Watchers
  <2>4. ASSUME NEW w \in Watchers \ (doomed \ inUse) PROVE view'[w] = Present' \ missed'[w]
    <3>1. w \in Conns /\ w # c /\ view[w] = Present \ missed[w]
      BY <2>3, TypesNow DEF Watchers
    <3>2. PICK U : U = Watchers
      OBVIOUS
    <3> QED BY <2>1, <2>3, <3>1, <3>2, HearsGoing
  <2> QED BY <1>3, <2>1, <2>2, <2>3, <2>4, TypesNow DEF WatchersRight
<1>7. CASE req[c] # {}
  <2>1. PICK F \in SUBSET (Watchers \ {c}) : Learn(c, F, "-") /\ doomed' = (doomed \cup F) \ {c}
    BY <1>7 DEF Part
  <2>2. view' = View(c, Told(F), Untold(F), "-") /\ missed' = Missed(c, Told(F), Untold(F), "-")
    BY <2>1 DEF Learn
  <2>3. view' \in [Conns -> SUBSET Peers] /\ missed' \in [Conns -> SUBSET Peers]
    BY <1>4, <2>2, ViewTypes
  <2>4. Present' = Present \ {peer[c]}
    BY <1>1, <1>7, PresentDrop, TypesNow
  <2>5. ASSUME NEW w \in Watchers \ {c}, w \notin (F \cup doomed) \ inUse
        PROVE  view'[w] = Present' \ missed'[w]
    <3>1. w \in Conns \ {c} /\ w \in Told(F) \cup Untold(F) /\ view[w] = Present \ missed[w]
      BY <2>5, ToldOrNot
    <3>2. PICK T, U : T = Told(F) /\ U = Untold(F)
      OBVIOUS
    <3> QED BY <2>2, <2>4, <3>1, <3>2, HearsGoing
  <2>6. doomed' \subseteq Watchers'
    BY <1>3, <2>1, TypesNow
  <2>7. \A w \in Watchers' \ (doomed' \ inUse') :
          w \in Watchers \ {c} /\ w \notin (F \cup doomed) \ inUse
    BY <1>3, <2>1
  <2> QED BY <2>3, <2>5, <2>6, <2>7 DEF WatchersRight
<1> QED BY <1>5, <1>6, <1>7

LEMMA ReleaseKeepsInv ==
  ASSUME Inv, NEW c \in Conns, Release(c), Connected(c)
  PROVE  Inv'
<1>1. CASE c \in inUse
  <2>1. /\ putOff' = putOff \cup {c} /\ doomed' = doomed \ {c} /\ due' = due \ {c}
        /\ UNCHANGED <<peer, clients, req, view, missed, inUse, exits, announced>>
    BY <1>1 DEF Release, clientVars, exitVars
  <2>2. Watchers' = Watchers /\ Others' = Others /\ Present' = Present
    BY <2>1 DEF Watchers, Others, Present
  <2>3. TypeOK'
    BY <1>1, <2>1, <2>2 DEF Inv, TypeOK, Connected
  <2>4. PeersApart' /\ EndsAreTrue'
    BY <2>1 DEF Inv, PeersApart, EndsAreTrue, Connected
  <2>5. WatchersRight'
    BY <1>1, <2>1, <2>2, TypesNow DEF WatchersRight
  <2> QED BY <2>3, <2>4, <2>5 DEF Inv
<1>2. CASE c \notin inUse
  <2>1. RunExit(c) /\ Part(c) /\ Forget(c)
    BY <1>2 DEF Release
  <2>2. /\ clients' = clients \ {c} /\ req' = [req EXCEPT ![c] = {}]
        /\ peer' = [peer EXCEPT ![c] = "nobody"] /\ due' = due \ {c}
    BY <2>1 DEF Forget
  <2>3. /\ inUse' \subseteq inUse /\ putOff' \subseteq inUse'
        /\ exits' \in [Conns -> Peers \cup {"nobody"}]
        /\ announced' \in [Peers -> {"nothing", "trouble", "end"}]
        /\ \A p \in Peers : announced'[p] = "end" => announced[p] = "end" \/ p = peer[c]
    BY <2>1, RunExitFields
  <2>4. /\ view' \in [Conns -> SUBSET Peers] /\ missed' \in [Conns -> SUBSET Peers]
        /\ doomed' \subseteq Watchers' /\ WatchersRight'
    BY <1>2, <2>1, <2>3, PartKeepsViews
  <2>5. /\ req' \in [Conns -> SUBSET Services] /\ req'[c] = {}
        /\ peer' \in [Conns -> Peers \cup {"nobody"}] /\ peer'[c] = "nobody"
        /\ \A d \in Conns \ {c} : req'[d] = req[d] /\ peer'[d] = peer[d]
    BY <2>2, TypesNow
  <2>6. inUse' \subseteq Others'
    BY <1>2, <2>3, <2>5, TypesNow DEF Others
  <2>7. /\ clients' \subseteq {d \in Conns : Connected(d)'} /\ due' \subseteq clients'
        /\ \A d \in Conns \ clients' : req'[d] = {}
    BY <2>2, <2>5, TypesNow DEF Connected
  <2>8. TypeOK'
    BY <2>3, <2>4, <2>5, <2>6, <2>7 DEF TypeOK, Connected
  <2>9. PeersApart'
    BY <2>5 DEF Inv, PeersApart, Connected
  <2>10. EndsAreTrue'
    BY <2>3, <2>5, TypesNow DEF EndsAreTrue, Connected
  <2> QED BY <2>4, <2>8, <2>9, <2>10 DEF Inv
<1> QED BY <1>1, <1>2

LEMMA NextKeepsInv ==
  ASSUME Inv, [Next]_vars PROVE Inv'
<1>1. CASE UNCHANGED vars
  BY <1>1 DEF vars, clientVars, useVars, exitVars, Inv, TypeOK, PeersApart, WatchersRight,
              EndsAreTrue, Watchers, Others, Present, Connected
<1>2. ASSUME NEW c \in Conns,
             \/ \E p \in Peers : Connect(c, p)
             \/ Subscribe(c) \/ Watch(c) \/ AskOnce(c)
             \/ \E s \in Services : Unsubscribe(c, s)
             \/ Use(c) \/ AskExit(c) \/ AskNoExit(c)
      PROVE  Inv'
  BY <1>2, ConnectKeepsInv, SubscribeKeepsInv, WatchKeepsInv, ExitRequestsKeepInv,
     UnsubscribeKeepsInv, UseKeepsInv
<1>3. ASSUME NEW c \in Conns, Lose(c) \/ Reap(c) \/ Finish(c) PROVE Inv'
  <2>1. Release(c) /\ Connected(c)
    BY <1>3, TypesNow DEF Lose, Reap, Finish, Connected
  <2> QED BY <2>1, ReleaseKeepsInv
<1>4. ASSUME NEW C, EndUse(C) PROVE Inv'
  BY <1>4, EndUseKeepsInv
<1> QED BY <1>1, <1>2, <1>3, <1>4 DEF Next

-----------------------------------------------------------------------------
(* The inductive invariant holds in every run.                             *)
THEOREM WatchInvariance == Spec => []Inv
<1>1. Init => Inv
  BY InitInv
<1>2. Inv /\ [Next]_vars => Inv'
  BY NextKeepsInv
<1> QED BY <1>1, <1>2, PTL DEF Spec

(* Every variable keeps its type; only clients have requests, and only     *)
(* connections with a partner are clients.                                 *)
THEOREM WatchTypeCorrect == Spec => []TypeOK
<1>1. Inv => TypeOK
  BY DEF Inv
<1> QED BY <1>1, WatchInvariance, PTL

(* CLIENT_LIST is right for every watcher as soon as nobody is left who is *)
(* to be released at once, however many writes have failed and releases    *)
(* have been put off on the way; of one that stays because its release is  *)
(* put off it is known what it was not told.                               *)
THEOREM ClientListsAreRight == Spec => []ClientListRight
<1>1. Inv => ClientListRight
  BY DEF Inv, WatchersRight, ClientListRight, LockFree, Present
<1> QED BY <1>1, WatchInvariance, PTL

(* The exit routine announces no end of a partner that is connected,       *)
(* whatever wishes earlier connections have left under its number.         *)
THEOREM AnnouncedEndsAreTrue == Spec => []EndsAreTrue
<1>1. Inv => EndsAreTrue
  BY DEF Inv
<1> QED BY <1>1, WatchInvariance, PTL
=============================================================================
