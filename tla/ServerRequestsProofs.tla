------------------------ MODULE ServerRequestsProofs ------------------------
(***************************************************************************)
(* Proofs about requests and updates in dis.c, for any services, requests, *)
(* connections and threads that update.                                    *)
(*                                                                         *)
(* Nearly every step changes the requests in one of four ways that leave   *)
(* the updates under way alone (Evolves), and the connections so that      *)
(* their requests agree with them (ConnsRight).  That such a step keeps    *)
(* the invariant is proved once; each action is then shown to be one.      *)
(***************************************************************************)
EXTENDS ServerRequests, TLAPS

AnyRequest == Request \cup {NoRequest}
Update     == [pc : {"idle", "send", "toReap", "reap", "finish"},
               service : Services \cup {0},
               marked : SUBSET Requests, sent : SUBSET Requests]

(* What may become of a request: it stays, though it may be marked to be   *)
(* deleted if an update has it, or no longer be; it is freed; or it is new.*)
Same(a, b) ==
  /\ a \in Request /\ b \in Request
  /\ b.service = a.service /\ b.conn = a.conn /\ b.kind = a.kind /\ b.delay = a.delay
  /\ b.toDelete # 0 => a.toDelete # 0 \/ a.delay = 1
Freed(a, b) == a.delay = 0 /\ b = NoRequest
Made(r, b)  == /\ Fresh(r) /\ b \in Request /\ b.delay = 0 /\ b.toDelete = 0
               /\ Alive(b.service)

Evolves(q) ==
  /\ q \in [Requests -> AnyRequest]
  /\ \A r \in Requests : Same(req[r], q[r]) \/ Freed(req[r], q[r]) \/ Made(r, q[r])

ConnsRight ==
  /\ conn' \in [Conns -> {"closed", "open", "leaving", "lost"}]
  /\ \A c \in Conns : conn'[c] = "closed" => ClientOf(req', c) = {}
  /\ \A c \in Conns : conn'[c] = "lost" =>
       \E r \in ClientOf(req', c) : req'[r].toDelete % 2 = 1

(* The updates go on where they are; a loop that does not end begins only  *)
(* while there is one.                                                     *)
LoopRight ==
  /\ loop' \in {"none", "report", "send"}
  /\ loop' # "none" => \E u \in Updaters : up[u].pc # "idle"

UpSame ==
  /\ LoopRight
  /\ up' \in [Updaters -> Update]
  /\ \A u \in Updaters :
       /\ up'[u].pc = up[u].pc /\ up'[u].service = up[u].service
       /\ up'[u].marked = up[u].marked /\ up[u].sent \subseteq up'[u].sent
       /\ up'[u].pc = "idle" => up'[u] = NoUpdate

(* What is asked of the services.                                          *)
ServicesRight ==
  /\ service' \in [Services -> [life : {"new", "alive", "gone"},
                                delay : 0..1, toDelete : 0..1]]
  /\ ServiceState'
  /\ \A u \in Updaters, s \in Services : Updating(u, s)' => Alive(s)'
  /\ \A s \in Services : Alive(s)' /\ service'[s].toDelete # 0 =>
       \E u \in Updaters : Updating(u, s)'
  /\ \A r \in Allocated(req') : service'[req'[r].service].life = "alive"

-----------------------------------------------------------------------------
LEMMA InitInv == Init => Inv
<1> SUFFICES ASSUME Init PROVE Inv
  OBVIOUS
<1>1. /\ \A r \in Requests : req[r] = NoRequest
      /\ \A u \in Updaters : up[u] = NoUpdate
      /\ \A s \in Services : service[s] = [life |-> "new", delay |-> 0, toDelete |-> 0]
      /\ \A c \in Conns : conn[c] = "closed"
  BY DEF Init
<1>2. TypeOK
  <2>1. NoUpdate \in Update
    BY DEF NoUpdate, Update
  <2> QED BY <2>1 DEF Init, TypeOK, Update
<1>3. NoUpdate.pc = "idle" /\ NoRequest.kind = "free" /\ NoRequest.delay = 0 /\ NoRequest.toDelete = 0
  BY DEF NoUpdate, NoRequest
<1>4. UpdatesApart /\ ServiceState /\ DelayMarked /\ MarkedDelayed
  BY <1>1, <1>3 DEF UpdatesApart, ServiceState, DelayMarked, MarkedDelayed, Updating
<1>5. /\ UpdateUsesLive /\ DeletionRemembered /\ UpdateReachesAll /\ RequestsConnected
      /\ HangsOnlyInUpdates
  <2>1. Allocated(req) = {}
    BY <1>1, <1>3 DEF Allocated
  <2> QED BY <1>1, <1>3, <2>1
          DEF Init, UpdateUsesLive, DeletionRemembered, UpdateReachesAll, RequestsConnected,
              RequestsServed, HangsOnlyInUpdates, Updating, Sending, ClientServices, ClientOf
<1> QED BY <1>2, <1>4, <1>5 DEF Inv

LEMMA RequestFields ==
  ASSUME NEW a \in AnyRequest
  PROVE  /\ a.delay \in {0, 1} /\ a.toDelete \in 0..3
         /\ a.kind # "free" <=> a \in Request
         /\ a \notin Request => a = NoRequest /\ a.delay = 0 /\ a.toDelete = 0
         /\ a \in Request => a.service \in Services /\ a.conn \in Conns
  BY DEF AnyRequest, Request, NoRequest

LEMMA StateFields ==
  ASSUME Inv
  PROVE  /\ req \in [Requests -> AnyRequest] /\ up \in [Updaters -> Update]
         /\ \A r \in Requests : req[r] \in AnyRequest
  BY DEF Inv, TypeOK, AnyRequest, Update

LEMMA Members ==
  ASSUME NEW q \in [Requests -> AnyRequest]
  PROVE  /\ \A r : r \in Allocated(q) <=> r \in Requests /\ q[r] \in Request
         /\ \A s, r : r \in ListOf(q, s) <=> r \in Requests /\ q[r] \in Request /\ q[r].service = s
         /\ \A c, r : r \in ClientOf(q, c) <=>
              /\ r \in Requests /\ q[r] \in Request
              /\ q[r].conn = c /\ q[r].kind # "command"
         /\ \A c, r : r \in InUse(q, c) <=> r \in ClientOf(q, c) /\ q[r].delay = 1
<1>1. \A r \in Requests : (q[r].kind # "free" <=> q[r] \in Request) /\ q[r].delay \in {0, 1}
  BY RequestFields
<1> QED BY <1>1 DEF Allocated, ListOf, ClientOf, InUse

LEMMA NoClients ==
  ASSUME NEW c \in Conns PROVE ClientServices(c) = {} <=> ClientOf(req, c) = {}
  BY DEF ClientServices

-----------------------------------------------------------------------------
(* A step of this kind keeps the invariant.                                *)

LEMMA EvolveKeepsInv ==
  ASSUME Inv, Evolves(req'), ConnsRight, ServicesRight, UpSame PROVE Inv'
<1> DEFINE q == req'
<1>1. q \in [Requests -> AnyRequest] /\ \A r \in Requests : q[r] \in AnyRequest
  BY DEF Evolves
<1>2. \A r \in Requests : Same(req[r], q[r]) \/ Freed(req[r], q[r]) \/ Made(r, q[r])
  BY DEF Evolves
<1>3. TypeOK'
  BY <1>1 DEF TypeOK, AnyRequest, Update, ConnsRight, ServicesRight, UpSame, LoopRight
<1>4. \A u \in Updaters, s \in Services :
        (Updating(u, s)' <=> Updating(u, s)) /\ (Sending(u, s)' <=> Sending(u, s))
  BY DEF UpSame, Updating, Sending
<1>5. UpdatesApart'
  BY <1>4 DEF Inv, UpdatesApart, UpSame
<1>6. DelayMarked'
  <2> SUFFICES ASSUME NEW r \in Requests, q[r].delay = 1
               PROVE  \E u \in Updaters : /\ up'[u].pc = "send" /\ up'[u].service = q[r].service
                                          /\ r \in up'[u].marked
    BY DEF DelayMarked, Sending
  <2>1. NoRequest.delay = 0
    BY DEF NoRequest
  <2>2. Same(req[r], q[r])
    BY <1>2, <2>1 DEF Freed, Made
  <2>3. req[r].delay = 1 /\ q[r].service = req[r].service /\ q[r].service \in Services
    BY <2>2 DEF Same, Request
  <2>4. PICK u \in Updaters : Sending(u, req[r].service) /\ r \in up[u].marked
    BY <2>3 DEF Inv, DelayMarked
  <2> QED BY <2>3, <2>4 DEF UpSame, Sending
<1>7. \A u \in Updaters : up[u].pc = "send" =>
        \A r \in up[u].marked : r \in ListOf(q, up[u].service) /\ q[r].delay = 1
  <2> SUFFICES ASSUME NEW u \in Updaters, up[u].pc = "send", NEW r \in up[u].marked
               PROVE  r \in ListOf(q, up[u].service) /\ q[r].delay = 1
    OBVIOUS
  <2>1. r \in ListOf(req, up[u].service) /\ req[r].delay = 1
    BY DEF Inv, MarkedDelayed
  <2>2. r \in Requests /\ req[r] \in Request /\ req[r].service = up[u].service
    BY <2>1, StateFields, Members
  <2>3. Same(req[r], q[r])
    BY <1>2, <2>1, <2>2 DEF Freed, Made, Fresh
  <2> QED BY <1>1, <2>1, <2>2, <2>3, Members DEF Same
<1>8. MarkedDelayed' /\ UpdateUsesLive'
  <2>1. MarkedDelayed'
    BY <1>7 DEF MarkedDelayed, UpSame
  <2>2. UpdateUsesLive'
    BY <1>7 DEF UpdateUsesLive, UpSame, ServicesRight, Sending
  <2> QED BY <2>1, <2>2
<1>9. DeletionRemembered'
  <2>1. ASSUME NEW r \in Requests, q[r].toDelete # 0
        PROVE  \E u \in Updaters : /\ up'[u].service = q[r].service
                                   /\ up'[u].pc \in {"send", "toReap", "reap"}
    <3>1. NoRequest.toDelete = 0
      BY DEF NoRequest
    <3>2. Same(req[r], q[r])
      BY <1>2, <2>1, <3>1 DEF Freed, Made
    <3>3. q[r].service = req[r].service /\ q[r].service \in Services
      BY <3>2 DEF Same, Request
    <3>4. CASE req[r].toDelete # 0
      <4>1. PICK u \in Updaters : Updating(u, req[r].service) /\ up[u].pc \in {"send", "toReap", "reap"}
        BY <3>4 DEF Inv, DeletionRemembered
      <4> QED BY <3>3, <4>1 DEF UpSame, Updating
    <3>5. CASE req[r].delay = 1
      <4>1. PICK u \in Updaters : Sending(u, req[r].service)
        BY <3>5 DEF Inv, DelayMarked
      <4> QED BY <3>3, <4>1 DEF UpSame, Sending, Updating
    <3> QED BY <2>1, <3>2, <3>4, <3>5 DEF Same
  <2>2. \A s \in Services : Alive(s)' /\ service'[s].toDelete # 0 =>
          \E u \in Updaters : Updating(u, s)'
    BY DEF ServicesRight
  <2>3. \A c \in Conns : conn'[c] = "lost" => \E r \in ClientOf(q, c) : q[r].toDelete % 2 = 1
    BY DEF ConnsRight
  <2>4. \A u \in Updaters, s \in Services :
          up'[u].service = s /\ up'[u].pc \in {"send", "toReap", "reap"} => Updating(u, s)'
    BY DEF Updating
  <2> QED BY <2>1, <2>2, <2>3, <2>4 DEF DeletionRemembered, ConnBit, Updating
<1>10. UpdateReachesAll'
  <2> SUFFICES ASSUME NEW u \in Updaters, up[u].pc \in {"toReap", "reap", "finish"},
                      NEW r \in up[u].marked, r \in ListOf(q, up[u].service),
                      q[r].kind = "monitored"
               PROVE  r \in up'[u].sent
    BY DEF UpdateReachesAll, UpSame
  <2>1. r \in Requests /\ q[r] \in Request /\ q[r].service = up[u].service
    BY <1>1, Members
  <2>2. Same(req[r], q[r])
    <3>1. NoRequest \notin Request
      BY DEF NoRequest, Request
    <3> QED BY <1>2, <2>1, <3>1 DEF Freed, Made, Fresh
  <2>3. r \in ListOf(req, up[u].service) /\ req[r].kind = "monitored"
    BY <2>1, <2>2, StateFields, Members DEF Same
  <2> QED BY <2>3 DEF Inv, UpdateReachesAll, UpSame
<1>11. RequestsConnected'
  <2>1. \A c \in Conns : conn'[c] = "closed" => ClientServices(c)' = {}
    BY DEF ConnsRight, ClientServices
  <2>2. \A r \in Allocated(q) : service'[q[r].service].life = "alive"
    BY DEF ServicesRight
  <2> QED BY <2>1, <2>2 DEF RequestsConnected, RequestsServed, Alive
<1>12. HangsOnlyInUpdates'
  BY DEF HangsOnlyInUpdates, UpSame, LoopRight
<1> QED BY <1>3, <1>5, <1>6, <1>8, <1>9, <1>10, <1>11, <1>12 DEF Inv, ServicesRight

(* The services are right when they are left alone.                        *)
LEMMA ServicesStay ==
  ASSUME Inv, Evolves(req'), UNCHANGED service, UpSame PROVE ServicesRight
<1>1. \A u \in Updaters, s \in Services : Updating(u, s)' <=> Updating(u, s)
  BY DEF UpSame, Updating
<1>2. ServiceState'
  BY <1>1 DEF Inv, ServiceState
<1>3. ASSUME NEW r \in Allocated(req') PROVE service[req'[r].service].life = "alive"
  <2>1. r \in Requests /\ req'[r] \in Request /\ NoRequest \notin Request
    BY <1>3, Members DEF Evolves, NoRequest, Request
  <2>2. CASE Same(req[r], req'[r])
    <3>1. r \in Allocated(req)
      BY <2>1, <2>2, StateFields, Members DEF Same
    <3> QED BY <2>2, <3>1 DEF Same, Inv, RequestsConnected, RequestsServed, Alive
  <2>3. CASE Made(r, req'[r])
    BY <2>3 DEF Made, Alive
  <2> QED BY <2>1, <2>2, <2>3 DEF Evolves, Freed
<1> QED BY <1>1, <1>2, <1>3
        DEF ServicesRight, Inv, TypeOK, UpdateUsesLive, DeletionRemembered, Alive

LEMMA UpStays ==
  ASSUME Inv, UNCHANGED up, LoopRight PROVE UpSame
  BY StateFields DEF UpSame, Inv, UpdatesApart

LEMMA LoopStays ==
  ASSUME Inv, UNCHANGED loop PROVE LoopRight
  BY DEF LoopRight, Inv, TypeOK, HangsOnlyInUpdates

LEMMA NoLoop ==
  ASSUME Inv, loop' = "none" PROVE LoopRight
  BY DEF LoopRight

LEMMA RequestStays ==
  ASSUME Inv, NEW r \in Requests PROVE Same(req[r], req[r]) \/ Freed(req[r], req[r])
  BY StateFields, RequestFields DEF Same, Freed

LEMMA Unchanged ==
  ASSUME Inv PROVE Evolves(req)
  BY StateFields, RequestStays DEF Evolves

(* The connections are right when they and their requests are left alone.  *)
LEMMA ConnsNow ==
  ASSUME Inv
  PROVE  /\ conn \in [Conns -> {"closed", "open", "leaving", "lost"}]
         /\ \A c \in Conns : conn[c] = "closed" => ClientOf(req, c) = {}
         /\ \A c \in Conns : conn[c] = "lost" =>
              \E r \in ClientOf(req, c) : req[r].toDelete % 2 = 1
  BY NoClients DEF Inv, TypeOK, RequestsConnected, DeletionRemembered, ConnBit

-----------------------------------------------------------------------------
(* release_conn                                                            *)

(* What it does to a connection, whoever calls it and why.                 *)
Releases(q, c) ==
  \/ InUse(q, c) = {} /\ CloseConn(q, c)
  \/ /\ InUse(q, c) # {} /\ req' = NoteConn(q, c)
     /\ \E x \in {"leaving", "lost"} : conn' = [conn EXCEPT ![c] = x]

LEMMA ReleaseConnReleases ==
  ASSUME NEW q, NEW c \in Conns, Inv, ReleaseConn(q, c) PROVE Releases(q, c)
<1>1. CASE InUse(q, c) = {} /\ CloseConn(q, c)
  BY <1>1 DEF Releases
<1>2. CASE InUse(q, c) # {} /\ PutOff(c) /\ req' = NoteConn(q, c)
  <2>1. \E x \in {"leaving", "lost"} : conn' = [conn EXCEPT ![c] = x]
    BY <1>2 DEF PutOff
  <2> QED BY <1>2, <2>1 DEF Releases
<1> QED BY <1>1, <1>2 DEF ReleaseConn

(* No request in use is freed, and those that are know that they are to    *)
(* delete the connection.                                                  *)
LEMMA ReleaseRequests ==
  ASSUME Inv, NEW q, Evolves(q), NEW c \in Conns, Releases(q, c)
  PROVE  /\ Evolves(req')
         /\ \A r \in Requests : q[r].conn # c => req'[r] = q[r]
         /\ \A r \in Requests : req'[r] \in Request =>
              q[r] \in Request /\ req'[r].conn = q[r].conn /\ req'[r].kind = q[r].kind
<1>1. q \in [Requests -> AnyRequest] /\ \A r \in Requests : q[r] \in AnyRequest
  BY DEF Evolves
<1>2. NoRequest \notin Request
  BY DEF NoRequest, Request
<1>3. CASE InUse(q, c) = {} /\ CloseConn(q, c)
  <2>1. req' = [r \in Requests |-> IF r \in ClientOf(q, c) THEN NoRequest ELSE q[r]]
    BY <1>3 DEF CloseConn, Without
  <2>2. req' \in [Requests -> AnyRequest]
    BY <1>1, <2>1 DEF AnyRequest
  <2>3. \A r \in ClientOf(q, c) : r \in Requests /\ q[r].conn = c /\ q[r].delay = 0
    BY <1>1, <1>3, Members, RequestFields
  <2>4. ASSUME NEW r \in Requests
        PROVE  Same(req[r], req'[r]) \/ Freed(req[r], req'[r]) \/ Made(r, req'[r])
    <3>1. Same(req[r], q[r]) \/ Freed(req[r], q[r]) \/ Made(r, q[r])
      BY DEF Evolves
    <3>2. CASE r \in ClientOf(q, c)
      <4>1. req'[r] = NoRequest /\ q[r].delay = 0
        BY <2>1, <2>3, <3>2
      <4>2. req[r].delay = 0
        BY <3>1, <4>1 DEF Same, Freed, Made, Fresh, NoRequest
      <4> QED BY <4>1, <4>2 DEF Freed
    <3>3. CASE r \notin ClientOf(q, c)
      BY <2>1, <3>1, <3>3
    <3> QED BY <3>2, <3>3
  <2> QED BY <1>2, <2>1, <2>2, <2>3, <2>4 DEF Evolves
<1>4. CASE InUse(q, c) # {} /\ req' = NoteConn(q, c)
  <2>1. req' = [r \in Requests |->
                 IF r \in InUse(q, c) THEN [q[r] EXCEPT !.toDelete = 1] ELSE q[r]]
    BY <1>4 DEF NoteConn
  <2>2. \A r \in InUse(q, c) :
          /\ r \in Requests /\ q[r] \in Request /\ q[r].conn = c /\ q[r].delay = 1
    BY <1>1, Members
  <2>3. \A r \in InUse(q, c) :
          /\ req'[r] \in Request /\ req'[r].service = q[r].service /\ req'[r].conn = q[r].conn
          /\ req'[r].kind = q[r].kind /\ req'[r].delay = q[r].delay /\ req'[r].toDelete = 1
    BY <2>1, <2>2 DEF Request
  <2>4. req' \in [Requests -> AnyRequest]
    BY <1>1, <2>1, <2>2, <2>3 DEF AnyRequest
  <2>5. ASSUME NEW r \in Requests
        PROVE  Same(req[r], req'[r]) \/ Freed(req[r], req'[r]) \/ Made(r, req'[r])
    <3>1. Same(req[r], q[r]) \/ Freed(req[r], q[r]) \/ Made(r, q[r])
      BY DEF Evolves
    <3>2. CASE r \in InUse(q, c)
      <4>1. Same(req[r], q[r])
        BY <1>2, <2>2, <3>1, <3>2 DEF Freed, Made
      <4> QED BY <2>2, <2>3, <3>2, <4>1 DEF Same
    <3>3. CASE r \notin InUse(q, c)
      BY <2>1, <3>1, <3>3
    <3> QED BY <3>2, <3>3
  <2> QED BY <2>1, <2>2, <2>3, <2>4, <2>5 DEF Evolves
<1> QED BY <1>3, <1>4 DEF Releases

LEMMA ReleaseConns1 ==
  ASSUME Inv, NEW q, Evolves(q), NEW c \in Conns, Releases(q, c)
  PROVE  /\ conn' \in [Conns -> {"closed", "open", "leaving", "lost"}]
         /\ \A d \in Conns \ {c} : conn'[d] = conn[d]
         /\ conn'[c] = "closed" => ClientOf(req', c) = {}
         /\ conn'[c] = "lost" => \E r \in ClientOf(req', c) : req'[r].toDelete % 2 = 1
<1>1. q \in [Requests -> AnyRequest] /\ conn \in [Conns -> {"closed", "open", "leaving", "lost"}]
  BY ConnsNow DEF Evolves
<1>2. req' \in [Requests -> AnyRequest]
  BY ReleaseRequests DEF Evolves
<1>3. CASE InUse(q, c) = {} /\ CloseConn(q, c)
  <2>1. conn' = [conn EXCEPT ![c] = "closed"]
    BY <1>3 DEF CloseConn
  <2>2. ASSUME NEW r \in ClientOf(req', c) PROVE FALSE
    <3>1. r \in Requests /\ req'[r] \in Request /\ req'[r].conn = c /\ req'[r].kind # "command"
      BY <1>2, <2>2, Members
    <3>2. r \in ClientOf(q, c)
      BY <1>1, <3>1, ReleaseRequests, Members
    <3>3. req'[r] = NoRequest
      BY <1>3, <3>1, <3>2 DEF CloseConn, Without
    <3> QED BY <3>1, <3>3 DEF NoRequest, Request
  <2> QED BY <1>1, <2>1, <2>2
<1>4. CASE InUse(q, c) # {} /\ req' = NoteConn(q, c)
           /\ \E x \in {"leaving", "lost"} : conn' = [conn EXCEPT ![c] = x]
  <2>1. PICK r \in InUse(q, c) : TRUE
    BY <1>4
  <2>2. r \in Requests /\ q[r] \in Request /\ q[r].conn = c /\ q[r].kind # "command"
    BY <1>1, <2>1, Members
  <2>3. req'[r] = [q[r] EXCEPT !.toDelete = 1]
    BY <1>4, <2>1, <2>2 DEF NoteConn
  <2>4. req'[r] \in Request /\ req'[r].conn = c /\ req'[r].kind # "command" /\ req'[r].toDelete = 1
    BY <2>2, <2>3 DEF Request
  <2>5. r \in ClientOf(req', c) /\ req'[r].toDelete % 2 = 1
    BY <1>2, <2>2, <2>4, Members
  <2> QED BY <1>1, <1>4, <2>5
<1> QED BY <1>3, <1>4 DEF Releases

(* A step that changes requests of one connection and releases it.         *)
LEMMA ReleaseKeepsInv ==
  ASSUME Inv, NEW q, Evolves(q), NEW c \in Conns, Releases(q, c),
         \A r \in Requests : q[r] = req[r] \/
           ((req[r] \in Request => req[r].conn = c) /\ (q[r] \in Request => q[r].conn = c)),
         UNCHANGED service, UpSame
  PROVE  Inv'
<1>1. Evolves(req') /\ req' \in [Requests -> AnyRequest]
  BY ReleaseRequests DEF Evolves
<1>2. ASSUME NEW d \in Conns \ {c}, conn[d] = "closed" PROVE ClientOf(req', d) = {}
  <2> SUFFICES ASSUME NEW r \in ClientOf(req', d) PROVE FALSE
    OBVIOUS
  <2>1. r \in Requests /\ req'[r] \in Request /\ req'[r].conn = d /\ req'[r].kind # "command"
    BY <1>1, Members
  <2>2. q[r] \in Request /\ q[r].conn = d /\ q[r].kind # "command"
    BY <2>1, ReleaseRequests
  <2>3. q[r] = req[r]
    BY <2>1, <2>2
  <2>4. r \in ClientOf(req, d)
    BY <2>1, <2>2, <2>3, StateFields, Members
  <2> QED BY <1>2, <2>4, ConnsNow
<1>3. ASSUME NEW d \in Conns \ {c}, conn[d] = "lost"
      PROVE  \E r \in ClientOf(req', d) : req'[r].toDelete % 2 = 1
  <2>1. PICK r \in ClientOf(req, d) : req[r].toDelete % 2 = 1
    BY <1>3, ConnsNow
  <2>2. r \in Requests /\ req[r] \in Request /\ req[r].conn = d /\ req[r].kind # "command"
    BY <2>1, StateFields, Members
  <2>3. req'[r] = req[r]
    BY <2>2, ReleaseRequests
  <2>4. r \in ClientOf(req', d)
    BY <1>1, <2>2, <2>3, Members
  <2> QED BY <2>1, <2>3, <2>4
<1>4. ConnsRight
  BY <1>2, <1>3, ReleaseConns1 DEF ConnsRight
<1> QED BY <1>1, <1>4, ServicesStay, EvolveKeepsInv

LEMMA ReleaseNowKeepsInv ==
  ASSUME Inv, NEW c \in Conns, Releases(req, c), UNCHANGED service, UpSame PROVE Inv'
  BY Unchanged, ReleaseKeepsInv

(* A step without a release.                                               *)
LEMMA PlainKeepsInv ==
  ASSUME Inv, Evolves(req'), UNCHANGED <<service, conn>>, UpSame,
         \A c \in Conns : conn[c] = "closed" => ClientOf(req', c) = {},
         \A c \in Conns : conn[c] = "lost" =>
           \A r \in ClientOf(req, c) : req[r].toDelete % 2 = 1 =>
             r \in ClientOf(req', c) /\ req'[r].toDelete % 2 = 1
  PROVE  Inv'
<1>1. ConnsRight
  BY ConnsNow DEF ConnsRight
<1> QED BY <1>1, ServicesStay, EvolveKeepsInv

(* execute_service, for a request there is.                                *)
LEMMA ExecuteKeepsInv ==
  ASSUME Inv, NEW r \in Requests, req[r] \in Request, Execute(req, r),
         UNCHANGED service, UpSame
  PROVE  Inv'
<1>1. CASE req' = req /\ UNCHANGED conn
  BY <1>1, Unchanged, ConnsNow, PlainKeepsInv
<1>2. CASE req[r].delay > 0 /\ req' = [req EXCEPT ![r].toDelete = 1] /\ UNCHANGED conn
  <2>1. req[r].delay = 1
    BY <1>2, StateFields, RequestFields
  <2>2. /\ req'[r] \in Request /\ req'[r].service = req[r].service /\ req'[r].conn = req[r].conn
        /\ req'[r].kind = req[r].kind /\ req'[r].delay = req[r].delay /\ req'[r].toDelete = 1
        /\ \A t \in Requests \ {r} : req'[t] = req[t]
    BY <1>2, StateFields DEF Request
  <2>3. req' \in [Requests -> AnyRequest]
    BY <1>2, <2>2, StateFields DEF AnyRequest
  <2>4. Evolves(req')
    BY <2>1, <2>2, <2>3, RequestStays DEF Evolves, Same
  <2>5. \A c \in Conns, t \in Requests : t \in ClientOf(req', c) <=> t \in ClientOf(req, c)
    BY <2>2, <2>3, StateFields, Members
  <2>6. ASSUME NEW c \in Conns, conn[c] = "closed" PROVE ClientOf(req', c) = {}
    <3> SUFFICES ASSUME NEW t \in ClientOf(req', c) PROVE FALSE
      OBVIOUS
    <3>1. t \in Requests
      BY <2>3, Members
    <3>2. t \in ClientOf(req, c)
      BY <2>5, <3>1
    <3> QED BY <2>6, <3>2, ConnsNow
  <2>7. \A t \in Requests : req[t].toDelete % 2 = 1 => req'[t].toDelete % 2 = 1
    BY <2>2
  <2>8. \A c \in Conns : \A t \in ClientOf(req, c) : t \in Requests
    BY StateFields, Members
  <2> QED BY <1>2, <2>4, <2>5, <2>6, <2>7, <2>8, PlainKeepsInv
<1>3. CASE ReleaseConn(req, req[r].conn)
  <2>1. req[r].conn \in Conns
    BY StateFields, RequestFields
  <2> QED BY <1>3, <2>1, ReleaseConnReleases, ReleaseNowKeepsInv
<1> QED BY <1>1, <1>2, <1>3 DEF Execute

LEMMA StutterKeepsInv ==
  ASSUME Inv, UNCHANGED <<service, req, conn>>, UpSame PROVE Inv'
  BY Unchanged, ConnsNow, PlainKeepsInv

-----------------------------------------------------------------------------
(* What clients do.                                                        *)

Adds(q, c, s, r, kind) == q = [req EXCEPT ![r] = NewRequest(c, s, kind)]

LEMMA NewRequestEvolves ==
  ASSUME Inv, NEW c \in Conns, NEW s \in Services, NEW r \in Requests,
         NEW kind \in {"monitored", "timed", "command"}, Alive(s), Fresh(r),
         NEW q, Adds(q, c, s, r, kind)
  PROVE  /\ Evolves(q) /\ q[r] \in Request /\ q[r].conn = c
         /\ q[r].delay = 0 /\ q[r].toDelete = 0
         /\ req[r] = NoRequest /\ NoRequest \notin Request
         /\ \A t \in Requests \ {r} : q[t] = req[t]
<1>1. /\ q[r] = NewRequest(c, s, kind) /\ \A t \in Requests \ {r} : q[t] = req[t]
  BY StateFields DEF Adds
<1>2. /\ q[r] \in Request /\ q[r].conn = c /\ q[r].delay = 0 /\ q[r].toDelete = 0
      /\ q[r].service = s
  BY <1>1 DEF NewRequest, Request
<1>3. q \in [Requests -> AnyRequest]
  BY <1>2, StateFields DEF Adds, AnyRequest
<1>4. Made(r, q[r])
  BY <1>2 DEF Made
<1>5. Evolves(q)
  BY <1>1, <1>3, <1>4, RequestStays DEF Evolves
<1> QED BY <1>1, <1>2, <1>5 DEF Fresh, NoRequest, Request

LEMMA NewRequestKeepsInv ==
  ASSUME Inv, NEW c \in Conns, NEW s \in Services, NEW r \in Requests,
         NEW kind \in {"monitored", "timed", "command"}, Alive(s), Fresh(r),
         conn[c] \in Present, Adds(req', c, s, r, kind),
         UNCHANGED <<service, conn>>, UpSame
  PROVE  Inv'
<1>1. /\ Evolves(req') /\ req'[r].conn = c /\ req[r] = NoRequest /\ NoRequest \notin Request
      /\ \A t \in Requests \ {r} : req'[t] = req[t]
  BY NewRequestEvolves
<1>2. req' \in [Requests -> AnyRequest]
  BY <1>1 DEF Evolves
<1>3. \A d, t : t \in ClientOf(req', d) <=>
        t \in Requests /\ req'[t] \in Request /\ req'[t].conn = d /\ req'[t].kind # "command"
  BY <1>2, Members
<1>4. ASSUME NEW d \in Conns, conn[d] = "closed" PROVE ClientOf(req', d) = {}
  <2> SUFFICES ASSUME NEW t \in ClientOf(req', d) PROVE FALSE
    OBVIOUS
  <2>1. t \in Requests /\ req'[t] \in Request /\ req'[t].conn = d /\ req'[t].kind # "command"
    BY <1>3
  <2>2. t # r
    BY <1>1, <1>4, <2>1 DEF Present
  <2>3. t \in ClientOf(req, d)
    BY <1>1, <2>1, <2>2, StateFields, Members
  <2> QED BY <1>4, <2>3, ConnsNow
<1>5. ASSUME NEW d \in Conns, NEW t \in ClientOf(req, d)
      PROVE  t \in ClientOf(req', d) /\ req'[t] = req[t]
  <2>1. t \in Requests /\ req[t] \in Request /\ req[t].conn = d /\ req[t].kind # "command"
    BY StateFields, Members
  <2>2. req'[t] = req[t]
    BY <1>1, <2>1
  <2> QED BY <1>3, <2>1, <2>2
<1> QED BY <1>1, <1>4, <1>5, PlainKeepsInv

LEMMA ConnectKeepsInv ==
  ASSUME Inv, NEW c \in Conns, Connect(c) PROVE Inv'
<1>1. conn' = [conn EXCEPT ![c] = "open"] /\ UNCHANGED <<service, req, up, loop>>
  BY DEF Connect
<1>2. UpSame /\ Evolves(req')
  BY <1>1, UpStays, LoopStays, Unchanged
<1>3. ConnsRight
  BY <1>1, ConnsNow DEF ConnsRight
<1> QED BY <1>1, <1>2, <1>3, ServicesStay, EvolveKeepsInv

LEMMA SubscribeKeepsInv ==
  ASSUME Inv, NEW c \in Conns, NEW s \in Services, NEW r \in Requests,
         NEW kind \in {"monitored", "timed"}, Subscribe(c, s, r, kind)
  PROVE  Inv'
<1>1. PICK q : q = [req EXCEPT ![r] = NewRequest(c, s, kind)]
  OBVIOUS
<1>2. /\ conn[c] \in Present /\ Alive(s) /\ Fresh(r) /\ Execute(q, r)
      /\ UNCHANGED <<service, up, loop>> /\ Adds(q, c, s, r, kind)
  BY <1>1 DEF Subscribe, Adds
<1>3. /\ Evolves(q) /\ q[r].conn = c /\ q[r].delay = 0 /\ req[r] = NoRequest
      /\ NoRequest \notin Request
      /\ \A t \in Requests \ {r} : q[t] = req[t]
  BY <1>2, NewRequestEvolves
<1>4. UpSame
  BY <1>2, UpStays, LoopStays
<1>5. CASE req' = q /\ UNCHANGED conn
  <2>1. Adds(req', c, s, r, kind)
    BY <1>2, <1>5
  <2> QED BY <1>2, <1>4, <1>5, <2>1, NewRequestKeepsInv
<1>6. CASE ReleaseConn(q, q[r].conn)
  <2>1. Releases(q, c)
    BY <1>3, <1>6, ReleaseConnReleases
  <2>2. \A t \in Requests : q[t] = req[t] \/
          ((req[t] \in Request => req[t].conn = c) /\ (q[t] \in Request => q[t].conn = c))
    BY <1>3
  <2> QED BY <1>2, <1>3, <1>4, <2>1, <2>2, ReleaseKeepsInv
<1> QED BY <1>2, <1>3, <1>5, <1>6 DEF Execute

LEMMA AskOnceKeepsInv ==
  ASSUME Inv, NEW c \in Conns, NEW s \in Services, AskOnce(c, s) PROVE Inv'
<1>1. UNCHANGED service /\ UpSame
  BY UpStays, LoopStays DEF AskOnce
<1>2. CASE ReleaseConn(req, c)
  BY <1>1, <1>2, ReleaseConnReleases, ReleaseNowKeepsInv
<1>3. CASE UNCHANGED <<req, conn>>
  BY <1>1, <1>3, StutterKeepsInv
<1> QED BY <1>2, <1>3 DEF AskOnce

LEMMA CommandKeepsInv ==
  ASSUME Inv, NEW c \in Conns, NEW s \in Services, NEW r \in Requests, Command(c, s, r)
  PROVE  Inv'
<1>1. /\ Adds(req', c, s, r, "command") /\ Alive(s) /\ Fresh(r) /\ conn[c] \in Present
      /\ UNCHANGED <<service, conn, up, loop>>
  BY DEF Command, Adds
<1> QED BY <1>1, UpStays, LoopStays, NewRequestKeepsInv

LEMMA UnknownServiceKeepsInv ==
  ASSUME Inv, NEW c \in Conns, UnknownService(c) PROVE Inv'
  BY UpStays, LoopStays, ReleaseConnReleases, ReleaseNowKeepsInv DEF UnknownService

LEMMA DisconnectKeepsInv ==
  ASSUME Inv, NEW c \in Conns, Disconnect(c) PROVE Inv'
<1>1. Releases(req, c) /\ UNCHANGED <<service, up, loop>>
  BY DEF Disconnect, Releases
<1> QED BY <1>1, UpStays, LoopStays, ReleaseNowKeepsInv

LEMMA TimerKeepsInv ==
  ASSUME Inv, NEW r \in Requests, Timer(r) PROVE Inv'
<1>1. req[r] \in Request
  BY StateFields, RequestFields DEF Timer
<1> QED BY <1>1, UpStays, LoopStays, ExecuteKeepsInv DEF Timer

Frees(q, r) == q = Without(req, {r})

LEMMA FreeOneEvolves ==
  ASSUME Inv, NEW r \in Requests, req[r].delay = 0, NEW q, Frees(q, r)
  PROVE  /\ Evolves(q) /\ q[r] = NoRequest /\ \A t \in Requests \ {r} : q[t] = req[t]
<1>1. q[r] = NoRequest /\ \A t \in Requests \ {r} : q[t] = req[t]
  BY DEF Frees, Without
<1>2. q \in [Requests -> AnyRequest]
  BY StateFields DEF Frees, Without, AnyRequest
<1> QED BY <1>1, <1>2, RequestStays DEF Evolves, Freed

(* A request goes, and its connection is not lost, or not because of it.   *)
LEMMA FreeOneKeepsInv ==
  ASSUME Inv, NEW r \in Requests, req[r].delay = 0, Frees(req', r),
         req[r].toDelete % 2 # 1 \/ conn[req[r].conn] # "lost",
         UNCHANGED <<service, conn>>, UpSame
  PROVE  Inv'
<1>1. /\ Evolves(req') /\ req'[r] = NoRequest /\ NoRequest \notin Request
      /\ \A t \in Requests \ {r} : req'[t] = req[t]
  BY FreeOneEvolves DEF NoRequest, Request
<1>2. req' \in [Requests -> AnyRequest]
  BY <1>1 DEF Evolves
<1>3. \A d, t : t \in ClientOf(req', d) <=>
        t \in Requests /\ req'[t] \in Request /\ req'[t].conn = d /\ req'[t].kind # "command"
  BY <1>2, Members
<1>4. ASSUME NEW d \in Conns, conn[d] = "closed" PROVE ClientOf(req', d) = {}
  <2> SUFFICES ASSUME NEW t \in ClientOf(req', d) PROVE FALSE
    OBVIOUS
  <2>1. t \in Requests /\ req'[t] \in Request /\ req'[t].conn = d /\ req'[t].kind # "command"
    BY <1>3
  <2>2. req'[t] = req[t]
    BY <1>1, <2>1
  <2>3. t \in ClientOf(req, d)
    BY <2>1, <2>2, StateFields, Members
  <2> QED BY <1>4, <2>3, ConnsNow
<1>5. ASSUME NEW d \in Conns, conn[d] = "lost", NEW t \in ClientOf(req, d),
             req[t].toDelete % 2 = 1
      PROVE  t \in ClientOf(req', d) /\ req'[t] = req[t]
  <2>1. t \in Requests /\ req[t] \in Request /\ req[t].conn = d /\ req[t].kind # "command"
    BY StateFields, Members
  <2>2. req'[t] = req[t]
    BY <1>1, <1>5, <2>1
  <2> QED BY <1>3, <2>1, <2>2
<1> QED BY <1>1, <1>4, <1>5, PlainKeepsInv

LEMMA UnsubscribeKeepsInv ==
  ASSUME Inv, NEW r \in Requests, Unsubscribe(r) PROVE Inv'
<1>1. /\ req[r] \in Request /\ req[r].toDelete \in {0, 1} /\ req[r].delay \in {0, 1}
      /\ conn[req[r].conn] # "lost" /\ UNCHANGED <<service, conn, up, loop>>
  BY StateFields, RequestFields DEF Unsubscribe, Present
<1>2. UpSame
  BY <1>1, UpStays, LoopStays
<1>3. CASE req[r].delay = 0 /\ req' = Without(req, {r})
  <2>1. Frees(req', r)
    BY <1>3 DEF Frees
  <2> QED BY <1>1, <1>2, <1>3, <2>1, FreeOneKeepsInv
<1>4. CASE req[r].delay = 1 /\ req' = [req EXCEPT ![r].toDelete = @ + 2]
  <2>1. /\ req'[r] \in Request /\ req'[r].service = req[r].service /\ req'[r].conn = req[r].conn
        /\ req'[r].kind = req[r].kind /\ req'[r].delay = req[r].delay
        /\ req'[r].toDelete = req[r].toDelete + 2
        /\ \A t \in Requests \ {r} : req'[t] = req[t]
    BY <1>1, <1>4, StateFields DEF Request
  <2>2. req' \in [Requests -> AnyRequest]
    BY <1>4, <2>1, StateFields DEF AnyRequest
  <2>3. Evolves(req')
    BY <1>1, <1>4, <2>1, <2>2, RequestStays DEF Evolves, Same
  <2>4. \A c \in Conns, t \in Requests : t \in ClientOf(req', c) <=> t \in ClientOf(req, c)
    BY <1>1, <2>1, <2>2, StateFields, Members
  <2>5. ASSUME NEW c \in Conns, conn[c] = "closed" PROVE ClientOf(req', c) = {}
    <3> SUFFICES ASSUME NEW t \in ClientOf(req', c) PROVE FALSE
      OBVIOUS
    <3>1. t \in Requests
      BY <2>2, Members
    <3>2. t \in ClientOf(req, c)
      BY <2>4, <3>1
    <3> QED BY <2>5, <3>2, ConnsNow
  <2>6. \A t \in Requests : req[t].toDelete % 2 = 1 => req'[t].toDelete % 2 = 1
    BY <1>1, <2>1
  <2>7. \A c \in Conns : \A t \in ClientOf(req, c) : t \in Requests
    BY StateFields, Members
  <2> QED BY <1>1, <1>2, <2>3, <2>4, <2>5, <2>6, <2>7, PlainKeepsInv
<1> QED BY <1>1, <1>3, <1>4 DEF Unsubscribe
-----------------------------------------------------------------------------
(* What the server's application does.                                     *)

LEMMA AddServiceKeepsInv ==
  ASSUME Inv, NEW s \in Services, AddService(s) PROVE Inv'
<1>1. /\ service[s].life = "new" /\ service[s].toDelete = 0
      /\ service' = [service EXCEPT ![s].life = "alive"]
      /\ UNCHANGED <<req, conn, up, loop>>
  BY DEF AddService, Inv, ServiceState
<1>2. service \in [Services -> [life : {"new", "alive", "gone"}, delay : 0..1, toDelete : 0..1]]
  BY DEF Inv, TypeOK
<1>3. /\ service'[s].life = "alive" /\ service'[s].toDelete = 0
      /\ service'[s].delay = service[s].delay
      /\ \A t \in Services \ {s} : service'[t] = service[t]
      /\ service' \in [Services -> [life : {"new", "alive", "gone"}, delay : 0..1, toDelete : 0..1]]
  BY <1>1, <1>2
<1>4. UpSame /\ Evolves(req') /\ ConnsRight
  BY <1>1, UpStays, LoopStays, Unchanged, ConnsNow DEF ConnsRight
<1>5. \A u \in Updaters, t \in Services : Updating(u, t)' <=> Updating(u, t)
  BY <1>1 DEF Updating
<1>6. ServiceState'
  <2> SUFFICES ASSUME NEW t \in Services
               PROVE  /\ service'[t].delay = 1 <=> \E u \in Updaters : Updating(u, t)
                      /\ service'[t].life = "new" => service'[t].toDelete = 0
    BY <1>5 DEF ServiceState
  <2>1. /\ service[t].delay = 1 <=> \E u \in Updaters : Updating(u, t)
        /\ service[t].life = "new" => service[t].toDelete = 0
    BY DEF Inv, ServiceState
  <2> QED BY <1>3, <2>1
<1>7. \A u \in Updaters, t \in Services : Updating(u, t)' => Alive(t)'
  BY <1>3, <1>5 DEF Inv, UpdateUsesLive, Alive
<1>8. \A t \in Services : Alive(t)' /\ service'[t].toDelete # 0 => \E u \in Updaters : Updating(u, t)'
  BY <1>3, <1>5 DEF Inv, DeletionRemembered, Alive
<1>9. \A r \in Allocated(req) : service'[req[r].service].life = "alive"
  <2> SUFFICES ASSUME NEW r \in Allocated(req) PROVE service'[req[r].service].life = "alive"
    OBVIOUS
  <2>1. req[r].service \in Services
    BY StateFields, Members, RequestFields
  <2>2. service[req[r].service].life = "alive"
    BY DEF Inv, RequestsConnected, RequestsServed, Alive
  <2> QED BY <1>3, <2>1, <2>2
<1>10. ServicesRight
  BY <1>1, <1>3, <1>6, <1>7, <1>8, <1>9 DEF ServicesRight
<1> QED BY <1>4, <1>10, EvolveKeepsInv

(* A service that is not being updated has no request in use.              *)
LEMMA IdleService ==
  ASSUME Inv, NEW s \in Services, \A u \in Updaters : ~Updating(u, s),
         NEW r \in ListOf(req, s)
  PROVE  req[r].delay = 0 /\ req[r].toDelete = 0
<1>1. r \in Requests /\ req[r] \in Request /\ req[r].service = s /\ req[r].delay \in {0, 1}
  BY StateFields, Members, RequestFields
<1>2. req[r].delay # 1
  BY <1>1 DEF Inv, DelayMarked, Sending, Updating
<1>3. req[r].toDelete = 0
  BY <1>1 DEF Inv, DeletionRemembered
<1> QED BY <1>1, <1>2, <1>3

(* Freeing the list of a service whose requests nobody uses.               *)
LEMMA WithdrawEvolves ==
  ASSUME Inv, NEW s \in Services, req' = Withdrawn(s),
         \A r \in ListOf(req, s) : req[r].delay = 0 /\ req[r].toDelete = 0
  PROVE  /\ Evolves(req')
         /\ \A r \in ListOf(req, s) : req'[r] = NoRequest
         /\ \A r \in Requests \ ListOf(req, s) : req'[r] = req[r]
<1>1. \A r \in ListOf(req, s) : r \in Requests
  BY StateFields, Members
<1>2. /\ \A r \in ListOf(req, s) : req'[r] = NoRequest
      /\ \A r \in Requests \ ListOf(req, s) : req'[r] = req[r]
  BY <1>1 DEF Withdrawn, Without
<1>3. req' \in [Requests -> AnyRequest]
  BY StateFields DEF Withdrawn, Without, AnyRequest
<1>4. \A r \in Requests : Same(req[r], req'[r]) \/ Freed(req[r], req'[r]) \/ Made(r, req'[r])
  BY <1>2, RequestStays DEF Freed
<1> QED BY <1>2, <1>3, <1>4 DEF Evolves

Withdraws(s) ==
  /\ \A r \in ListOf(req, s) : req'[r] = NoRequest /\ req[r].toDelete = 0
  /\ \A r \in Requests \ ListOf(req, s) : req'[r] = req[r]

LEMMA WithdrawConns ==
  ASSUME Inv, NEW s \in Services, req' \in [Requests -> AnyRequest], Withdraws(s), UNCHANGED conn
  PROVE  /\ ConnsRight
         /\ \A r \in Allocated(req') : r \in Allocated(req) /\ req'[r] = req[r] /\ req[r].service # s
<1>1. ASSUME NEW r \in Requests, req'[r] \in Request
      PROVE  r \in Allocated(req) /\ req'[r] = req[r] /\ req[r].service # s
  <2>1. NoRequest \notin Request
    BY DEF NoRequest, Request
  <2>2. r \notin ListOf(req, s)
    BY <1>1, <2>1 DEF Withdraws
  <2>3. req'[r] = req[r]
    BY <2>2 DEF Withdraws
  <2> QED BY <1>1, <2>2, <2>3, StateFields, Members
<1>2. ASSUME NEW c \in Conns, conn[c] = "closed" PROVE ClientOf(req', c) = {}
  <2> SUFFICES ASSUME NEW r \in ClientOf(req', c) PROVE FALSE
    OBVIOUS
  <2>1. r \in Requests /\ req'[r] \in Request /\ req'[r].conn = c /\ req'[r].kind # "command"
    BY Members
  <2>2. r \in ClientOf(req, c)
    BY <1>1, <2>1, StateFields, Members
  <2> QED BY <1>2, <2>2, ConnsNow
<1>3. ASSUME NEW c \in Conns, conn[c] = "lost"
      PROVE  \E r \in ClientOf(req', c) : req'[r].toDelete % 2 = 1
  <2>1. PICK r \in ClientOf(req, c) : req[r].toDelete % 2 = 1
    BY <1>3, ConnsNow
  <2>2. r \in Requests /\ req[r] \in Request /\ req[r].conn = c /\ req[r].kind # "command"
    BY StateFields, Members
  <2>3. r \notin ListOf(req, s)
    BY <2>1 DEF Withdraws
  <2>4. req'[r] = req[r]
    BY <2>2, <2>3 DEF Withdraws
  <2>5. r \in ClientOf(req', c)
    BY <2>2, <2>4, Members
  <2> QED BY <2>1, <2>4, <2>5
<1> QED BY <1>1, <1>2, <1>3, ConnsNow, Members DEF ConnsRight

LEMMA RemoveServiceKeepsInv ==
  ASSUME Inv, NEW s \in Services, RemoveService(s) PROVE Inv'
<1>1. service \in [Services -> [life : {"new", "alive", "gone"}, delay : 0..1, toDelete : 0..1]]
  BY DEF Inv, TypeOK
<1>2. UNCHANGED <<conn, up, loop>> /\ Alive(s) /\ UpSame
  BY UpStays, LoopStays DEF RemoveService
<1>3. \A u \in Updaters, t \in Services : Updating(u, t)' <=> Updating(u, t)
  BY <1>2 DEF Updating
<1>4. \A t \in Services :
        /\ service[t].delay = 1 <=> \E u \in Updaters : Updating(u, t)
        /\ service[t].life = "new" => service[t].toDelete = 0
        /\ Alive(t) /\ service[t].toDelete # 0 => \E u \in Updaters : Updating(u, t)
        /\ \A u \in Updaters : Updating(u, t) => Alive(t)
  BY DEF Inv, ServiceState, DeletionRemembered, UpdateUsesLive
<1>5. CASE /\ service[s].delay = 1
           /\ service' = [service EXCEPT ![s].toDelete = 1] /\ UNCHANGED req
  <2>1. /\ service'[s].life = service[s].life /\ service'[s].delay = 1 /\ service'[s].toDelete = 1
        /\ \A t \in Services \ {s} : service'[t] = service[t]
        /\ service' \in [Services -> [life : {"new", "alive", "gone"}, delay : 0..1, toDelete : 0..1]]
    BY <1>1, <1>5
  <2>2. ServiceState'
    <3> SUFFICES ASSUME NEW t \in Services
                 PROVE  /\ service'[t].delay = 1 <=> \E u \in Updaters : Updating(u, t)'
                        /\ service'[t].life = "new" => service'[t].toDelete = 0
      BY DEF ServiceState
    <3> QED BY <1>2, <1>3, <1>4, <1>5, <2>1 DEF Alive
  <2>3. \A u \in Updaters, t \in Services : Updating(u, t)' => Alive(t)'
    BY <1>3, <1>4, <2>1 DEF Alive
  <2>4. \A t \in Services : Alive(t)' /\ service'[t].toDelete # 0 => \E u \in Updaters : Updating(u, t)'
    BY <1>3, <1>4, <1>5, <2>1 DEF Alive
  <2>5. \A r \in Allocated(req) : service'[req[r].service].life = "alive"
    <3> SUFFICES ASSUME NEW r \in Allocated(req) PROVE service'[req[r].service].life = "alive"
      OBVIOUS
    <3>1. req[r].service \in Services
      BY StateFields, Members, RequestFields
    <3>2. service[req[r].service].life = "alive"
      BY DEF Inv, RequestsConnected, RequestsServed, Alive
    <3> QED BY <2>1, <3>1, <3>2
  <2>6. ServicesRight
    BY <1>5, <2>1, <2>2, <2>3, <2>4, <2>5 DEF ServicesRight
  <2>7. Evolves(req') /\ ConnsRight
    BY <1>2, <1>5, Unchanged, ConnsNow DEF ConnsRight
  <2> QED BY <1>2, <2>6, <2>7, EvolveKeepsInv
<1>6. CASE /\ service[s].delay = 0
           /\ service' = [service EXCEPT ![s].life = "gone"] /\ req' = Withdrawn(s)
  <2>1. /\ service'[s].life = "gone" /\ service'[s].delay = 0
        /\ \A t \in Services \ {s} : service'[t] = service[t]
        /\ service' \in [Services -> [life : {"new", "alive", "gone"}, delay : 0..1, toDelete : 0..1]]
    BY <1>1, <1>6
  <2>2. \A u \in Updaters : ~Updating(u, s)
    BY <1>4, <1>6
  <2>3. \A r \in ListOf(req, s) : req[r].delay = 0 /\ req[r].toDelete = 0
    BY <2>2, IdleService
  <2>4. Evolves(req') /\ Withdraws(s)
    BY <1>6, <2>3, WithdrawEvolves DEF Withdraws
  <2>5. /\ ConnsRight
        /\ \A r \in Allocated(req') : r \in Allocated(req) /\ req'[r] = req[r] /\ req[r].service # s
    BY <1>2, <2>4, WithdrawConns DEF Evolves
  <2>6. ServiceState'
    <3> SUFFICES ASSUME NEW t \in Services
                 PROVE  /\ service'[t].delay = 1 <=> \E u \in Updaters : Updating(u, t)'
                        /\ service'[t].life = "new" => service'[t].toDelete = 0
      BY DEF ServiceState
    <3> QED BY <1>3, <1>4, <2>1, <2>2
  <2>7. \A u \in Updaters, t \in Services : Updating(u, t)' => Alive(t)'
    BY <1>3, <1>4, <2>1, <2>2 DEF Alive
  <2>8. \A t \in Services : Alive(t)' /\ service'[t].toDelete # 0 => \E u \in Updaters : Updating(u, t)'
    BY <1>3, <1>4, <2>1 DEF Alive
  <2>9. \A r \in Allocated(req') : service'[req'[r].service].life = "alive"
    <3> SUFFICES ASSUME NEW r \in Allocated(req') PROVE service'[req'[r].service].life = "alive"
      OBVIOUS
    <3>1. r \in Allocated(req) /\ req'[r] = req[r] /\ req[r].service # s
      BY <2>5
    <3>2. req[r].service \in Services
      BY <3>1, StateFields, Members, RequestFields
    <3>3. service[req[r].service].life = "alive"
      BY <3>1 DEF Inv, RequestsConnected, RequestsServed, Alive
    <3> QED BY <2>1, <3>1, <3>2, <3>3
  <2>10. ServicesRight
    BY <2>1, <2>6, <2>7, <2>8, <2>9 DEF ServicesRight
  <2> QED BY <1>2, <2>4, <2>5, <2>10, EvolveKeepsInv
<1>7. service[s].delay \in {0, 1}
  BY <1>1
<1> QED BY <1>5, <1>6, <1>7 DEF RemoveService
(* release_conn for several connections.                                   *)
(* Requests that differ only in that some in use are to go.                *)
Marks(q) ==
  \A r \in Requests :
    \/ q[r] = req[r]
    \/ /\ req[r] \in Request /\ req[r].delay = 1
       /\ q[r] = [req[r] EXCEPT !.toDelete = 1]

LEMMA MarkedRequests ==
  ASSUME Inv, NEW q \in [Requests -> AnyRequest], Marks(q)
  PROVE  /\ \A r \in Requests :
              /\ req[r] \in Request <=> q[r] \in Request
              /\ q[r] \in Request => /\ Same(req[r], q[r])
                                     /\ req[r].toDelete % 2 = 1 => q[r].toDelete % 2 = 1
              /\ q[r] \notin Request => q[r] = req[r] /\ req[r] = NoRequest
         /\ \A c : ClientOf(q, c) = ClientOf(req, c) /\ InUse(q, c) = InUse(req, c)
<1>1. ASSUME NEW r \in Requests, q[r] # req[r]
      PROVE  /\ req[r] \in Request /\ req[r].delay = 1
             /\ q[r] \in Request /\ q[r].service = req[r].service /\ q[r].conn = req[r].conn
             /\ q[r].kind = req[r].kind /\ q[r].delay = 1 /\ q[r].toDelete = 1
  <2>1. req[r] \in Request /\ req[r].delay = 1 /\ q[r] = [req[r] EXCEPT !.toDelete = 1]
    BY <1>1 DEF Marks
  <2> QED BY <2>1 DEF Request
<1>2. \A r \in Requests : req[r] \in AnyRequest /\ q[r] \in AnyRequest
  BY StateFields
<1>3. ASSUME NEW r \in Requests
      PROVE  /\ req[r] \in Request <=> q[r] \in Request
             /\ q[r] \in Request => /\ Same(req[r], q[r])
                                    /\ req[r].toDelete % 2 = 1 => q[r].toDelete % 2 = 1
             /\ q[r] \notin Request => q[r] = req[r] /\ req[r] = NoRequest
             /\ q[r] \in Request =>
                  q[r].conn = req[r].conn /\ q[r].kind = req[r].kind /\ q[r].delay = req[r].delay
  <2>1. CASE q[r] = req[r]
    BY <1>2, <2>1, RequestFields DEF Same
  <2>2. CASE q[r] # req[r]
    BY <1>1, <2>2 DEF Same
  <2> QED BY <2>1, <2>2
<1>4. ASSUME NEW c PROVE ClientOf(q, c) = ClientOf(req, c)
  <2>1. \A r : r \in ClientOf(q, c) <=> r \in ClientOf(req, c)
    BY <1>3, StateFields, Members
  <2> QED BY <2>1
<1>5. ASSUME NEW c PROVE InUse(q, c) = InUse(req, c)
  <2>1. \A r : r \in InUse(q, c) <=> r \in InUse(req, c)
    BY <1>3, <1>4, StateFields, Members
  <2> QED BY <2>1
<1> QED BY <1>3, <1>4, <1>5

LEMMA ReleaseConnsRight ==
  ASSUME Inv, NEW F \in SUBSET Conns, NEW q \in [Requests -> AnyRequest], Marks(q),
         ReleaseConns(q, F)
  PROVE  Evolves(req') /\ ConnsRight
<1> DEFINE closed == Closable(q, F)
           noted == UNION {InUse(q, c) : c \in F}
           freed == UNION {ClientOf(q, c) : c \in closed}
<1>1. /\ req' = [r \in Requests |->
                  IF r \in freed THEN NoRequest
                  ELSE IF r \in noted THEN [q[r] EXCEPT !.toDelete = 1] ELSE q[r]]
      /\ conn' = [c \in Conns |-> IF c \in closed THEN "closed"
                    ELSE IF c \in F /\ conn[c] # "lost" THEN "leaving" ELSE conn[c]]
  BY DEF ReleaseConns, Released
<1>2. \A r : r \in freed <=>
        \E c \in F : InUse(req, c) = {} /\ r \in ClientOf(req, c)
  BY MarkedRequests DEF Closable
<1>3. \A r : r \in noted <=> \E c \in F : r \in InUse(req, c)
  BY MarkedRequests
<1>4. NoRequest \notin Request
  BY DEF NoRequest, Request
<1>5. ASSUME NEW r \in freed
      PROVE  r \in Requests /\ req'[r] = NoRequest /\ req[r].delay = 0
  <2>1. PICK c \in F : InUse(req, c) = {} /\ r \in ClientOf(req, c)
    BY <1>2
  <2>2. r \in Requests /\ req[r].delay \in {0, 1}
    BY <2>1, StateFields, Members, RequestFields
  <2>3. req[r].delay # 1
    BY <2>1, StateFields, Members
  <2> QED BY <1>1, <2>2, <2>3
<1>6. ASSUME NEW r \in noted, r \notin freed
      PROVE  /\ r \in Requests /\ req'[r] \in Request /\ req'[r].toDelete = 1
             /\ Same(req[r], req'[r])
  <2>1. PICK c \in F : r \in InUse(req, c)
    BY <1>3
  <2>2. r \in Requests /\ req[r] \in Request /\ req[r].delay = 1
    BY <2>1, StateFields, Members
  <2>3. q[r] \in Request /\ Same(req[r], q[r])
    BY <2>2, MarkedRequests
  <2>4. req'[r] = [q[r] EXCEPT !.toDelete = 1]
    BY <1>1, <1>6, <2>2
  <2>5. /\ req'[r] \in Request /\ req'[r].service = q[r].service /\ req'[r].conn = q[r].conn
        /\ req'[r].kind = q[r].kind /\ req'[r].delay = q[r].delay /\ req'[r].toDelete = 1
    BY <2>3, <2>4 DEF Request
  <2> QED BY <2>2, <2>3, <2>5 DEF Same
<1>7. \A r \in Requests : r \notin freed /\ r \notin noted => req'[r] = q[r]
  BY <1>1
<1>8. req' \in [Requests -> AnyRequest]
  <2>1. \A r \in Requests : req'[r] \in AnyRequest
    BY <1>5, <1>6, <1>7 DEF AnyRequest
  <2> HIDE DEF closed, noted, freed
  <2> QED BY <1>1, <2>1
<1> HIDE DEF closed, noted, freed
<1>9. Evolves(req')
  <2>1. ASSUME NEW r \in Requests
        PROVE  Same(req[r], req'[r]) \/ Freed(req[r], req'[r]) \/ Made(r, req'[r])
    <3>1. CASE r \notin freed /\ r \notin noted
      BY <1>7, <3>1, RequestStays, MarkedRequests
    <3> QED BY <1>5, <1>6, <3>1 DEF Freed
  <2> QED BY <1>8, <2>1 DEF Evolves
<1>10. ASSUME NEW r \in Requests, req'[r] \in Request
       PROVE  /\ r \notin freed /\ req[r] \in Request
              /\ req'[r].conn = req[r].conn /\ req'[r].kind = req[r].kind
  BY <1>4, <1>5, <1>6, <1>7, <1>10, MarkedRequests DEF Same
<1>11. \A c \in Conns :
         /\ c \in closed <=> c \in F /\ InUse(req, c) = {}
         /\ c \in closed => conn'[c] = "closed"
         /\ c \notin closed =>
              IF c \in F /\ conn[c] # "lost" THEN conn'[c] = "leaving" ELSE conn'[c] = conn[c]
  BY <1>1, MarkedRequests DEF closed, Closable
<1>12. conn' \in [Conns -> {"closed", "open", "leaving", "lost"}]
  BY <1>1, ConnsNow
<1>13. ASSUME NEW c \in Conns, conn'[c] = "closed" PROVE ClientOf(req', c) = {}
  <2> SUFFICES ASSUME NEW r \in ClientOf(req', c) PROVE FALSE
    OBVIOUS
  <2>1. r \in Requests /\ req'[r] \in Request /\ req'[r].conn = c /\ req'[r].kind # "command"
    BY <1>8, Members
  <2>2. r \in ClientOf(req, c) /\ r \notin freed
    BY <1>10, <2>1, StateFields, Members
  <2>3. conn[c] = "closed"
    BY <1>2, <1>11, <1>13, <2>2
  <2> QED BY <2>2, <2>3, ConnsNow
<1>14. ASSUME NEW c \in Conns, conn'[c] = "lost"
       PROVE  \E r \in ClientOf(req', c) : req'[r].toDelete % 2 = 1
  <2>1. conn[c] = "lost" /\ c \notin closed
    BY <1>11, <1>14
  <2>2. PICK r \in ClientOf(req, c) : req[r].toDelete % 2 = 1
    BY <2>1, ConnsNow
  <2>3. r \in Requests /\ req[r] \in Request /\ req[r].conn = c /\ req[r].kind # "command"
    BY StateFields, Members
  <2>4. r \notin freed
    <3> SUFFICES ASSUME r \in freed PROVE FALSE
      OBVIOUS
    <3>1. PICK d \in F : InUse(req, d) = {} /\ r \in ClientOf(req, d)
      BY <1>2
    <3>2. d = c
      BY <2>3, <3>1, StateFields, Members
    <3> QED BY <1>11, <2>1, <3>1, <3>2
  <2>5. /\ q[r] \in Request /\ q[r].conn = c /\ q[r].kind # "command"
        /\ q[r].toDelete % 2 = 1
    BY <2>2, <2>3, MarkedRequests DEF Same
  <2>6. /\ req'[r] \in Request /\ req'[r].conn = c /\ req'[r].kind # "command"
        /\ req'[r].toDelete % 2 = 1
    BY <1>6, <1>7, <2>3, <2>4, <2>5 DEF Same
  <2>7. r \in ClientOf(req', c)
    BY <1>8, <2>3, <2>6, Members
  <2> QED BY <2>6, <2>7
<1>15. ConnsRight
  BY <1>12, <1>13, <1>14 DEF ConnsRight
<1> QED BY <1>9, <1>15

LEMMA ReleaseConnsKeepsInv ==
  ASSUME Inv, NEW F \in SUBSET Conns, NEW q \in [Requests -> AnyRequest], Marks(q),
         ReleaseConns(q, F), UNCHANGED <<service, up>>, LoopRight
  PROVE  Inv'
  BY UpStays, ReleaseConnsRight, ServicesStay, EvolveKeepsInv

LEMMA ListConns ==
  ASSUME Inv, NEW T, T \subseteq Requests, \A r \in T : req[r] \in Request
  PROVE  ConnsOf(T) \subseteq Conns
  BY RequestFields DEF ConnsOf, AnyRequest

(* Who is to go, or in use, is so because of an update.                    *)
LEMMA UpdateUnderWay ==
  ASSUME Inv, NEW r \in Requests, req[r].toDelete # 0 \/ req[r].delay = 1
  PROVE  \E u \in Updaters : up[u].pc # "idle"
<1>1. CASE req[r].toDelete # 0
  BY <1>1 DEF Inv, DeletionRemembered
<1>2. CASE req[r].delay = 1
  <2>1. PICK u \in Updaters : Sending(u, req[r].service)
    BY <1>2 DEF Inv, DelayMarked
  <2> QED BY <2>1 DEF Sending
<1> QED BY <1>1, <1>2

LEMMA ReportServiceKeepsInv ==
  ASSUME Inv, NEW s \in Services, ReportService(s) PROVE Inv'
<1>1. PICK A : A = {r \in Reported(s) : req[r].toDelete = 0}
  OBVIOUS
<1>2. PICK F \in SUBSET Writable(A), seen \in BOOLEAN :
        \E q, G :
          /\ q = [r \in Requests |->
                   IF r \in F /\ req[r].delay > 0 THEN [req[r] EXCEPT !.toDelete = 1]
                   ELSE req[r]]
          /\ G = ConnsOf({r \in F : req[r].delay = 0})
                 \cup (IF seen THEN ConnsOf({r \in ListOf(q, s) : q[r].toDelete # 0}) ELSE {})
          /\ ReleaseConns(q, G)
          /\ loop' = IF seen /\ {r \in ListOf(req', s) : req'[r].toDelete # 0} # {}
                     THEN "report" ELSE "none"
  BY <1>1 DEF ReportService
<1>3. PICK q, G :
          /\ q = [r \in Requests |->
                   IF r \in F /\ req[r].delay > 0 THEN [req[r] EXCEPT !.toDelete = 1]
                   ELSE req[r]]
          /\ G = ConnsOf({r \in F : req[r].delay = 0})
                 \cup (IF seen THEN ConnsOf({r \in ListOf(q, s) : q[r].toDelete # 0}) ELSE {})
          /\ ReleaseConns(q, G)
          /\ loop' = IF seen /\ {r \in ListOf(req', s) : req'[r].toDelete # 0} # {}
                     THEN "report" ELSE "none"
  BY <1>2
<1>4. \A r \in F : r \in Requests /\ req[r] \in Request
  BY <1>1, StateFields, Members DEF Writable, Reported
<1>5. \A r \in Requests : req[r].delay \in {0, 1}
  BY StateFields, RequestFields
<1>6. Marks(q)
  BY <1>3, <1>4, <1>5 DEF Marks
<1>7. q \in [Requests -> AnyRequest]
  <2>1. ASSUME NEW r \in Requests PROVE q[r] \in AnyRequest
    <3>1. CASE q[r] = req[r]
      BY <3>1, StateFields
    <3>2. CASE req[r] \in Request /\ q[r] = [req[r] EXCEPT !.toDelete = 1]
      BY <3>2 DEF AnyRequest, Request
    <3> QED BY <1>6, <3>1, <3>2 DEF Marks
  <2> QED BY <1>3, <2>1
<1>8. G \in SUBSET Conns
  <2>1. ConnsOf({r \in F : req[r].delay = 0}) \subseteq Conns
    BY <1>4, ListConns
  <2>2. \A r \in ListOf(q, s) : r \in Requests /\ q[r] \in Request
    BY <1>7, Members
  <2>3. \A r \in ListOf(q, s) : r \in Requests /\ req[r] \in Request
    BY <1>6, <1>7, <2>2, MarkedRequests
  <2>4. ConnsOf({r \in ListOf(q, s) : q[r].toDelete # 0}) \subseteq Conns
    BY <2>3, ListConns
  <2> QED BY <1>3, <2>1, <2>4
<1>9. Evolves(req') /\ ConnsRight
  BY <1>3, <1>6, <1>7, <1>8, ReleaseConnsRight
<1>10. LoopRight
  <2>1. CASE loop' = "none"
    BY <2>1, NoLoop
  <2>2. CASE loop' = "report"
    <3>1. PICK r \in ListOf(req', s) : req'[r].toDelete # 0
      BY <1>3, <2>2
    <3>2. r \in Requests /\ req'[r] \in Request /\ NoRequest \notin Request
      BY <1>9, Members DEF Evolves, NoRequest, Request
    <3>3. Same(req[r], req'[r])
      BY <1>9, <3>1, <3>2 DEF Evolves, Freed, Made
    <3>4. req[r].toDelete # 0 \/ req[r].delay = 1
      BY <3>1, <3>3 DEF Same
    <3> QED BY <2>2, <3>2, <3>4, UpdateUnderWay DEF LoopRight
  <2> QED BY <1>3, <2>1, <2>2
<1> QED BY <1>3, <1>6, <1>7, <1>8, <1>10, ReleaseConnsKeepsInv DEF ReportService

LEMMA SendServiceKeepsInv ==
  ASSUME Inv, NEW s \in Services, SendService(s) PROVE Inv'
<1>1. PICK F \in SUBSET ConnsOf(Writable(ListOf(req, s))) :
        /\ ReleaseConns(req, F)
        /\ loop' = IF Closable(req, F) = F THEN "none" ELSE "send"
  BY DEF SendService
<1>2. F \in SUBSET Conns
  <2>1. \A r \in Writable(ListOf(req, s)) : r \in Requests /\ req[r] \in Request
    BY StateFields, Members DEF Writable
  <2> QED BY <1>1, <2>1, ListConns
<1>3. Marks(req) /\ req \in [Requests -> AnyRequest]
  BY StateFields DEF Marks
<1>4. LoopRight
  <2>1. CASE loop' = "none"
    BY <2>1, NoLoop
  <2>2. CASE loop' = "send"
    <3>1. PICK c \in F : InUse(req, c) # {}
      BY <1>1, <2>2 DEF Closable
    <3>2. PICK r \in Requests : req[r].delay = 1
      BY <3>1, StateFields, Members
    <3> QED BY <2>2, <3>2, UpdateUnderWay DEF LoopRight
  <2> QED BY <1>1, <2>1, <2>2
<1> QED BY <1>1, <1>2, <1>3, <1>4, ReleaseConnsKeepsInv DEF SendService
-----------------------------------------------------------------------------
(* do_update_service                                                       *)

LEMMA UpdateSendKeepsInv ==
  ASSUME Inv, NEW u \in Updaters, NEW r \in Requests, UpdateSend(u, r) PROVE Inv'
<1>1. /\ up[u].pc = "send" /\ r \in Unsent(u) /\ Execute(req, r) /\ UNCHANGED service
      /\ up' = [up EXCEPT ![u].sent = @ \cup {r}]
  BY DEF UpdateSend
<1>2. req[r] \in Request
  BY <1>1, StateFields, Members DEF Unsent
<1>3. up \in [Updaters -> Update] /\ \A v \in Updaters : up[v].pc = "idle" => up[v] = NoUpdate
  BY StateFields DEF Inv, UpdatesApart
<1>4. /\ \A v \in Updaters \ {u} : up'[v] = up[v]
      /\ up'[u] = [up[u] EXCEPT !.sent = up[u].sent \cup {r}]
  BY <1>1, <1>3
<1>5. /\ up'[u] \in Update /\ up'[u].pc = up[u].pc /\ up'[u].service = up[u].service
      /\ up'[u].marked = up[u].marked /\ up'[u].sent = up[u].sent \cup {r}
  BY <1>3, <1>4 DEF Update
<1>6. up' \in [Updaters -> Update]
  BY <1>1, <1>3, <1>5
<1>7. UpSame
  <2>1. LoopRight
    BY LoopStays DEF UpdateSend
  <2> QED BY <1>1, <1>3, <1>4, <1>5, <1>6, <2>1 DEF UpSame
<1> QED BY <1>1, <1>2, <1>7, ExecuteKeepsInv

(* A request the update is through with is in use by nobody.               *)
LEMMA ReapedNotInUse ==
  ASSUME Inv, NEW u \in Updaters, up[u].pc \in {"toReap", "reap", "finish"},
         NEW r \in ListOf(req, up[u].service)
  PROVE  r \in Requests /\ req[r] \in Request /\ req[r].conn \in Conns /\ req[r].delay = 0
<1>1. /\ r \in Requests /\ req[r] \in Request /\ req[r].service = up[u].service
      /\ req[r].conn \in Conns /\ req[r].service \in Services /\ req[r].delay \in {0, 1}
  BY StateFields, Members, RequestFields
<1>2. ASSUME req[r].delay = 1 PROVE FALSE
  <2>1. PICK v \in Updaters : Sending(v, req[r].service)
    BY <1>1, <1>2 DEF Inv, DelayMarked
  <2>2. Updating(v, req[r].service) /\ Updating(u, req[r].service) /\ up[v].pc = "send"
    BY <1>1, <2>1 DEF Updating, Sending
  <2>3. u = v
    BY <1>1, <2>2 DEF Inv, UpdatesApart
  <2> QED BY <2>2, <2>3
<1> QED BY <1>1, <1>2

LEMMA ReapConnKeepsInv ==
  ASSUME Inv, NEW u \in Updaters, NEW r \in Requests, ReapConn(u, r) PROVE Inv'
<1>1. /\ up[u].pc = "reap" /\ r \in ListOf(req, up[u].service)
      /\ UNCHANGED <<service, up, loop>>
  BY DEF ReapConn
<1>2. req[r] \in Request /\ req[r].conn \in Conns
  BY <1>1, ReapedNotInUse
<1>3. PICK q : q = [req EXCEPT ![r].toDelete = 0]
  OBVIOUS
<1>4. ReleaseConn(q, req[r].conn)
  BY <1>3 DEF ReapConn
<1>5. /\ q[r] \in Request /\ q[r].service = req[r].service /\ q[r].conn = req[r].conn
      /\ q[r].kind = req[r].kind /\ q[r].delay = req[r].delay /\ q[r].toDelete = 0
      /\ \A t \in Requests \ {r} : q[t] = req[t]
  BY <1>2, <1>3, StateFields DEF Request
<1>6. q \in [Requests -> AnyRequest]
  BY <1>3, <1>5, StateFields DEF AnyRequest
<1>7. Evolves(q)
  BY <1>2, <1>5, <1>6, RequestStays DEF Evolves, Same
<1>8. Releases(q, req[r].conn)
  BY <1>2, <1>4, ReleaseConnReleases
<1>9. \A t \in Requests : q[t] = req[t] \/
        ((req[t] \in Request => req[t].conn = req[r].conn) /\
         (q[t] \in Request => q[t].conn = req[r].conn))
  BY <1>5
<1> QED BY <1>1, <1>2, <1>7, <1>8, <1>9, UpStays, LoopStays, ReleaseKeepsInv

LEMMA ReapRequestKeepsInv ==
  ASSUME Inv, NEW u \in Updaters, NEW r \in Requests, ReapRequest(u, r) PROVE Inv'
<1>1. /\ up[u].pc = "reap" /\ r \in ListOf(req, up[u].service)
      /\ req[r].toDelete % 2 # 1 /\ UNCHANGED <<service, up, loop>>
  BY DEF ReapRequest, ConnBit
<1>2. req[r] \in Request /\ req[r].conn \in Conns /\ req[r].delay = 0
  BY <1>1, ReapedNotInUse
<1>3. PICK q : q = Without(req, {r})
  OBVIOUS
<1>4. \/ ReleaseConn(q, req[r].conn)
      \/ req' = q /\ UNCHANGED conn
  BY <1>3 DEF ReapRequest
<1>5. Frees(q, r)
  BY <1>3 DEF Frees
<1>6. Evolves(q) /\ q[r] = NoRequest /\ \A t \in Requests \ {r} : q[t] = req[t]
  BY <1>2, <1>5, FreeOneEvolves
<1>7. CASE ReleaseConn(q, req[r].conn)
  <2>1. Releases(q, req[r].conn)
    BY <1>2, <1>7, ReleaseConnReleases
  <2>2. \A t \in Requests : q[t] = req[t] \/
          ((req[t] \in Request => req[t].conn = req[r].conn) /\
           (q[t] \in Request => q[t].conn = req[r].conn))
    BY <1>6 DEF NoRequest, Request
  <2> QED BY <1>1, <1>2, <1>6, <2>1, <2>2, UpStays, LoopStays, ReleaseKeepsInv
<1>8. CASE req' = q /\ UNCHANGED conn
  <2>1. Frees(req', r)
    BY <1>5, <1>8
  <2> QED BY <1>1, <1>2, <1>8, <2>1, UpStays, LoopStays, FreeOneKeepsInv
<1> QED BY <1>4, <1>7, <1>8

(* A step of an update that leaves everything else where it is.            *)
LEMMA PcMoves ==
  ASSUME Inv, NEW u \in Updaters, NEW p \in {"reap", "finish"},
         up[u].pc \in {"toReap", "reap"}, up' = [up EXCEPT ![u].pc = p],
         UNCHANGED <<service, req, conn, loop>>,
         p = "finish" => \A r \in ListOf(req, up[u].service) : req[r].toDelete = 0
  PROVE  Inv'
<1>1. up \in [Updaters -> Update]
  BY StateFields
<1>2. /\ up'[u] \in Update /\ up'[u].pc = p /\ up'[u].service = up[u].service
      /\ up'[u].marked = up[u].marked /\ up'[u].sent = up[u].sent
      /\ \A v \in Updaters \ {u} : up'[v] = up[v]
  BY <1>1 DEF Update
<1>3. up' \in [Updaters -> Update]
  BY <1>1, <1>2
<1>4. TypeOK'
  BY <1>3 DEF Inv, TypeOK, Update
<1>5. \A v \in Updaters, s \in Services :
        (Updating(v, s)' <=> Updating(v, s)) /\ (Sending(v, s)' <=> Sending(v, s))
  BY <1>2 DEF Updating, Sending
<1>6. UpdatesApart'
  BY <1>2, <1>5 DEF Inv, UpdatesApart
<1>7. ServiceState'
  BY <1>5 DEF Inv, ServiceState
<1>8. DelayMarked'
  <2> SUFFICES ASSUME NEW r \in Requests, req[r].delay = 1
               PROVE  \E v \in Updaters : Sending(v, req[r].service)' /\ r \in up'[v].marked
    BY DEF DelayMarked, Sending
  <2>1. req[r].service \in Services
    BY StateFields, RequestFields
  <2>2. PICK v \in Updaters : Sending(v, req[r].service) /\ r \in up[v].marked
    BY DEF Inv, DelayMarked
  <2> QED BY <1>2, <1>5, <2>1, <2>2
<1>9. MarkedDelayed'
  BY <1>2 DEF Inv, MarkedDelayed
<1>10. UpdateUsesLive'
  BY <1>2, <1>5 DEF Inv, UpdateUsesLive, Alive, Sending
<1>11. DeletionRemembered'
  <2>1. ASSUME NEW r \in Requests, req[r].toDelete # 0
        PROVE  \E v \in Updaters : /\ up'[v].service = req[r].service
                                   /\ up'[v].pc \in {"send", "toReap", "reap"}
    <3>1. PICK v \in Updaters : Updating(v, req[r].service) /\ up[v].pc \in {"send", "toReap", "reap"}
      BY <2>1 DEF Inv, DeletionRemembered
    <3>2. req[r] \in Request
      BY <2>1, StateFields, RequestFields
    <3>3. v = u => r \in ListOf(req, up[u].service)
      BY <3>1, <3>2, StateFields, Members DEF Updating
    <3> QED BY <1>2, <2>1, <3>1, <3>3 DEF Updating
  <2>2. \A s \in Services : Alive(s) /\ service[s].toDelete # 0 => \E v \in Updaters : Updating(v, s)'
    BY <1>5 DEF Inv, DeletionRemembered
  <2>3. \A c \in Conns : conn[c] = "lost" => \E r \in ClientOf(req, c) : ConnBit(r)
    BY DEF Inv, DeletionRemembered
  <2> QED BY <2>1, <2>2, <2>3 DEF DeletionRemembered, ConnBit, Updating, Alive
<1>12. UpdateReachesAll'
  BY <1>2 DEF Inv, UpdateReachesAll
<1>13. RequestsConnected'
  BY DEF Inv, RequestsConnected, RequestsServed, ClientServices, Alive
<1>14. HangsOnlyInUpdates'
  BY <1>2 DEF HangsOnlyInUpdates
<1> QED BY <1>4, <1>6, <1>7, <1>8, <1>9, <1>10, <1>11, <1>12, <1>13, <1>14 DEF Inv

LEMMA UpdateReapKeepsInv ==
  ASSUME Inv, NEW u \in Updaters, UpdateReap(u) PROVE Inv'
  BY PcMoves DEF UpdateReap

LEMMA ReapEndKeepsInv ==
  ASSUME Inv, NEW u \in Updaters, ReapEnd(u) PROVE Inv'
<1>1. /\ up[u].pc = "reap" /\ up' = [up EXCEPT ![u].pc = "finish"]
      /\ UNCHANGED <<service, req, conn, loop>>
  BY DEF ReapEnd
<1>2. ASSUME NEW r \in ListOf(req, up[u].service) PROVE req[r].toDelete = 0
  <2>1. req[r].toDelete \in 0..3
    BY StateFields, Members, RequestFields
  <2>2. req[r].toDelete % 2 # 1 /\ (req[r].toDelete \div 2) % 2 # 1
    BY DEF ReapEnd, ConnBit, RequestBit
  <2> QED BY <2>1, <2>2
<1> QED BY <1>1, <1>2, PcMoves
(* Marking the requests for an update, and no longer.                      *)
DelayOnly ==
  /\ req' \in [Requests -> AnyRequest]
  /\ \A r \in Requests :
       /\ req'[r] \in Request <=> req[r] \in Request
       /\ req[r] \in Request =>
            /\ req'[r].service = req[r].service /\ req'[r].conn = req[r].conn
            /\ req'[r].kind = req[r].kind /\ req'[r].toDelete = req[r].toDelete
       /\ req'[r].toDelete = req[r].toDelete

LEMMA DelayOnlyMembers ==
  ASSUME Inv, DelayOnly
  PROVE  /\ \A r \in Requests, s \in Services : r \in ListOf(req', s) <=> r \in ListOf(req, s)
         /\ \A r \in Requests, c \in Conns : r \in ClientOf(req', c) <=> r \in ClientOf(req, c)
         /\ \A r \in Requests : r \in Allocated(req') <=> r \in Allocated(req)
         /\ \A s, r : r \in ListOf(req', s) => r \in Requests
         /\ \A c, r : r \in ClientOf(req', c) => r \in Requests
         /\ \A c, r : r \in ClientOf(req, c) => r \in Requests
         /\ \A r : r \in Allocated(req') => r \in Requests
<1>1. req' \in [Requests -> AnyRequest] /\ req \in [Requests -> AnyRequest]
  BY StateFields DEF DelayOnly
<1> QED BY <1>1, Members DEF DelayOnly

(* Requests stay with their services and connections.                      *)
LEMMA DelayOnlyKeeps ==
  ASSUME Inv, DelayOnly, UNCHANGED conn, \A s \in Services : Alive(s) => Alive(s)'
  PROVE  /\ RequestsConnected'
         /\ \A c \in Conns : conn'[c] = "lost" => \E r \in ClientOf(req', c) : req'[r].toDelete % 2 = 1
<1>1. ASSUME NEW c \in Conns, conn[c] = "closed" PROVE ClientOf(req', c) = {}
  <2> SUFFICES ASSUME NEW r \in ClientOf(req', c) PROVE FALSE
    OBVIOUS
  <2>1. r \in ClientOf(req, c)
    BY DelayOnlyMembers
  <2> QED BY <1>1, <2>1, ConnsNow
<1>2. ASSUME NEW c \in Conns, conn[c] = "lost"
      PROVE  \E r \in ClientOf(req', c) : req'[r].toDelete % 2 = 1
  <2>1. PICK r \in ClientOf(req, c) : req[r].toDelete % 2 = 1
    BY <1>2, ConnsNow
  <2>2. r \in Requests /\ r \in ClientOf(req', c)
    BY DelayOnlyMembers
  <2>3. req'[r].toDelete = req[r].toDelete
    BY <2>2 DEF DelayOnly
  <2> QED BY <2>1, <2>2, <2>3
<1>3. ASSUME NEW r \in Allocated(req') PROVE service'[req'[r].service].life = "alive"
  <2>1. r \in Requests /\ r \in Allocated(req)
    BY <1>3, DelayOnlyMembers
  <2>2. req[r] \in Request /\ req[r].service \in Services /\ Alive(req[r].service)
    BY <2>1, StateFields, Members, RequestFields DEF Inv, RequestsConnected, RequestsServed
  <2>3. req'[r].service = req[r].service
    BY <2>1, <2>2 DEF DelayOnly
  <2> QED BY <2>2, <2>3 DEF Alive
<1>4. \A c \in Conns : conn'[c] = "closed" => ClientServices(c)' = {}
  BY <1>1 DEF ClientServices
<1> QED BY <1>2, <1>3, <1>4 DEF RequestsConnected, RequestsServed, Alive

LEMMA UpdateMarkKeepsInv ==
  ASSUME Inv, NEW u \in Updaters, NEW s \in Services, NEW C \in SUBSET Conns, UpdateMark(u, s, C)
  PROVE  Inv'
<1>1. /\ up[u].pc = "idle" /\ Alive(s) /\ \A v \in Updaters : up[v].service # s
      /\ service' = [service EXCEPT ![s].delay = 1] /\ UNCHANGED conn
  BY DEF UpdateMark
<1>2. PICK m : m = ForClients(s, C)
  OBVIOUS
<1>3. /\ req' = [r \in Requests |-> IF r \in m THEN [req[r] EXCEPT !.delay = 1] ELSE req[r]]
      /\ up' = [up EXCEPT ![u] = [pc |-> "send", service |-> s, marked |-> m, sent |-> {}]]
  BY <1>2 DEF UpdateMark
<1>4. \A r \in m : /\ r \in ListOf(req, s) /\ r \in Requests /\ req[r] \in Request
                   /\ req[r].service = s
  BY <1>2, StateFields, Members DEF ForClients
<1>5. \A r \in m : req[r].delay = 0 /\ req[r].toDelete = 0
  BY <1>1, <1>4, IdleService DEF Updating
<1>6. \A r \in m : /\ req'[r] \in Request /\ req'[r].service = s /\ req'[r].conn = req[r].conn
                   /\ req'[r].kind = req[r].kind /\ req'[r].delay = 1 /\ req'[r].toDelete = 0
  BY <1>3, <1>4, <1>5 DEF Request
<1>7. \A r \in Requests : r \notin m => req'[r] = req[r]
  BY <1>3
<1>8. DelayOnly
  <2>1. req' \in [Requests -> AnyRequest]
    BY <1>3, <1>6, <1>7, StateFields DEF AnyRequest
  <2> QED BY <1>4, <1>5, <1>6, <1>7, <2>1 DEF DelayOnly
<1>9. /\ service'[s].delay = 1 /\ service'[s].life = "alive"
      /\ service'[s].toDelete = service[s].toDelete
      /\ \A t \in Services \ {s} : service'[t] = service[t]
      /\ service' \in [Services -> [life : {"new", "alive", "gone"}, delay : 0..1, toDelete : 0..1]]
  BY <1>1 DEF Inv, TypeOK, Alive
<1>10. up \in [Updaters -> Update]
  BY StateFields
<1>11. /\ up'[u].pc = "send" /\ up'[u].service = s /\ up'[u].marked = m /\ up'[u].sent = {}
       /\ \A v \in Updaters \ {u} : up'[v] = up[v]
  BY <1>3, <1>10
<1>12. up' \in [Updaters -> Update]
  <2>1. [pc |-> "send", service |-> s, marked |-> m, sent |-> {}] \in Update
    BY <1>4 DEF Update
  <2> QED BY <1>3, <1>10, <2>1
<1>13. TypeOK' /\ HangsOnlyInUpdates'
  <2>1. loop' = "none"
    BY DEF UpdateMark, LockFree
  <2> QED BY <1>1, <1>8, <1>9, <1>12, <2>1, ConnsNow
          DEF TypeOK, DelayOnly, AnyRequest, Update, HangsOnlyInUpdates
<1>14. /\ \A v \in Updaters : Updating(v, s)' <=> v = u
       /\ \A v \in Updaters, t \in Services \ {s} : Updating(v, t)' <=> Updating(v, t)
       /\ \A v \in Updaters, t \in Services : Sending(v, t) => v # u /\ Sending(v, t)'
       /\ \A v \in Updaters, t \in Services : Updating(v, t) => v # u /\ up'[v] = up[v]
  BY <1>1, <1>11 DEF Updating, Sending
<1>15. UpdatesApart'
  <2>1. \A v \in Updaters : up'[v].pc = "idle" => up'[v] = NoUpdate
    BY <1>11 DEF Inv, UpdatesApart
  <2>2. \A v \in Updaters : up'[v].pc # "idle" => up'[v].service \in Services
    BY <1>11 DEF Inv, UpdatesApart
  <2>3. \A v, w \in Updaters, t \in Services : Updating(v, t)' /\ Updating(w, t)' => v = w
    BY <1>14 DEF Inv, UpdatesApart
  <2> QED BY <2>1, <2>2, <2>3 DEF UpdatesApart
<1>16. ServiceState'
  <2> SUFFICES ASSUME NEW t \in Services
               PROVE  /\ service'[t].delay = 1 <=> \E v \in Updaters : Updating(v, t)'
                      /\ service'[t].life = "new" => service'[t].toDelete = 0
    BY DEF ServiceState
  <2>1. CASE t = s
    BY <1>9, <1>14, <2>1
  <2>2. CASE t # s
    <3>1. service'[t] = service[t] /\ \A v \in Updaters : Updating(v, t)' <=> Updating(v, t)
      BY <1>9, <1>14, <2>2
    <3>2. /\ service[t].delay = 1 <=> \E v \in Updaters : Updating(v, t)
          /\ service[t].life = "new" => service[t].toDelete = 0
      BY DEF Inv, ServiceState
    <3> QED BY <3>1, <3>2
  <2> QED BY <2>1, <2>2
<1>17. DelayMarked'
  <2> SUFFICES ASSUME NEW r \in Requests, req'[r].delay = 1
               PROVE  \E v \in Updaters : /\ up'[v].pc = "send" /\ up'[v].service = req'[r].service
                                          /\ r \in up'[v].marked
    BY DEF DelayMarked, Sending
  <2>1. CASE r \in m
    BY <1>6, <1>11, <2>1
  <2>2. CASE r \notin m
    <3>1. req'[r] = req[r] /\ req[r].service \in Services
      BY <1>7, <2>2, StateFields, RequestFields
    <3>2. PICK v \in Updaters : Sending(v, req[r].service) /\ r \in up[v].marked
      BY <3>1 DEF Inv, DelayMarked
    <3> QED BY <1>11, <1>14, <3>1, <3>2 DEF Sending
  <2> QED BY <2>1, <2>2
<1>18. ASSUME NEW v \in Updaters, up'[v].pc = "send", NEW r \in up'[v].marked
       PROVE  r \in ListOf(req', up'[v].service) /\ req'[r].delay = 1
  <2>1. CASE v = u
    <3>1. r \in m /\ up'[v].service = s
      BY <1>11, <1>18, <2>1
    <3> QED BY <1>4, <1>6, <1>8, <3>1, DelayOnlyMembers
  <2>2. CASE v # u
    <3>1. up'[v] = up[v]
      BY <1>11, <2>2
    <3>2. r \in ListOf(req, up[v].service) /\ req[r].delay = 1 /\ up[v].service \in Services
      BY <1>18, <3>1 DEF Inv, MarkedDelayed, UpdatesApart
    <3>3. r \in Requests /\ r \notin m
      BY <1>5, <3>2, StateFields, Members
    <3> QED BY <1>7, <1>8, <3>1, <3>2, <3>3, DelayOnlyMembers
  <2> QED BY <2>1, <2>2
<1>19. MarkedDelayed'
  BY <1>18 DEF MarkedDelayed
<1>20. \A t \in Services : Alive(t)' <=> Alive(t)
  BY <1>1, <1>9 DEF Alive
<1>21. UpdateUsesLive'
  <2>1. \A v \in Updaters, t \in Services : Updating(v, t)' => Alive(t)'
    BY <1>1, <1>14, <1>20 DEF Inv, UpdateUsesLive
  <2> QED BY <1>18, <2>1 DEF UpdateUsesLive, Sending
<1>22. RequestsConnected' /\ \A c \in Conns : conn'[c] = "lost" =>
         \E r \in ClientOf(req', c) : req'[r].toDelete % 2 = 1
  BY <1>1, <1>8, <1>20, DelayOnlyKeeps
<1>23. DeletionRemembered'
  <2>1. ASSUME NEW r \in Requests, req'[r].toDelete # 0
        PROVE  \E v \in Updaters : /\ up'[v].service = req'[r].service
                                   /\ up'[v].pc \in {"send", "toReap", "reap"}
    <3>1. r \notin m
      BY <1>6, <2>1
    <3>2. req'[r] = req[r] /\ req[r].service \in Services
      BY <1>7, <2>1, <3>1, StateFields, RequestFields
    <3>3. PICK v \in Updaters : Updating(v, req[r].service) /\ up[v].pc \in {"send", "toReap", "reap"}
      BY <2>1, <3>2 DEF Inv, DeletionRemembered
    <3> QED BY <1>14, <3>2, <3>3 DEF Updating
  <2>2. \A t \in Services : Alive(t)' /\ service'[t].toDelete # 0 => \E v \in Updaters : Updating(v, t)'
    BY <1>9, <1>14, <1>20 DEF Inv, DeletionRemembered
  <2>3. \A v \in Updaters, t \in Services :
          up'[v].service = t /\ up'[v].pc \in {"send", "toReap", "reap"} => Updating(v, t)'
    BY DEF Updating
  <2> QED BY <1>22, <2>1, <2>2, <2>3 DEF DeletionRemembered, ConnBit, Updating
<1>24. UpdateReachesAll'
  <2> SUFFICES ASSUME NEW v \in Updaters, up'[v].pc \in {"toReap", "reap", "finish"},
                      NEW r \in up'[v].marked, r \in ListOf(req', up'[v].service),
                      req'[r].kind = "monitored"
               PROVE  r \in up'[v].sent
    BY DEF UpdateReachesAll
  <2>1. up'[v] = up[v] /\ up[v].service \in Services
    BY <1>11 DEF Inv, UpdatesApart
  <2>2. r \in ListOf(req, up[v].service) /\ r \in Requests /\ req[r] \in Request
    BY <1>8, <2>1, DelayOnlyMembers, StateFields, Members
  <2>3. req[r].kind = "monitored"
    BY <1>8, <2>2 DEF DelayOnly
  <2> QED BY <2>1, <2>2, <2>3 DEF Inv, UpdateReachesAll
<1> QED BY <1>13, <1>15, <1>16, <1>17, <1>19, <1>21, <1>22, <1>23, <1>24 DEF Inv
LEMMA UpdateClearKeepsInv ==
  ASSUME Inv, NEW u \in Updaters, UpdateClear(u) PROVE Inv'
<1>1. PICK list : list = ListOf(req, up[u].service)
  OBVIOUS
<1>2. PICK p \in {"toReap", "finish"} :
        p = IF \E r \in list : req[r].toDelete # 0 THEN "toReap" ELSE "finish"
  OBVIOUS
<1>3. /\ up[u].pc = "send" /\ Unsent(u) = {} /\ UNCHANGED <<service, conn>>
      /\ req' = [r \in Requests |-> IF r \in list THEN [req[r] EXCEPT !.delay = 0] ELSE req[r]]
      /\ up' = [up EXCEPT ![u].pc = p]
  BY <1>1, <1>2 DEF UpdateClear
<1>4. up[u].service \in Services /\ up \in [Updaters -> Update]
  BY <1>3, StateFields DEF Inv, UpdatesApart
<1>5. PICK s \in Services : s = up[u].service
  BY <1>4
<1>6. \A r : r \in list <=> r \in Requests /\ req[r] \in Request /\ req[r].service = s
  BY <1>1, <1>5, StateFields, Members
<1>7. \A r \in list :
        /\ req'[r] \in Request /\ req'[r].service = req[r].service /\ req'[r].conn = req[r].conn
        /\ req'[r].kind = req[r].kind /\ req'[r].delay = 0 /\ req'[r].toDelete = req[r].toDelete
  BY <1>3, <1>6 DEF Request
<1>8. \A r \in Requests : r \notin list => req'[r] = req[r]
  BY <1>3
<1>9. DelayOnly
  <2>1. req' \in [Requests -> AnyRequest]
    BY <1>3, <1>7, <1>8, StateFields DEF AnyRequest
  <2> QED BY <1>6, <1>7, <1>8, <2>1 DEF DelayOnly
<1>10. /\ up'[u] \in Update /\ up'[u].pc = p /\ up'[u].service = s
       /\ up'[u].marked = up[u].marked /\ up'[u].sent = up[u].sent
       /\ \A v \in Updaters \ {u} : up'[v] = up[v]
  BY <1>3, <1>4, <1>5 DEF Update
<1>11. up' \in [Updaters -> Update]
  BY <1>3, <1>4, <1>10
<1>12. TypeOK' /\ HangsOnlyInUpdates'
  <2>1. loop' = "none"
    BY DEF UpdateClear, LockFree
  <2> QED BY <1>3, <1>9, <1>11, <2>1
          DEF Inv, TypeOK, DelayOnly, AnyRequest, Update, HangsOnlyInUpdates
<1>13. /\ \A v \in Updaters, t \in Services : Updating(v, t)' <=> Updating(v, t)
       /\ \A v \in Updaters, t \in Services : v # u => (Sending(v, t)' <=> Sending(v, t))
       /\ Updating(u, s) /\ Sending(u, s)
  BY <1>3, <1>5, <1>10 DEF Updating, Sending
<1>14. \A v \in Updaters : Updating(v, s) => v = u
  BY <1>13 DEF Inv, UpdatesApart
<1>15. UpdatesApart' /\ ServiceState'
  <2>1. UpdatesApart'
    <3>1. \A v \in Updaters :
            /\ up'[v].pc = "idle" => up'[v] = NoUpdate
            /\ up'[v].pc # "idle" => up'[v].service \in Services
      BY <1>10 DEF Inv, UpdatesApart
    <3>2. \A v, w \in Updaters, t \in Services : Updating(v, t)' /\ Updating(w, t)' => v = w
      BY <1>13 DEF Inv, UpdatesApart
    <3> QED BY <3>1, <3>2 DEF UpdatesApart
  <2>2. ServiceState'
    BY <1>3, <1>13 DEF Inv, ServiceState
  <2> QED BY <2>1, <2>2
<1>16. DelayMarked'
  <2> SUFFICES ASSUME NEW r \in Requests, req'[r].delay = 1
               PROVE  \E v \in Updaters : /\ up'[v].pc = "send" /\ up'[v].service = req'[r].service
                                          /\ r \in up'[v].marked
    BY DEF DelayMarked, Sending
  <2>1. r \notin list
    BY <1>7
  <2>2. req'[r] = req[r] /\ req[r] \in Request /\ req[r].service \in Services /\ req[r].service # s
    BY <1>6, <1>8, <2>1, StateFields, RequestFields
  <2>3. PICK v \in Updaters : Sending(v, req[r].service) /\ r \in up[v].marked
    BY <2>2 DEF Inv, DelayMarked
  <2>4. v # u
    BY <1>5, <2>2, <2>3 DEF Sending
  <2> QED BY <1>10, <2>2, <2>3, <2>4 DEF Sending
<1>17. ASSUME NEW v \in Updaters, up'[v].pc = "send", NEW r \in up'[v].marked
       PROVE  r \in ListOf(req', up'[v].service) /\ req'[r].delay = 1
  <2>1. v # u /\ up'[v] = up[v]
    BY <1>10, <1>17
  <2>2. r \in ListOf(req, up[v].service) /\ req[r].delay = 1 /\ up[v].service \in Services
    BY <1>17, <2>1 DEF Inv, MarkedDelayed, UpdatesApart
  <2>3. r \in Requests /\ req[r].service = up[v].service
    BY <2>2, StateFields, Members
  <2>4. up[v].service # s
    BY <1>14, <1>17, <2>1 DEF Updating
  <2>5. req'[r] = req[r]
    BY <1>6, <1>8, <2>3, <2>4
  <2> QED BY <1>9, <2>1, <2>2, <2>3, <2>5, DelayOnlyMembers
<1>18. MarkedDelayed'
  BY <1>17 DEF MarkedDelayed
<1>19. UpdateUsesLive'
  <2>1. \A v \in Updaters, t \in Services : Updating(v, t)' => Alive(t)'
    BY <1>3, <1>13 DEF Inv, UpdateUsesLive, Alive
  <2> QED BY <1>17, <2>1 DEF UpdateUsesLive, Sending
<1>20. RequestsConnected' /\ \A c \in Conns : conn'[c] = "lost" =>
         \E r \in ClientOf(req', c) : req'[r].toDelete % 2 = 1
  BY <1>3, <1>9, DelayOnlyKeeps DEF Alive
<1>21. DeletionRemembered'
  <2>1. ASSUME NEW r \in Requests, req'[r].toDelete # 0
        PROVE  \E v \in Updaters : /\ up'[v].service = req'[r].service
                                   /\ up'[v].pc \in {"send", "toReap", "reap"}
    <3>1. req[r].toDelete # 0
      BY <1>9, <2>1 DEF DelayOnly
    <3>2. req[r] \in Request /\ req'[r].service = req[r].service /\ req[r].service \in Services
      BY <1>9, <3>1, StateFields, RequestFields DEF DelayOnly
    <3>3. PICK v \in Updaters : Updating(v, req[r].service) /\ up[v].pc \in {"send", "toReap", "reap"}
      BY <3>1 DEF Inv, DeletionRemembered
    <3>4. CASE v = u
      <4>1. r \in list
        BY <1>5, <1>6, <3>2, <3>3, <3>4 DEF Updating
      <4>2. p = "toReap"
        BY <1>2, <3>1, <4>1
      <4> QED BY <1>5, <1>10, <3>2, <3>3, <3>4, <4>2 DEF Updating
    <3>5. CASE v # u
      BY <1>10, <3>2, <3>3, <3>5 DEF Updating
    <3> QED BY <3>4, <3>5
  <2>2. \A t \in Services : Alive(t)' /\ service'[t].toDelete # 0 => \E v \in Updaters : Updating(v, t)'
    BY <1>3, <1>13 DEF Inv, DeletionRemembered, Alive
  <2>3. \A v \in Updaters, t \in Services :
          up'[v].service = t /\ up'[v].pc \in {"send", "toReap", "reap"} => Updating(v, t)'
    BY DEF Updating
  <2> QED BY <1>20, <2>1, <2>2, <2>3 DEF DeletionRemembered, ConnBit, Updating
<1>22. UpdateReachesAll'
  <2> SUFFICES ASSUME NEW v \in Updaters, up'[v].pc \in {"toReap", "reap", "finish"},
                      NEW r \in up'[v].marked, r \in ListOf(req', up'[v].service),
                      req'[r].kind = "monitored"
               PROVE  r \in up'[v].sent
    BY DEF UpdateReachesAll
  <2>1. up'[v].service = up[v].service /\ up'[v].marked = up[v].marked /\ up'[v].sent = up[v].sent
        /\ up[v].service \in Services
    BY <1>5, <1>10 DEF Inv, UpdatesApart
  <2>2. r \in ListOf(req, up[v].service) /\ r \in Requests /\ req[r] \in Request
    BY <1>9, <2>1, DelayOnlyMembers, StateFields, Members
  <2>3. req[r].kind = "monitored"
    BY <1>9, <2>2 DEF DelayOnly
  <2>4. CASE v = u
    <3>1. req[r].delay = 1 /\ r \in ListOf(req, up[u].service)
      BY <1>3, <2>1, <2>2, <2>4 DEF Inv, MarkedDelayed
    <3>2. r \notin ListOf(req, up[u].service) \ up[u].sent
      BY <1>3, <2>3, <3>1 DEF Unsent
    <3> QED BY <2>1, <2>4, <3>1, <3>2
  <2>5. CASE v # u
    BY <1>10, <2>1, <2>2, <2>3, <2>5 DEF Inv, UpdateReachesAll
  <2> QED BY <2>4, <2>5
<1> QED BY <1>12, <1>15, <1>16, <1>18, <1>19, <1>20, <1>21, <1>22 DEF Inv

LEMMA UpdateFinishKeepsInv ==
  ASSUME Inv, NEW u \in Updaters, UpdateFinish(u) PROVE Inv'
<1>1. up[u].pc = "finish" /\ up' = [up EXCEPT ![u] = NoUpdate] /\ UNCHANGED conn
  BY DEF UpdateFinish
<1>2. up[u].service \in Services /\ up \in [Updaters -> Update]
  BY <1>1, StateFields DEF Inv, UpdatesApart
<1>3. PICK s \in Services : s = up[u].service
  BY <1>2
<1>4. \/ /\ service[s].toDelete # 0 /\ req' = Withdrawn(s)
         /\ service' = [service EXCEPT ![s] = [life |-> "gone", delay |-> 0, toDelete |-> 1]]
      \/ /\ service[s].toDelete = 0 /\ req' = req
         /\ service' = [service EXCEPT ![s].delay = 0]
  BY <1>3 DEF UpdateFinish
<1>5. Updating(u, s) /\ \A v \in Updaters : Updating(v, s) => v = u
  BY <1>1, <1>3 DEF Inv, UpdatesApart, Updating
<1>6. service \in [Services -> [life : {"new", "alive", "gone"}, delay : 0..1, toDelete : 0..1]]
  BY DEF Inv, TypeOK
<1>7. Alive(s)
  BY <1>5 DEF Inv, UpdateUsesLive
<1>8. /\ service' \in [Services -> [life : {"new", "alive", "gone"}, delay : 0..1, toDelete : 0..1]]
      /\ service'[s].delay = 0 /\ service'[s].life \in {"alive", "gone"}
      /\ \A t \in Services \ {s} : service'[t] = service[t]
      /\ service'[s].life = "alive" => req' = req /\ service'[s].toDelete = 0
  <2>1. CASE service' = [service EXCEPT ![s] = [life |-> "gone", delay |-> 0, toDelete |-> 1]]
    BY <1>6, <2>1
  <2>2. CASE service[s].toDelete = 0 /\ req' = req /\ service' = [service EXCEPT ![s].delay = 0]
    BY <1>6, <1>7, <2>2 DEF Alive
  <2> QED BY <1>4, <2>1, <2>2
<1>9. NoUpdate.pc = "idle" /\ NoUpdate \in Update
  BY DEF NoUpdate, Update
<1>10. up'[u] = NoUpdate /\ \A v \in Updaters \ {u} : up'[v] = up[v]
  BY <1>1, <1>2
<1>11. up' \in [Updaters -> Update]
  BY <1>1, <1>2, <1>9
<1>12. \A r \in ListOf(req, s) :
         /\ r \in Requests /\ req[r] \in Request /\ req[r].service = s
         /\ req[r].delay = 0 /\ req[r].toDelete = 0
  <2> SUFFICES ASSUME NEW r \in ListOf(req, s)
               PROVE  /\ r \in Requests /\ req[r] \in Request /\ req[r].service = s
                      /\ req[r].delay = 0 /\ req[r].toDelete = 0
    OBVIOUS
  <2>1. r \in Requests /\ req[r] \in Request /\ req[r].service = s
    BY StateFields, Members
  <2>2. req[r].delay = 0
    BY <1>1, <1>3, ReapedNotInUse
  <2>3. req[r].toDelete = 0
    BY <1>1, <1>5, <2>1 DEF Inv, DeletionRemembered
  <2> QED BY <2>1, <2>2, <2>3
<1>13. Evolves(req') /\ \A r \in Requests \ ListOf(req, s) : req'[r] = req[r]
  <2>1. CASE req' = Withdrawn(s)
    BY <1>12, <2>1, WithdrawEvolves
  <2>2. CASE req' = req
    BY <2>2, Unchanged
  <2> QED BY <1>4, <2>1, <2>2
<1>14. req' \in [Requests -> AnyRequest] /\ req \in [Requests -> AnyRequest]
  BY <1>13, StateFields DEF Evolves
<1>15. /\ ConnsRight
       /\ \A r \in Allocated(req') :
            /\ r \in Allocated(req) /\ req'[r] = req[r]
            /\ service'[s].life = "gone" => req[r].service # s
  <2>1. CASE req' = Withdrawn(s)
    <3>1. Withdraws(s)
      BY <1>12, <2>1, WithdrawEvolves DEF Withdraws
    <3> QED BY <1>1, <1>14, <3>1, WithdrawConns
  <2>2. CASE req' = req /\ service[s].toDelete = 0 /\ service' = [service EXCEPT ![s].delay = 0]
    <3>1. service'[s].life # "gone"
      BY <1>6, <1>7, <2>2 DEF Alive
    <3> QED BY <1>1, <2>2, <3>1, ConnsNow DEF ConnsRight
  <2> QED BY <1>4, <2>1, <2>2
<1>16. \A r \in Requests : req'[r] \in Request => r \in Allocated(req') /\ req[r] \in Request /\ req'[r] = req[r]
  BY <1>14, <1>15, Members
<1>17. TypeOK' /\ HangsOnlyInUpdates'
  <2>1. loop' = "none"
    BY DEF UpdateFinish, LockFree
  <2> QED BY <1>8, <1>11, <1>14, <1>15, <2>1
          DEF TypeOK, AnyRequest, Update, ConnsRight, HangsOnlyInUpdates
<1>18. /\ \A v \in Updaters : ~Updating(v, s)'
       /\ \A v \in Updaters, t \in Services : t # s => (Updating(v, t)' <=> Updating(v, t))
       /\ \A v \in Updaters, t \in Services : Sending(v, t)' <=> Sending(v, t)
  BY <1>1, <1>3, <1>5, <1>9, <1>10 DEF Updating, Sending
<1>19. UpdatesApart'
  <2>1. \A v \in Updaters :
          /\ up'[v].pc = "idle" => up'[v] = NoUpdate
          /\ up'[v].pc # "idle" => up'[v].service \in Services
    BY <1>9, <1>10 DEF Inv, UpdatesApart
  <2>2. \A v, w \in Updaters, t \in Services : Updating(v, t)' /\ Updating(w, t)' => v = w
    BY <1>18 DEF Inv, UpdatesApart
  <2> QED BY <2>1, <2>2 DEF UpdatesApart
<1>20. ServiceState'
  <2> SUFFICES ASSUME NEW t \in Services
               PROVE  /\ service'[t].delay = 1 <=> \E v \in Updaters : Updating(v, t)'
                      /\ service'[t].life = "new" => service'[t].toDelete = 0
    BY DEF ServiceState
  <2>1. CASE t = s
    BY <1>8, <1>18, <2>1
  <2>2. CASE t # s
    <3>1. service'[t] = service[t] /\ \A v \in Updaters : Updating(v, t)' <=> Updating(v, t)
      BY <1>8, <1>18, <2>2
    <3>2. /\ service[t].delay = 1 <=> \E v \in Updaters : Updating(v, t)
          /\ service[t].life = "new" => service[t].toDelete = 0
      BY DEF Inv, ServiceState
    <3> QED BY <3>1, <3>2
  <2> QED BY <2>1, <2>2
<1>21. DelayMarked'
  <2> SUFFICES ASSUME NEW r \in Requests, req'[r].delay = 1
               PROVE  \E v \in Updaters : /\ up'[v].pc = "send" /\ up'[v].service = req'[r].service
                                          /\ r \in up'[v].marked
    BY DEF DelayMarked, Sending
  <2>1. req'[r] \in Request
    BY <1>14, RequestFields
  <2>2. req'[r] = req[r] /\ req[r].service \in Services
    BY <1>16, <2>1, RequestFields, StateFields
  <2>3. PICK v \in Updaters : Sending(v, req[r].service) /\ r \in up[v].marked
    BY <2>2 DEF Inv, DelayMarked
  <2>4. v # u
    BY <1>1, <2>3 DEF Sending
  <2> QED BY <1>10, <2>2, <2>3, <2>4 DEF Sending
<1>22. ASSUME NEW v \in Updaters, up'[v].pc = "send", NEW r \in up'[v].marked
       PROVE  r \in ListOf(req', up'[v].service) /\ req'[r].delay = 1
  <2>1. v # u /\ up'[v] = up[v]
    BY <1>9, <1>10, <1>22
  <2>2. r \in ListOf(req, up[v].service) /\ req[r].delay = 1 /\ up[v].service \in Services
    BY <1>22, <2>1 DEF Inv, MarkedDelayed, UpdatesApart
  <2>3. r \in Requests /\ req[r] \in Request /\ req[r].service = up[v].service
    BY <2>2, StateFields, Members
  <2>4. req'[r] = req[r]
    BY <1>12, <1>13, <2>2, <2>3
  <2> QED BY <1>14, <2>1, <2>2, <2>3, <2>4, Members
<1>23. MarkedDelayed'
  BY <1>22 DEF MarkedDelayed
<1>24. \A t \in Services : t # s => (Alive(t)' <=> Alive(t))
  BY <1>8 DEF Alive
<1>25. UpdateUsesLive'
  <2>1. \A v \in Updaters, t \in Services : Updating(v, t)' => Alive(t)'
    BY <1>18, <1>24 DEF Inv, UpdateUsesLive
  <2> QED BY <1>22, <2>1 DEF UpdateUsesLive, Sending
<1>26. DeletionRemembered'
  <2>1. ASSUME NEW r \in Requests, req'[r].toDelete # 0
        PROVE  \E v \in Updaters : /\ up'[v].service = req'[r].service
                                   /\ up'[v].pc \in {"send", "toReap", "reap"}
    <3>1. req'[r] \in Request
      BY <1>14, <2>1, RequestFields
    <3>2. req'[r] = req[r]
      BY <1>16, <3>1
    <3>3. PICK v \in Updaters : Updating(v, req[r].service) /\ up[v].pc \in {"send", "toReap", "reap"}
      BY <2>1, <3>2 DEF Inv, DeletionRemembered
    <3>4. v # u
      BY <1>1, <3>3
    <3> QED BY <1>10, <3>2, <3>3, <3>4 DEF Updating
  <2>2. \A t \in Services : Alive(t)' /\ service'[t].toDelete # 0 => \E v \in Updaters : Updating(v, t)'
    <3> SUFFICES ASSUME NEW t \in Services, Alive(t)', service'[t].toDelete # 0
                 PROVE  \E v \in Updaters : Updating(v, t)'
      OBVIOUS
    <3>1. t # s
      BY <1>8 DEF Alive
    <3>2. Alive(t) /\ service[t].toDelete # 0
      BY <1>8, <1>24, <3>1
    <3> QED BY <1>18, <3>1, <3>2 DEF Inv, DeletionRemembered
  <2>3. \A c \in Conns : conn'[c] = "lost" => \E r \in ClientOf(req', c) : req'[r].toDelete % 2 = 1
    BY <1>15 DEF ConnsRight
  <2>4. \A v \in Updaters, t \in Services :
          up'[v].service = t /\ up'[v].pc \in {"send", "toReap", "reap"} => Updating(v, t)'
    BY DEF Updating
  <2> QED BY <2>1, <2>2, <2>3, <2>4 DEF DeletionRemembered, ConnBit, Updating
<1>27. UpdateReachesAll'
  <2> SUFFICES ASSUME NEW v \in Updaters, up'[v].pc \in {"toReap", "reap", "finish"},
                      NEW r \in up'[v].marked, r \in ListOf(req', up'[v].service),
                      req'[r].kind = "monitored"
               PROVE  r \in up'[v].sent
    BY DEF UpdateReachesAll
  <2>1. v # u /\ up'[v] = up[v]
    BY <1>9, <1>10
  <2>2. r \in Requests /\ req'[r] \in Request /\ req'[r].service = up[v].service
    BY <1>14, <2>1, Members
  <2>3. req'[r] = req[r]
    BY <1>16, <2>2
  <2>4. r \in ListOf(req, up[v].service)
    BY <1>14, <2>2, <2>3, Members
  <2> QED BY <2>1, <2>3, <2>4 DEF Inv, UpdateReachesAll
<1>28. RequestsConnected'
  <2>1. \A c \in Conns : conn'[c] = "closed" => ClientServices(c)' = {}
    BY <1>15 DEF ConnsRight, ClientServices
  <2>2. ASSUME NEW r \in Allocated(req') PROVE service'[req'[r].service].life = "alive"
    <3>1. /\ r \in Allocated(req) /\ req'[r] = req[r]
          /\ service'[s].life = "gone" => req[r].service # s
      BY <1>15
    <3>2. req[r].service \in Services /\ Alive(req[r].service)
      BY <1>14, <3>1, Members, RequestFields DEF Inv, RequestsConnected, RequestsServed
    <3> QED BY <1>8, <3>1, <3>2 DEF Alive
  <2> QED BY <2>1, <2>2 DEF RequestsConnected, RequestsServed, Alive
<1> QED BY <1>17, <1>19, <1>20, <1>21, <1>23, <1>25, <1>26, <1>27, <1>28 DEF Inv

-----------------------------------------------------------------------------
LEMMA ClientStepKeepsInv ==
  ASSUME Inv, ClientStep PROVE Inv'
<1>1. CASE \E c \in Conns : Connect(c) \/ UnknownService(c) \/ Disconnect(c)
  BY <1>1, ConnectKeepsInv, UnknownServiceKeepsInv, DisconnectKeepsInv
<1>2. CASE \E c \in Conns, s \in Services, r \in Requests :
             \/ \E kind \in {"monitored", "timed"} : Subscribe(c, s, r, kind)
             \/ Command(c, s, r)
  <2>1. PICK c \in Conns, s \in Services, r \in Requests :
             \/ \E kind \in {"monitored", "timed"} : Subscribe(c, s, r, kind)
             \/ Command(c, s, r)
    BY <1>2
  <2> QED BY <2>1, SubscribeKeepsInv, CommandKeepsInv
<1>3. CASE \E c \in Conns, s \in Services : AskOnce(c, s)
  BY <1>3, AskOnceKeepsInv
<1>4. CASE \E r \in Requests : Unsubscribe(r) \/ Timer(r)
  BY <1>4, UnsubscribeKeepsInv, TimerKeepsInv
<1> QED BY <1>1, <1>2, <1>3, <1>4 DEF ClientStep

LEMMA UpdateStepKeepsInv ==
  ASSUME Inv, NEW u \in Updaters, UpdateStep(u) PROVE Inv'
<1>1. CASE \E r \in Requests : UpdateSend(u, r) \/ ReapConn(u, r) \/ ReapRequest(u, r)
  BY <1>1, UpdateSendKeepsInv, ReapConnKeepsInv, ReapRequestKeepsInv
<1>2. CASE UpdateClear(u) \/ UpdateReap(u) \/ ReapEnd(u) \/ UpdateFinish(u)
  BY <1>2, UpdateClearKeepsInv, UpdateReapKeepsInv, ReapEndKeepsInv, UpdateFinishKeepsInv
<1> QED BY <1>1, <1>2 DEF UpdateStep

LEMMA NextKeepsInv ==
  ASSUME Inv, [Next]_vars PROVE Inv'
<1>1. CASE ClientStep
  BY <1>1, ClientStepKeepsInv
<1>2. CASE \E s \in Services :
             AddService(s) \/ RemoveService(s) \/ ReportService(s) \/ SendService(s)
  BY <1>2, AddServiceKeepsInv, RemoveServiceKeepsInv, ReportServiceKeepsInv,
     SendServiceKeepsInv
<1>3. CASE \E u \in Updaters, s \in Services, C \in SUBSET Conns : UpdateMark(u, s, C)
  BY <1>3, UpdateMarkKeepsInv
<1>4. CASE \E u \in Updaters : UpdateStep(u)
  BY <1>4, UpdateStepKeepsInv
<1>5. CASE SendEnds
  BY <1>5, UpStays, NoLoop, StutterKeepsInv DEF SendEnds
<1>6. CASE UNCHANGED vars
  BY <1>6, UpStays, LoopStays, StutterKeepsInv DEF vars
<1> QED BY <1>1, <1>2, <1>3, <1>4, <1>5, <1>6 DEF Next, GoRound

-----------------------------------------------------------------------------
(* The inductive invariant holds in every run, for any number of services, *)
(* connections, requests and updating threads.                             *)
THEOREM RequestsInvariance == Spec => []Inv
<1>1. Init => Inv
  BY InitInv
<1>2. Inv /\ [Next]_vars => Inv'
  BY NextKeepsInv
<1> QED BY <1>1, <1>2, PTL DEF Spec

(* The fields of requests, services and updates stay in their ranges; in   *)
(* particular to_delete never has more than its two bits, however often a  *)
(* client's requests are deleted while they are in use.                    *)
THEOREM RequestsTypeCorrect == Spec => []TypeOK
<1>1. Inv => TypeOK
  BY DEF Inv
<1> QED BY <1>1, RequestsInvariance, PTL

(* do_update_service never visits a request or service that was freed      *)
(* while it had given up the lock.                                         *)
THEOREM UpdatesUseLive == Spec => []UpdateUsesLive
<1>1. Inv => UpdateUsesLive
  BY DEF Inv
<1> QED BY <1>1, RequestsInvariance, PTL

(* Whatever release_conn, unsubscribing or dis_remove_service put off is   *)
(* in the hands of an update that has not yet looked for it.               *)
THEOREM DeletionsRemembered == Spec => []DeletionRemembered
<1>1. Inv => DeletionRemembered
  BY DEF Inv
<1> QED BY <1>1, RequestsInvariance, PTL

(* An update that is through with sending has served every monitored       *)
(* request it marked that is still there.                                  *)
THEOREM UpdatesReachAll == Spec => []UpdateReachesAll
<1>1. Inv => UpdateReachesAll
  BY DEF Inv
<1> QED BY <1>1, RequestsInvariance, PTL

(* Whoever made a request and whatever has become of him, the service it   *)
(* is for is there: this is what release_request in dis_remove_service     *)
(* must see to for the requests that are in no client's list as well.      *)
THEOREM RequestsAreServed == Spec => []RequestsServed
<1>1. Inv => RequestsServed
  BY DEF Inv, RequestsConnected
<1> QED BY <1>1, RequestsInvariance, PTL

(* dis_report_service and dis_send_service can only go round in their      *)
(* loops, with the lock, while an update has given it up.                  *)
THEOREM LoopsOnlyInUpdates == Spec => []HangsOnlyInUpdates
<1>1. Inv => HangsOnlyInUpdates
  BY DEF Inv
<1> QED BY <1>1, RequestsInvariance, PTL
=============================================================================
