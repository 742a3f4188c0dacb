---------------------------- MODULE ServerRequests ----------------------------
(***************************************************************************)
(* The DIM server (dis.c): services, the requests of clients for them, the *)
(* connections the requests came over, and dis_update_service, which sends *)
(* a service to everyone who has requested it.                             *)
(*                                                                         *)
(* DIM has one global lock.  do_update_service gives it up after every     *)
(* client it has written to, so that in the middle of an update requests   *)
(* come and go, connections break, timers expire and the service itself is *)
(* removed.  What the update may still visit is not freed: delay_delete    *)
(* says that it is in use, to_delete that it is to go when the update is   *)
(* through.                                                                *)
(*                                                                         *)
(* Every action is what one thread does between taking and giving up the   *)
(* lock.  The list of a service's requests is the set of those that name   *)
(* it, and the list of a client's those that came over its connection and  *)
(* are not for commands, which DIM does not put there.                     *)
(***************************************************************************)
EXTENDS Integers, FiniteSets

CONSTANTS
  Services,   (* service IDs, each used once                               *)
  Conns,      (* connection IDs, used again when closed                    *)
  Requests,   (* request IDs, used again when freed                        *)
  Updaters    (* threads that call dis_update_service                      *)

VARIABLES
  service,    (* the services: their lives, delay_delete and to_delete     *)
  req,        (* the requests                                              *)
  conn,       (* the connections: closed, open, or, when release_conn was  *)
              (* put off, leaving, or lost if the client is gone           *)
  up,         (* the calls of do_update_service                            *)
  loop        (* which function a thread goes round in with the lock       *)

vars == <<service, req, conn, up, loop>>

NoRequest == [service |-> 0, conn |-> 0, kind |-> "free",
              delay |-> 0, toDelete |-> 0]
NoUpdate  == [pc |-> "idle", service |-> 0, marked |-> {}, sent |-> {}]

Init ==
  /\ service = [s \in Services |-> [life |-> "new", delay |-> 0, toDelete |-> 0]]
  /\ req = [r \in Requests |-> NoRequest]
  /\ conn = [c \in Conns |-> "closed"]
  /\ up = [u \in Updaters |-> NoUpdate]
  /\ loop = "none"

(* While it reaps do_update_service keeps the lock from one request to the *)
(* next, and dis_report_service and dis_send_service in all their loops.   *)
LockFree == loop = "none" /\ \A u \in Updaters : up[u].pc # "reap"

Alive(s)       == service[s].life = "alive"
Allocated(q)   == {r \in Requests : q[r].kind # "free"}
ListOf(q, s)   == {r \in Allocated(q) : q[r].service = s}
ClientOf(q, c) == {r \in Allocated(q) : q[r].conn = c /\ q[r].kind # "command"}
InUse(q, c)    == {r \in ClientOf(q, c) : q[r].delay > 0}

(* dis_get_client_services                                                 *)
ClientServices(c) == {req[r].service : r \in ClientOf(req, c)}

Without(q, rs) == [r \in Requests |-> IF r \in rs THEN NoRequest ELSE q[r]]

(* to_delete has two bits: the connection, or the request alone.           *)
ConnBit(r)    == req[r].toDelete % 2 = 1
RequestBit(r) == (req[r].toDelete \div 2) % 2 = 1

-----------------------------------------------------------------------------
(* release_conn                                                            *)

CloseConn(q, c) ==
  /\ req' = Without(q, ClientOf(q, c))
  /\ conn' = [conn EXCEPT ![c] = "closed"]

PutOff(c) ==
  conn' = [conn EXCEPT ![c] = IF @ = "lost" THEN "lost" ELSE "leaving"]

(* Wrong: releases everything whatever is in use.                          *)
ReleaseNow(q, c) == CloseConn(q, c)

NoteConn(q, c) ==
  [r \in Requests |->
     IF r \in InUse(q, c) THEN [q[r] EXCEPT !.toDelete = 1] ELSE q[r]]

(* A connection with requests in use stays, and these are to delete it     *)
(* when their updates are through; otherwise its requests are freed and it *)
(* is closed.                                                              *)
ReleaseConn(q, c) ==
  \/ InUse(q, c) = {} /\ CloseConn(q, c)
  \/ InUse(q, c) # {} /\ PutOff(c) /\ req' = NoteConn(q, c)

(* The same for the connections F, one after the other.                    *)
Closable(q, F) == {c \in F : InUse(q, c) = {}}

Released(q, F) ==
  [r \in Requests |->
     IF r \in UNION {ClientOf(q, c) : c \in Closable(q, F)} THEN NoRequest
     ELSE IF r \in UNION {InUse(q, c) : c \in F} THEN [q[r] EXCEPT !.toDelete = 1]
     ELSE q[r]]

ReleaseConns(q, F) ==
  /\ req' = Released(q, F)
  /\ conn' = [c \in Conns |->
       IF c \in Closable(q, F) THEN "closed"
       ELSE IF c \in F /\ conn[c] # "lost" THEN "leaving" ELSE conn[c]]

(* Wrong: a failure ends the use of the request by anybody.                *)
ExecuteResets(q, r) ==
  \/ req' = q /\ UNCHANGED conn
  \/ q[r].toDelete = 0 /\ ReleaseConn([q EXCEPT ![r].delay = 0], q[r].conn)

(* execute_service writes to the client, unless the request is to go.      *)
(* When that fails it releases the connection, or, if an update uses the   *)
(* request, leaves that to the update.                                     *)
Execute(q, r) ==
  \/ req' = q /\ UNCHANGED conn
  \/ /\ q[r].toDelete = 0 /\ q[r].delay > 0
     /\ req' = [q EXCEPT ![r].toDelete = 1]
     /\ UNCHANGED conn
  \/ q[r].toDelete = 0 /\ q[r].delay = 0 /\ ReleaseConn(q, q[r].conn)

-----------------------------------------------------------------------------
(* What clients do, as long as they are there.                             *)

Present == {"open", "leaving"}

Connect(c) ==
  /\ LockFree
  /\ conn[c] = "closed"
  /\ conn' = [conn EXCEPT ![c] = "open"]
  /\ UNCHANGED <<service, req, up, loop>>

(* So that they can be told apart, a request does not get the ID of one    *)
(* that an update in progress has known.                                   *)
Fresh(r) == req[r] = NoRequest /\ \A u \in Updaters : r \notin up[u].marked

NewRequest(c, s, kind) ==
  [service |-> s, conn |-> c, kind |-> kind, delay |-> 0, toDelete |-> 0]

(* A request for a service, to be sent when it is updated ("monitored") or *)
(* by a timer only ("timed").  Most are sent once at the beginning.        *)
Subscribe(c, s, r, kind) ==
  /\ LockFree
  /\ conn[c] \in Present
  /\ Alive(s)
  /\ Fresh(r)
  /\ Execute([req EXCEPT ![r] = NewRequest(c, s, kind)], r)
  /\ UNCHANGED <<service, up, loop>>

(* A single question (ONCE_ONLY) is answered and leaves no request.        *)
AskOnce(c, s) ==
  /\ LockFree
  /\ conn[c] \in Present
  /\ Alive(s)
  /\ ReleaseConn(req, c) \/ UNCHANGED <<req, conn>>
  /\ UNCHANGED <<service, up, loop>>

(* A command is executed, and the first one from a connection is kept in   *)
(* the list of the service, though not in that of the client.              *)
Command(c, s, r) ==
  /\ LockFree
  /\ conn[c] \in Present
  /\ Alive(s)
  /\ Fresh(r)
  /\ \A t \in ListOf(req, s) : req[t].conn # c
  /\ req' = [req EXCEPT ![r] = NewRequest(c, s, "command")]
  /\ UNCHANGED <<service, conn, up, loop>>

(* A client that wants no more of a service says so once.                  *)
Unsubscribe(r) ==
  /\ LockFree
  /\ req[r].kind \in {"monitored", "timed"}
  /\ req[r].toDelete < 2 /\ conn[req[r].conn] \in Present
  /\ req' = IF req[r].delay > 0
            THEN [req EXCEPT ![r].toDelete = @ + 2]
            ELSE Without(req, {r})
  /\ UNCHANGED <<service, conn, up, loop>>

(* A client that asks for a service that is not there is thrown out.       *)
UnknownService(c) ==
  /\ LockFree
  /\ conn[c] \in Present
  /\ ReleaseConn(req, c)
  /\ UNCHANGED <<service, up, loop>>

(* The connection is lost.                                                 *)
Disconnect(c) ==
  /\ LockFree
  /\ conn[c] \in Present
  /\ \/ InUse(req, c) = {} /\ CloseConn(req, c)
     \/ /\ InUse(req, c) # {}
        /\ conn' = [conn EXCEPT ![c] = "lost"]
        /\ req' = NoteConn(req, c)
  /\ UNCHANGED <<service, up, loop>>

(* The timer of a request expires.                                         *)
Timer(r) ==
  /\ LockFree
  /\ req[r].kind \in {"monitored", "timed"}
  /\ Execute(req, r)
  /\ UNCHANGED <<service, up, loop>>

-----------------------------------------------------------------------------
(* What the server's application does.                                     *)

AddService(s) ==
  /\ LockFree
  /\ service[s].life = "new"
  /\ service' = [service EXCEPT ![s].life = "alive"]
  /\ UNCHANGED <<req, conn, up, loop>>

(* remove_service and release_request: the clients are told, and their     *)
(* requests go.                                                            *)
Withdrawn(s) == Without(req, ListOf(req, s))

(* dis_remove_service; an update in progress puts it off.                  *)
RemoveService(s) ==
  /\ LockFree
  /\ Alive(s)
  /\ IF service[s].delay > 0
     THEN /\ service' = [service EXCEPT ![s].toDelete = 1]
          /\ UNCHANGED req
     ELSE /\ service' = [service EXCEPT ![s].life = "gone"]
          /\ req' = Withdrawn(s)
  /\ UNCHANGED <<conn, up, loop>>

(* A number without a connection takes what is written and drops it, so    *)
(* that a write fails for a connection only.                               *)
Writable(rs) == {r \in rs : conn[req[r].conn] # "closed"}
ConnsOf(rs) == {req[r].conn : r \in rs}

(* Everyone who has not asked for a timer only, those included who have    *)
(* sent commands, and whoever has their numbers now.                       *)
Reported(s) == {r \in ListOf(req, s) : req[r].kind # "timed"}

(* dis_report_service executes these.  If it comes upon a request that is  *)
(* to go, it releases the connections of all such requests of the service, *)
(* again and again until none is left: one that is in use, or was kept for *)
(* commands, stays.  It may miss requests that a release has marked after  *)
(* it had passed them.                                                     *)
ReportService(s) ==
  /\ LockFree
  /\ Alive(s)
  /\ \E F \in SUBSET Writable({r \in Reported(s) : req[r].toDelete = 0}), seen \in BOOLEAN :
       LET q == [r \in Requests |->
                   IF r \in F /\ req[r].delay > 0 THEN [req[r] EXCEPT !.toDelete = 1]
                   ELSE req[r]]
           first == ConnsOf({r \in F : req[r].delay = 0})
           doomed(p) == {r \in ListOf(p, s) : p[r].toDelete # 0}
       IN  /\ doomed(q) \cap Reported(s) # {} => seen
           /\ seen => doomed(Released(q, first)) \cap Reported(s) # {}
           /\ ReleaseConns(q, first \cup IF seen THEN ConnsOf(doomed(q)) ELSE {})
           /\ loop' = IF seen /\ doomed(req') # {} THEN "report" ELSE "none"
  /\ UNCHANGED <<service, up>>

(* dis_send_service writes to everyone in the list, with data that are not *)
(* the service's, and to those it fails to reach again after the release:  *)
(* with the connection gone that succeeds, but if the release is put off   *)
(* it goes on writing ...                                                  *)
SendService(s) ==
  /\ LockFree
  /\ Alive(s)
  /\ \E F \in SUBSET ConnsOf(Writable(ListOf(req, s))) :
       /\ ReleaseConns(req, F)
       /\ loop' = IF Closable(req, F) = F THEN "none" ELSE "send"
  /\ UNCHANGED <<service, up>>

(* ... until it succeeds, if ever.  dis_report_service finds the same      *)
(* request for ever.                                                       *)
SendEnds ==
  /\ loop = "send"
  /\ loop' = "none"
  /\ UNCHANGED <<service, req, conn, up>>

GoRound == loop # "none" /\ UNCHANGED vars

-----------------------------------------------------------------------------
(* do_update_service.  The threads of the application do not update the    *)
(* same service at the same time: delay_delete does not count.             *)

(* check_client: of the clients C only, or of all.                         *)
ForClients(s, C) == {r \in ListOf(req, s) : req[r].conn \in C}

UpdateMark(u, s, C) ==
  /\ LockFree
  /\ up[u].pc = "idle"
  /\ Alive(s)
  /\ \A v \in Updaters : up[v].service # s
  /\ service' = [service EXCEPT ![s].delay = 1]
  /\ req' = [r \in Requests |->
       IF r \in ForClients(s, C) THEN [req[r] EXCEPT !.delay = 1] ELSE req[r]]
  /\ up' = [up EXCEPT ![u] =
       [pc |-> "send", service |-> s, marked |-> ForClients(s, C), sent |-> {}]]
  /\ UNCHANGED <<conn, loop>>

Unsent(u) ==
  {r \in ListOf(req, up[u].service) \ up[u].sent :
     req[r].delay > 0 /\ req[r].kind = "monitored"}

(* One client, then the lock is given up.                                  *)
UpdateSend(u, r) ==
  /\ LockFree
  /\ up[u].pc = "send"
  /\ r \in Unsent(u)
  /\ Execute(req, r)
  /\ up' = [up EXCEPT ![u].sent = @ \cup {r}]
  /\ UNCHANGED <<service, loop>>

(* Wrong: does not look whether a request is to go.                        *)
UpdateClearOnly(u) ==
  /\ LockFree
  /\ up[u].pc = "send"
  /\ Unsent(u) = {}
  /\ req' = [r \in Requests |->
       IF r \in ListOf(req, up[u].service)
       THEN [req[r] EXCEPT !.delay = 0] ELSE req[r]]
  /\ up' = [up EXCEPT ![u].pc = "finish"]
  /\ UNCHANGED <<service, conn, loop>>

(* Wrong: clears only the requests it has sent the service to.             *)
UpdateClearSent(u) ==
  LET list == ListOf(req, up[u].service)
  IN  /\ LockFree
      /\ up[u].pc = "send"
      /\ Unsent(u) = {}
      /\ req' = [r \in Requests |->
           IF r \in up[u].sent THEN [req[r] EXCEPT !.delay = 0] ELSE req[r]]
      /\ up' = [up EXCEPT ![u].pc =
           IF \E r \in list : req[r].toDelete # 0 THEN "toReap" ELSE "finish"]
      /\ UNCHANGED <<service, conn, loop>>

(* Requests that are not marked have nothing to clear.                     *)
UpdateClear(u) ==
  LET list == ListOf(req, up[u].service)
  IN  /\ LockFree
      /\ up[u].pc = "send"
      /\ Unsent(u) = {}
      /\ req' = [r \in Requests |->
           IF r \in list THEN [req[r] EXCEPT !.delay = 0] ELSE req[r]]
      /\ up' = [up EXCEPT ![u].pc =
           IF \E r \in list : req[r].toDelete # 0 THEN "toReap" ELSE "finish"]
      /\ UNCHANGED <<service, conn, loop>>

UpdateReap(u) ==
  /\ LockFree
  /\ up[u].pc = "toReap"
  /\ up' = [up EXCEPT ![u].pc = "reap"]
  /\ UNCHANGED <<service, req, conn, loop>>

(* A request that is to delete its connection ...                          *)
ReapConn(u, r) ==
  /\ up[u].pc = "reap"
  /\ r \in ListOf(req, up[u].service) /\ ConnBit(r)
  /\ ReleaseConn([req EXCEPT ![r].toDelete = 0], req[r].conn)
  /\ UNCHANGED <<service, up, loop>>

(* ... and one that only goes itself, with the connection if it was the    *)
(* client's last.                                                          *)
ReapRequest(u, r) ==
  LET rest == Without(req, {r})
  IN  /\ up[u].pc = "reap"
      /\ r \in ListOf(req, up[u].service) /\ RequestBit(r) /\ ~ConnBit(r)
      /\ IF ClientOf(rest, req[r].conn) = {}
         THEN ReleaseConn(rest, req[r].conn)
         ELSE req' = rest /\ UNCHANGED conn
      /\ UNCHANGED <<service, up, loop>>

ReapEnd(u) ==
  /\ up[u].pc = "reap"
  /\ \A r \in ListOf(req, up[u].service) : ~ConnBit(r) /\ ~RequestBit(r)
  /\ up' = [up EXCEPT ![u].pc = "finish"]
  /\ UNCHANGED <<service, req, conn, loop>>

(* Wrong: forgets that the service was to be removed.                      *)
UpdateFinishKeeps(u) ==
  /\ LockFree
  /\ up[u].pc = "finish"
  /\ service' = [service EXCEPT ![up[u].service].delay = 0]
  /\ up' = [up EXCEPT ![u] = NoUpdate]
  /\ UNCHANGED <<req, conn, loop>>

(* Wrong: frees the service and not its requests.                          *)
UpdateFinishLeaves(u) ==
  LET s == up[u].service
  IN  /\ LockFree
      /\ up[u].pc = "finish"
      /\ service' = [service EXCEPT ![s] =
           IF @.toDelete # 0 THEN [life |-> "gone", delay |-> 0, toDelete |-> 1]
                             ELSE [@ EXCEPT !.delay = 0]]
      /\ up' = [up EXCEPT ![u] = NoUpdate]
      /\ UNCHANGED <<req, conn, loop>>

UpdateFinish(u) ==
  LET s == up[u].service
  IN  /\ LockFree
      /\ up[u].pc = "finish"
      /\ IF service[s].toDelete # 0
         THEN /\ service' = [service EXCEPT
                   ![s] = [life |-> "gone", delay |-> 0, toDelete |-> 1]]
              /\ req' = Withdrawn(s)
         ELSE service' = [service EXCEPT ![s].delay = 0] /\ UNCHANGED req
      /\ up' = [up EXCEPT ![u] = NoUpdate]
      /\ UNCHANGED <<conn, loop>>

UpdateStep(u) ==
  \/ \E r \in Requests :
       UpdateSend(u, r) \/ ReapConn(u, r) \/ ReapRequest(u, r)
  \/ UpdateClear(u) \/ UpdateReap(u) \/ ReapEnd(u) \/ UpdateFinish(u)

-----------------------------------------------------------------------------
ClientStep ==
  \/ \E c \in Conns : Connect(c) \/ UnknownService(c) \/ Disconnect(c)
  \/ \E c \in Conns, s \in Services, r \in Requests :
       \/ \E kind \in {"monitored", "timed"} : Subscribe(c, s, r, kind)
       \/ Command(c, s, r)
  \/ \E c \in Conns, s \in Services : AskOnce(c, s)
  \/ \E r \in Requests : Unsubscribe(r) \/ Timer(r)

Next ==
  \/ ClientStep
  \/ \E s \in Services :
       AddService(s) \/ RemoveService(s) \/ ReportService(s) \/ SendService(s)
  \/ SendEnds \/ GoRound
  \/ \E u \in Updaters, s \in Services, C \in SUBSET Conns : UpdateMark(u, s, C)
  \/ \E u \in Updaters : UpdateStep(u)

Spec == Init /\ [][Next]_vars

(* An update under way goes on; the lock it takes again and again is given *)
(* up after every step of somebody else.                                   *)
FairSpec == Spec /\ \A u \in Updaters : SF_vars(UpdateStep(u))

-----------------------------------------------------------------------------
(* Properties.                                                             *)

Request == [service : Services, conn : Conns,
            kind : {"monitored", "timed", "command"},
            delay : 0..1, toDelete : 0..3]

TypeOK ==
  /\ service \in [Services -> [life : {"new", "alive", "gone"},
                               delay : 0..1, toDelete : 0..1]]
  /\ req \in [Requests -> Request \cup {NoRequest}]
  /\ conn \in [Conns -> {"closed", "open", "leaving", "lost"}]
  /\ up \in [Updaters ->
       [pc : {"idle", "send", "toReap", "reap", "finish"},
        service : Services \cup {0},
        marked : SUBSET Requests, sent : SUBSET Requests]]
  /\ loop \in {"none", "report", "send"}

Updating(u, s) == up[u].pc # "idle" /\ up[u].service = s
Sending(u, s)  == up[u].pc = "send" /\ up[u].service = s

(* do_update_service reads only what is there: the service lives as long   *)
(* as the update, and the requests it has marked until it clears them,     *)
(* although it gives up the lock.                                          *)
UpdateUsesLive ==
  \A u \in Updaters, s \in Services :
    /\ Updating(u, s) => Alive(s)
    /\ Sending(u, s) => up[u].marked \subseteq ListOf(req, s)

(* What was put off is not forgotten: a request or service that is to go   *)
(* is in an update that will see to it, and a connection that is lost has  *)
(* a request that says so.                                                 *)
DeletionRemembered ==
  /\ \A r \in Requests : req[r].toDelete # 0 =>
       \E u \in Updaters :
         Updating(u, req[r].service) /\ up[u].pc \in {"send", "toReap", "reap"}
  /\ \A s \in Services : Alive(s) /\ service[s].toDelete # 0 =>
       \E u \in Updaters : Updating(u, s)
  /\ \A c \in Conns : conn[c] = "lost" =>
       \E r \in ClientOf(req, c) : ConnBit(r)

(* An update reaches everybody who had requested the service when it       *)
(* began, but those who have left since.                                   *)
UpdateReachesAll ==
  \A u \in Updaters : up[u].pc \in {"toReap", "reap", "finish"} =>
    \A r \in up[u].marked \cap ListOf(req, up[u].service) :
      req[r].kind = "monitored" => r \in up[u].sent

(* Every request is for a service that is there, whoever made it and       *)
(* whatever has become of its client, so that what reports, timers,        *)
(* updates and dis_get_client_services read of the service is.             *)
RequestsServed == \A r \in Allocated(req) : Alive(req[r].service)

(* dis_report_service and dis_send_service return at once, unless they     *)
(* are called while an update has given up the lock.                       *)
HangsOnlyInUpdates == loop # "none" => \E u \in Updaters : up[u].pc # "idle"

(* What was put off is done in the end, while clients come and go, if no   *)
(* report or sending of data goes round for ever with the lock.            *)
DeletionDone ==
  []<>(loop = "none") =>
    /\ \A c \in Conns : conn[c] = "lost" ~> conn[c] # "lost"
    /\ \A s \in Services :
         service[s].toDelete # 0 ~> service[s].life = "gone"

-----------------------------------------------------------------------------
(* What the proofs rest on.                                                *)

(* No two updates are of the same service.                                 *)
UpdatesApart ==
  \A u \in Updaters :
    /\ up[u].pc = "idle" => up[u] = NoUpdate
    /\ up[u].pc # "idle" => up[u].service \in Services
    /\ \A v \in Updaters, s \in Services : Updating(u, s) /\ Updating(v, s) => u = v

ServiceState ==
  \A s \in Services :
    /\ service[s].delay = 1 <=> \E u \in Updaters : Updating(u, s)
    /\ service[s].life = "new" => service[s].toDelete = 0

(* delay_delete of a request says that an update is to visit it.           *)
DelayMarked ==
  \A r \in Requests : req[r].delay = 1 =>
    \E u \in Updaters : Sending(u, req[r].service) /\ r \in up[u].marked

MarkedDelayed ==
  \A u \in Updaters : up[u].pc = "send" =>
    \A r \in up[u].marked :
      r \in ListOf(req, up[u].service) /\ req[r].delay = 1

(* No request but those kept for commands outlives its connection.         *)
RequestsConnected ==
  /\ \A c \in Conns : conn[c] = "closed" => ClientServices(c) = {}
  /\ RequestsServed

(* The inductive invariant.                                                *)
Inv ==
  /\ TypeOK /\ UpdatesApart /\ ServiceState /\ DelayMarked /\ MarkedDelayed
  /\ UpdateUsesLive /\ DeletionRemembered /\ UpdateReachesAll /\ RequestsConnected
  /\ HangsOnlyInUpdates
=============================================================================
