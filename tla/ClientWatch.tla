---------------------------- MODULE ClientWatch ----------------------------
(***************************************************************************)
(* What a DIM server (dis.c) keeps and tells about its clients.            *)
(*                                                                         *)
(* A connection becomes a client with its first request.  The service      *)
(* CLIENT_LIST has a subscriber told of all clients first, and then of     *)
(* each that comes or goes (client_info).  A client may ask, with a        *)
(* command, for the application's exit routine to be called when it goes   *)
(* (add_exit_handler); that wish is kept under the number of its           *)
(* connection, which is used again.                                        *)
(*                                                                         *)
(* All of this is done under DIM's lock.  What follows an update takes     *)
(* several steps here, with the lock held: a client that could not be      *)
(* written to is released, which updates CLIENT_LIST again.  Updates of    *)
(* other services give up the lock on their way, and as long as one has a  *)
(* request of a client in use, the release of that client is put off.      *)
(* The first write to a new client does not fail, requests for CLIENT_LIST *)
(* have no timer, and a partner has one connection at a time.              *)
(***************************************************************************)
EXTENDS Naturals, FiniteSets

CONSTANTS
  Conns,         (* numbers of connections                                 *)
  Peers,         (* node and task of possible clients                      *)
  MaxWishes,     (* bounds the wishes that are kept at a time              *)
  MaxInUse       (* bounds the clients that updates have in use            *)

ASSUME ClientWatchAssumption ==
  "nobody" \notin Peers /\ MaxWishes \in Nat /\ MaxInUse \in Nat

Services == {"list", "other"}

VARIABLES
  peer,         (* who is connected under each number: Net_conns           *)
  clients,      (* the numbers in Client_head                              *)
  req,          (* what each client has requests for                       *)
  view,         (* what each subscriber of CLIENT_LIST has been told ...   *)
  missed,       (* ... but for those it may be wrong about                 *)
  doomed,       (* those with a request for CLIENT_LIST that has to_delete *)
  inUse,        (* those of which another update has a request in use:     *)
                (* delay_delete                                            *)
  putOff,       (* those of them to be released: to_delete                 *)
  due,          (* those an update of another service is releasing         *)
  exits,        (* Exit_h_head: who asked for the exit routine, per number *)
  announced     (* history: what the exit routine has told the application *)
                (* of a partner since it last connected                    *)

clientVars == <<peer, clients, req, view, missed>>
useVars == <<inUse, putOff, due>>
exitVars == <<exits, announced>>
vars == <<clientVars, doomed, useVars, exitVars>>

Init ==
  /\ peer = [c \in Conns |-> "nobody"]
  /\ clients = {}
  /\ req = [c \in Conns |-> {}]
  /\ view = [c \in Conns |-> {}] /\ missed = [c \in Conns |-> {}]
  /\ doomed = {} /\ inUse = {} /\ putOff = {} /\ due = {}
  /\ exits = [c \in Conns |-> "nobody"]
  /\ announced = [p \in Peers |-> "nothing"]

LockFree == doomed = {} /\ due = {}
Connected(c) == peer[c] # "nobody"
Watchers == {c \in Conns : "list" \in req[c]}
Others == {c \in Conns : "other" \in req[c]}

-----------------------------------------------------------------------------
(* client_info                                                             *)

(* Those told learn that Last_client, c, has come (+) or gone (-: then     *)
(* what it knew itself does not matter); of what it is not told a watcher  *)
(* may be wrong.                                                           *)
View(c, told, untold, sign) ==
  [d \in Conns |-> IF d = c /\ sign = "-" THEN {}
                   ELSE IF d \in told /\ sign = "+" THEN view[d] \cup {peer[c]}
                   ELSE IF d \in told \cup untold THEN view[d] \ {peer[c]} ELSE view[d]]

Missed(c, told, untold, sign) ==
  [d \in Conns |-> IF d = c /\ sign = "-" THEN {}
                   ELSE IF d \in told THEN missed[d] \ {peer[c]}
                   ELSE IF d \in untold THEN missed[d] \cup {peer[c]} ELSE missed[d]]

(* Of the watchers, some writes F fail, and nothing is written to those    *)
(* that have to_delete.  These are released in the end, unless in use.     *)
Told(F) == Watchers \ (F \cup doomed)
Untold(F) == (F \cup doomed) \cap inUse

Learn(c, F, sign) ==
  /\ view' = View(c, Told(F), Untold(F), sign)
  /\ missed' = Missed(c, Told(F), Untold(F), sign)

LearnNothing(c) ==
  /\ view' = View(c, {}, Watchers, "-")
  /\ missed' = Missed(c, {}, Watchers, "-")

(* All there are, for w, which has just subscribed; then all learn of it   *)
(* if it is new.                                                           *)
LearnAll(w, members, told, untold) ==
  /\ view' = [View(w, told, untold, "+") EXCEPT ![w] = {peer[c] : c \in members}]
  /\ missed' = [Missed(w, told, untold, "+") EXCEPT ![w] = {}]

-----------------------------------------------------------------------------
(* dis_insert_request: connections and requests.                           *)

Connect(c, p) ==
  /\ LockFree /\ ~Connected(c) /\ \A d \in Conns : peer[d] # p
  /\ peer' = [peer EXCEPT ![c] = p]
  /\ announced' = [announced EXCEPT ![p] = "nothing"]
  /\ UNCHANGED <<clients, req, view, missed, doomed, useVars, exits>>

Request(c, s) ==
  /\ LockFree /\ Connected(c) /\ s \notin req[c]
  /\ clients' = clients \cup {c}
  /\ req' = [req EXCEPT ![c] = @ \cup {s}]
  /\ UNCHANGED <<peer, useVars, exitVars>>

(* MONITORED: a new client is announced, when some writes F may fail.      *)
Subscribe(c) ==
  /\ Request(c, "other")
  /\ IF c \in clients
       THEN UNCHANGED <<view, missed, doomed>>
       ELSE \E F \in SUBSET Watchers : Learn(c, F, "+") /\ doomed' = F

Watch(c) ==
  /\ Request(c, "list")
  /\ IF c \in clients
       THEN LearnAll(c, clients, {}, {}) /\ UNCHANGED doomed
       ELSE \E F \in SUBSET (Watchers \cup {c}) :
              LearnAll(c, clients \cup {c}, Told(F), Untold(F)) /\ doomed' = F

(* ONCE_ONLY and COMMAND make a client that nobody is told about.          *)
Appear(c) ==
  /\ LockFree /\ Connected(c)
  /\ clients' = clients \cup {c}
  /\ IF c \in clients THEN UNCHANGED <<view, missed>> ELSE LearnNothing(c)
  /\ UNCHANGED <<peer, req, doomed, useVars>>

AskOnce(c) ==
  /\ c \notin clients /\ Appear(c)
  /\ UNCHANGED exitVars

(* DIM_DELETE: find_release_request.  A request in use stays until the end *)
(* of its update: EndUse.                                                  *)
Unsubscribe(c, s) ==
  /\ LockFree /\ s \in req[c] /\ (s = "other" => c \notin inUse)
  /\ req' = [req EXCEPT ![c] = @ \ {s}]
  /\ IF s = "list"
       THEN view' = [view EXCEPT ![c] = {}] /\ missed' = [missed EXCEPT ![c] = {}]
       ELSE UNCHANGED <<view, missed>>
  /\ UNCHANGED <<peer, clients, doomed, useVars, exitVars>>

-----------------------------------------------------------------------------
(* Updates of other services, by any thread.                               *)

Use(c) ==
  /\ LockFree /\ c \in Others \ inUse /\ Cardinality(inUse) < MaxInUse
  /\ inUse' = inUse \cup {c}
  /\ UNCHANGED <<clientVars, doomed, putOff, due, exitVars>>

(* At its end an update releases those clients that are to be released,    *)
(* and those W that have withdrawn their last request meanwhile.           *)
EndUse(C) ==
  /\ LockFree /\ C # {} /\ C \subseteq inUse
  /\ \E W \in SUBSET {c \in C : req[c] = {"other"}} :
       /\ req' = [c \in Conns |-> IF c \in W THEN {} ELSE req[c]]
       /\ due' = (C \cap putOff) \cup W
  /\ inUse' = inUse \ C
  /\ putOff' = putOff \ C
  /\ UNCHANGED <<peer, clients, view, missed, doomed, exitVars>>

-----------------------------------------------------------------------------
(* The exit routine.                                                       *)

(* The command SET_EXIT_HANDLER, with a tag, and without.                  *)
AskExit(c) ==
  /\ Appear(c)
  /\ Cardinality({d \in Conns : exits[d] # "nobody"} \cup {c}) <= MaxWishes
  /\ exits' = [exits EXCEPT ![c] = peer[c]]
  /\ UNCHANGED announced

AskNoExit(c) ==
  /\ Appear(c) /\ exits[c] # "nobody"
  /\ exits' = [exits EXCEPT ![c] = "nobody"]
  /\ UNCHANGED announced

(* Wrong: takes whoever has the number now for the one that asked.         *)
CallAnyway(c, N) ==
  /\ announced' = [p \in Peers |-> IF exits[c] = p THEN "end" ELSE announced[p]]
  /\ UNCHANGED exits

(* Whoever has asked under number c, if connected there.                   *)
Wishes(c) == exits[c] = peer[c] /\ Connected(c)

(* do_exit_handler for c, which is being released, and for others, N, that *)
(* the exit routine could not write to, calls the application's routine    *)
(* for each whose wish it is; a wish of another client, which had the      *)
(* number before, is forgotten.                                            *)
CallExit(c, N) ==
  /\ announced' = [p \in Peers |->
       IF Wishes(c) /\ peer[c] = p THEN "end"
       ELSE IF \E d \in N : Wishes(d) /\ peer[d] = p THEN "trouble" ELSE announced[p]]
  /\ exits' = [d \in Conns |-> IF d \in N \cup {c} /\ ~Wishes(d) THEN "nobody" ELSE exits[d]]

-----------------------------------------------------------------------------
(* release_conn                                                            *)

(* release_all_requests, dna_close                                         *)
Forget(c) ==
  /\ clients' = clients \ {c}
  /\ req' = [req EXCEPT ![c] = {}]
  /\ peer' = [peer EXCEPT ![c] = "nobody"]
  /\ due' = due \ {c}

(* Wrong: not if the client was one that could not be written to.          *)
PartQuietly(c) ==
  IF req[c] = {} \/ c \in doomed
    THEN UNCHANGED <<view, missed>> /\ doomed' = doomed \ {c}
    ELSE \E F \in SUBSET (Watchers \ {c}) :
           Learn(c, F, "-") /\ doomed' = (doomed \cup F) \ {c}

(* The others learn that c has gone, if it had a request.                  *)
Part(c) ==
  IF req[c] = {}
    THEN (IF c \in clients THEN LearnNothing(c) ELSE UNCHANGED <<view, missed>>)
         /\ UNCHANGED doomed
    ELSE \E F \in SUBSET (Watchers \ {c}) :
           Learn(c, F, "-") /\ doomed' = (doomed \cup F) \ {c}

(* The exit routine may update other services.  For a client N that is to  *)
(* be released then it is called, too, but as long as a release is under   *)
(* way (releasing) no other follows.  At the end of such an update those   *)
(* clients U are not in use any longer, although another thread may not    *)
(* have finished with them.                                                *)
RunExit(c) ==
  \E N \in SUBSET Others, U \in SUBSET inUse :
    /\ ~Wishes(c) => N = {} /\ U = {}
    /\ U \cap putOff \subseteq N
    /\ inUse' = inUse \ U
    /\ putOff' = (putOff \cup N) \cap inUse'
    /\ CallExit(c, N \ inUse')

(* check_delay_delete: a client in use is released at the end of that      *)
(* update.                                                                 *)
Release(c) ==
  IF c \in inUse
    THEN /\ putOff' = putOff \cup {c}
         /\ doomed' = doomed \ {c} /\ due' = due \ {c}
         /\ UNCHANGED <<clientVars, inUse, exitVars>>
    ELSE RunExit(c) /\ Part(c) /\ Forget(c)

(* The connection is lost, or a write to it fails.                         *)
Lose(c) == LockFree /\ Connected(c) /\ Release(c)

(* The end of do_update_service for CLIENT_LIST, for one that could not be *)
(* written to, and for another service.                                    *)
Reap(c) == c \in doomed /\ Release(c)
Finish(c) == doomed = {} /\ c \in due /\ Release(c)

-----------------------------------------------------------------------------
Next ==
  \/ \E c \in Conns :
       \/ \E p \in Peers : Connect(c, p)
       \/ Subscribe(c) \/ Watch(c) \/ AskOnce(c)
       \/ \E s \in Services : Unsubscribe(c, s)
       \/ Use(c) \/ AskExit(c) \/ AskNoExit(c)
       \/ Lose(c) \/ Reap(c) \/ Finish(c)
  \/ \E C \in SUBSET inUse : EndUse(C)

Spec == Init /\ [][Next]_vars

-----------------------------------------------------------------------------
(* Properties.                                                             *)

(* Types; what a connection leaves behind is only its wish.                *)
TypeOK ==
  /\ peer \in [Conns -> Peers \cup {"nobody"}] /\ exits \in [Conns -> Peers \cup {"nobody"}]
  /\ announced \in [Peers -> {"nothing", "trouble", "end"}]
  /\ clients \subseteq {c \in Conns : Connected(c)}
  /\ doomed \subseteq Watchers /\ due \subseteq clients
  /\ inUse \subseteq Others /\ putOff \subseteq inUse
  /\ req \in [Conns -> SUBSET Services] /\ \A c \in Conns \ clients : req[c] = {}
  /\ view \in [Conns -> SUBSET Peers] /\ missed \in [Conns -> SUBSET Peers]

(* Each subscriber of CLIENT_LIST knows exactly who is a client, through   *)
(* all coming, going and failing.  Nobody is told of those that came with  *)
(* a single question or a command, or went after they had withdrawn their  *)
(* requests.  A watcher that could not be written to has gone, but if      *)
(* another update has it in use, it stays for now, wrong about what it was *)
(* not told.                                                               *)
ClientListRight ==
  LockFree =>
    \A w \in Watchers :
      view[w] = {peer[c] : c \in clients} \ missed[w]

(* The exit routine does not tell the application of the end of a partner  *)
(* that is connected, although wishes outlive connections, their numbers   *)
(* are used again, and a release may be put off.  It is only called for    *)
(* one that stays when its own updates could not be written to that one.   *)
EndsAreTrue == \A c \in Conns : Connected(c) => announced[peer[c]] # "end"

-----------------------------------------------------------------------------
(* What the proofs rest on.                                                *)

PeersApart == \A c, d \in Conns : Connected(c) /\ peer[c] = peer[d] => c = d

Present == {peer[c] : c \in clients}

(* Watchers that could be written to, or that stay because they are in     *)
(* use, are right even while others are being released.                    *)
WatchersRight == \A w \in Watchers \ (doomed \ inUse) : view[w] = Present \ missed[w]

(* The inductive invariant.                                                *)
Inv == TypeOK /\ PeersApart /\ WatchersRight /\ EndsAreTrue
=============================================================================
