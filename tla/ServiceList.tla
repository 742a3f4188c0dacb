---------------------------- MODULE ServiceList ----------------------------
(***************************************************************************)
(* The list of services that every DIM server offers as a service of its   *)
(* own (dis.c: service_info).  A client that subscribes gets the whole     *)
(* list, and from then on only what changes: what has been registered      *)
(* since, shortly after dis_start_serving, and what is removed.  The       *)
(* server does not note who knows what: `registered` of a service counts   *)
(* the clients that were told of it, on top of the name server.            *)
(*                                                                         *)
(* dis_start_serving looks for new services only in those buckets of the   *)
(* hash table that have new entries; these are counted too.                *)
(*                                                                         *)
(* All updates of this list are made by a timer or by the removal of a     *)
(* service, with DIM's lock held throughout, so that every action is one   *)
(* call.  The server has been started and has met the name server once;    *)
(* requests for the list have no timer.  A client that cannot be written   *)
(* to leaves at once; that release_conn may put it off is left out.        *)
(***************************************************************************)
EXTENDS Naturals, Sequences, FiniteSets, SequencesExt

CONSTANTS
  Services,    (* names of services                                        *)
  Clients,     (* that may ask for the list                                *)
  Buckets,     (* of the hash table                                        *)
  Hash,        (* HashFunction: the bucket of each name                    *)
  MaxNew       (* bounds Service_new_entries                               *)

ASSUME ServiceListAssumption ==
  /\ Hash \in [Services -> Buckets] /\ MaxNew \in Nat
  /\ IsFiniteSet(Services) /\ IsFiniteSet(Clients)

VARIABLES
  table,        (* the services there are                                  *)
  registered,   (* of each service                                         *)
  newEntries,   (* Service_new_entries                                     *)
  open,         (* the connection to the name server stands                *)
  pending,      (* updating_service_list: a timer will update the list     *)
  requests,     (* for the list, in order                                  *)
  view,         (* what each client has been told there is                 *)
  missed,       (* what each may be wrong about                            *)
  fresh         (* services added since the last dis_start_serving         *)

vars == <<table, registered, newEntries, open, pending, requests, view, missed, fresh>>

Init ==
  /\ table = {} /\ fresh = {}
  /\ registered = [s \in Services |-> 0]
  /\ newEntries = [b \in Buckets |-> 0]
  /\ open = TRUE /\ pending = FALSE
  /\ requests = <<>>
  /\ view = [c \in Clients |-> {}]
  /\ missed = [c \in Clients |-> {}]

Asks(c) == \E i \in DOMAIN requests : requests[i].client = c

(* dis_get_n_clients, which counts requests.                               *)
NClients == Len(requests)

In(b, S) == {s \in S : Hash[s] = b}
Least(a, b) == IF a < b THEN a ELSE b
Minus(a, b) == IF a < b THEN 0 ELSE a - b

Known == [registered |-> registered, pending |-> pending, view |-> view, missed |-> missed]

Become(k) ==
  /\ registered' = k.registered
  /\ pending' = k.pending
  /\ view' = k.view
  /\ missed' = k.missed

-----------------------------------------------------------------------------
(* service_info: k is what has been told before.                           *)

(* Wrong: the whole list with what an update is still to tell the others.  *)
ListedAll(k, n) == {s \in table : k.registered[s] # 0}

(* The whole list leaves out what an update is about to tell everybody ... *)
Listed(k, n) ==
  {s \in table : k.registered[s] # 0 /\ ~(k.pending /\ n > 1 /\ k.registered[s] = 1)}

(* ... and counts its services as known to all n clients.  If no update    *)
(* was about to come, or it is late for that, some of them may thus never  *)
(* hear of a service.  C are those who get the list and keep it.           *)
WholeList(k, C, n, late) ==
  LET listed == Listed(k, n)
      unknown(d) == IF late /\ Asks(d) THEN listed \ k.view[d] ELSE {}
      skipped == IF late THEN {s \in table : k.registered[s] # 0} \ listed ELSE {}
  IN [k EXCEPT
      !.registered = [s \in Services |-> IF s \in listed THEN n + 1 ELSE k.registered[s]],
      !.view = [d \in Clients |-> IF d \in C THEN listed ELSE k.view[d]],
      !.missed = [d \in Clients |-> IF d \in C THEN skipped ELSE k.missed[d] \cup unknown(d)]]

(* What has changed, for c, which is one of n clients.                     *)
Changes(k, c, n) ==
  LET gone == {s \in table : k.registered[s] = 0}
      new == {s \in table : k.registered[s] \in 1..n}
  IN [k EXCEPT
      !.registered = [s \in Services |-> IF s \in new THEN k.registered[s] + 1 ELSE k.registered[s]],
      !.view[c] = (@ \ gone) \cup new,
      !.missed[c] = @ \ (gone \cup new)]

(* do_update_service for the list: each request in turn.  One that has not *)
(* been served yet gets the whole list.                                    *)
Serve(k, r) ==
  IF r.first THEN WholeList(k, {r.client}, NClients, TRUE)
             ELSE Changes(k, r.client, NClients)

Updated(k) ==
  LET served[i \in 0..Len(requests)] ==
        IF i = 0 THEN k ELSE Serve(served[i - 1], requests[i])
  IN served[Len(requests)]

Update(k) ==
  /\ Become(Updated(k))
  /\ requests' = [i \in DOMAIN requests |-> [requests[i] EXCEPT !.first = FALSE]]

-----------------------------------------------------------------------------
(* dis_add_service                                                         *)
AddService(s) ==
  /\ s \notin table /\ newEntries[Hash[s]] < MaxNew
  /\ table' = table \cup {s}
  /\ registered' = [registered EXCEPT ![s] = 0]
  /\ newEntries' = [newEntries EXCEPT ![Hash[s]] = @ + 1]
  /\ fresh' = fresh \cup {s}
  /\ UNCHANGED <<open, pending, requests, view, missed>>

Unregistered == {s \in table : registered[s] = 0}

(* dis_start_serving again: register_services(MORE) goes through a bucket  *)
(* as long as it has new entries.  The update is left to a timer.          *)
StartServing ==
  \E R \in SUBSET Unregistered :
    /\ \A b \in Buckets :
         Cardinality(In(b, R)) = Least(newEntries[b], Cardinality(In(b, Unregistered)))
    /\ registered' = [s \in Services |-> IF s \in R THEN 1 ELSE registered[s]]
    /\ newEntries' = [b \in Buckets |-> Minus(newEntries[b], Cardinality(In(b, R)))]
    /\ pending' = TRUE
    /\ fresh' = {}
    /\ UNCHANGED <<table, open, requests, view, missed>>

(* Wrong: no new entries are left, so it seems.                            *)
RegisterAllNone ==
  /\ open' = TRUE
  /\ registered' = [s \in Services |-> IF s \in table \ fresh THEN 1 ELSE registered[s]]
  /\ newEntries' = [b \in Buckets |-> Minus(newEntries[b], Cardinality(In(b, table)))]
  /\ UNCHANGED <<table, pending, requests, view, missed, fresh>>

(* register_services(ALL): the name server has come back, or asks for it.  *)
(* Services that dis_start_serving has not announced yet are registered    *)
(* as well.                                                                *)
RegisterAll ==
  /\ open' = TRUE
  /\ registered' = [s \in Services |-> IF s \in table THEN 1 ELSE registered[s]]
  /\ newEntries' = [b \in Buckets |-> Minus(newEntries[b], Cardinality(In(b, table)))]
  /\ UNCHANGED <<table, pending, requests, view, missed, fresh>>

LoseNameServer ==
  /\ open /\ open' = FALSE
  /\ UNCHANGED <<table, registered, newEntries, pending, requests, view, missed, fresh>>

(* do_update_service_list, called by the timer.                            *)
UpdateList ==
  /\ pending
  /\ Update([Known EXCEPT !.pending = FALSE])
  /\ UNCHANGED <<table, newEntries, open, fresh>>

(* dis_remove_service: unregister_service updates the list while the       *)
(* service is still there.                                                 *)
RemoveService(s) ==
  /\ s \in table /\ open
  /\ Update([Known EXCEPT !.registered[s] = 0])
  /\ table' = table \ {s} /\ fresh' = fresh \ {s}
  /\ UNCHANGED <<newEntries, open>>

(* Without a name server nobody is told.                                   *)
RemoveQuietly(s) ==
  /\ s \in table /\ ~open
  /\ table' = table \ {s} /\ fresh' = fresh \ {s}
  /\ registered' = [registered EXCEPT ![s] = 0]
  /\ missed' = [c \in Clients |-> missed[c] \cup ({s} \cap view[c])]
  /\ UNCHANGED <<newEntries, open, pending, requests, view>>

-----------------------------------------------------------------------------
(* Requests for the list: dis_insert_request, execute_service.             *)

Request(c, first) == [client |-> c, first |-> first]

(* MONITORED                                                               *)
Subscribe(c) ==
  /\ ~Asks(c)
  /\ requests' = Append(requests, Request(c, FALSE))
  /\ Become(WholeList(Known, {c}, NClients + 1, ~pending))
  /\ UNCHANGED <<table, newEntries, open, fresh>>

(* MONIT_ONLY: the whole list comes with the first update.                 *)
SubscribeLater(c) ==
  /\ ~Asks(c)
  /\ requests' = Append(requests, Request(c, TRUE))
  /\ UNCHANGED <<table, registered, newEntries, open, pending, view, missed, fresh>>

(* ONCE_ONLY: not in the list of requests when the clients are counted.    *)
AskOnce ==
  /\ LET n == NClients IN Become(WholeList(Known, {}, n, ~pending \/ n = 1))
  /\ UNCHANGED <<table, newEntries, open, requests, fresh>>

(* The client has gone, or a write to it has failed.                       *)
Leave(c) ==
  /\ \E i \in DOMAIN requests :
       requests[i].client = c /\ requests' = RemoveAt(requests, i)
  /\ view' = [view EXCEPT ![c] = {}] /\ missed' = [missed EXCEPT ![c] = {}]
  /\ UNCHANGED <<table, registered, newEntries, open, pending, fresh>>

-----------------------------------------------------------------------------
Next ==
  \/ \E s \in Services : AddService(s) \/ RemoveService(s) \/ RemoveQuietly(s)
  \/ StartServing \/ RegisterAll \/ LoseNameServer \/ UpdateList
  \/ \E c \in Clients : Subscribe(c) \/ SubscribeLater(c) \/ Leave(c)
  \/ AskOnce

Spec == Init /\ [][Next]_vars

-----------------------------------------------------------------------------
(* Properties.                                                             *)

(* Types; only clients with a request have been told anything.             *)
TypeOK ==
  /\ table \subseteq Services /\ fresh \subseteq table
  /\ registered \in [Services -> 0..(Cardinality(Clients) + 1)]
  /\ newEntries \in [Buckets -> 0..MaxNew]
  /\ open \in BOOLEAN /\ pending \in BOOLEAN
  /\ \A i \in DOMAIN requests : requests[i].client \in Clients /\ requests[i].first \in BOOLEAN
  /\ view \in [Clients -> SUBSET Services] /\ missed \in [Clients -> SUBSET Services]
  /\ \A c \in Clients : ~Asks(c) => view[c] = {} /\ missed[c] = {}

(* No client believes in a service that is gone; and once the update after *)
(* dis_start_serving has been sent, each knows every service announced by  *)
(* it.  Exceptions are what happens while the name server is away and what *)
(* a whole list sent at the wrong time has marked as known (WholeList).    *)
ListsAgree ==
  \A i \in DOMAIN requests :
    LET c == requests[i].client IN
      ~requests[i].first =>
        /\ view[c] \subseteq table \cup missed[c]
        /\ ~pending => table \ fresh \subseteq view[c] \cup missed[c]

(* dis_start_serving, which skips buckets without new entries, finds every *)
(* service that is to be registered, though the counts of new entries are  *)
(* also taken down for services that are registered once more.             *)
NewEntriesCounted ==
  \A b \in Buckets : Cardinality(In(b, Unregistered)) <= newEntries[b]
=============================================================================
