--------------------------- MODULE DnsRegistration ---------------------------
(***************************************************************************)
(* The DIM server (dis.c) and the name server: services are added, made    *)
(* known to the name server by dis_start_serving, removed again, and all   *)
(* of them go when the last one of the application does or when it calls   *)
(* dis_stop_serving.  The name server comes, goes, forgets and refuses.    *)
(*                                                                         *)
(* There is one name server, as everything in this repository uses the     *)
(* default one.  The application makes its calls from one thread; another  *)
(* updates services, and when a removal was put off because of that the    *)
(* end of the update removes the service, with DIM's lock held             *)
(* throughout.  What the DIM threads do is atomic, for they have the lock. *)
(* dna_write never fails: it queues what is written for later.  The        *)
(* standard services are added at once and counted.                        *)
(***************************************************************************)
EXTENDS Integers, Sequences, FiniteSets

CONSTANTS
  StdServices,   (* number of standard services; five in the code          *)
  MaxIDs,        (* bounds the services added                              *)
  MaxBreaks,     (* bounds the failures of the name server                 *)
  MaxUpdates     (* bounds the updates going on at a time                  *)

ASSUME DnsRegistrationAssumption ==
  /\ StdServices \in Nat \ {0} /\ MaxIDs \in Nat
  /\ MaxBreaks \in Nat /\ MaxUpdates \in Nat

VARIABLES
  table,         (* the services in the hash table, here of one bucket;    *)
                 (* they are numbered as they are added, at its end, so    *)
                 (* that the order of the numbers is that of the bucket    *)
  registered, updating, doomed,  (* those with registered, delay_delete    *)
                                 (* and to_delete                          *)
  newEntries,    (* Service_new_entries                                    *)
  nServices,     (* dis_n_services                                         *)
  serving,       (* of the name server's entry                             *)
  Serving,       (* 1, 0, or -1 once the name server has refused           *)
  firstTime,     (* Dis_first_time: the port is to be opened               *)
  dnsFirstTime,  (* dis_first_time: the standard services are to be added  *)
  port,          (* Dis_conn_id: clients can connect                       *)
  conn,          (* dns_dis_conn_id: none (0), pending (-1), or that of a  *)
                 (* connection that is up, broken, or was closed (stale)   *)
  trying,        (* open_dns has been called and will signal a connection  *)
  watchdog,      (* dns_timr_ent: none, set, or freed with its queue       *)
  outbox,        (* packets for the name server that dna_write has queued  *)
  known,         (* the services that the name server knows                *)
  asks,          (* it has lost them and asks for registration             *)
  proc,          (* where the application and the update are in stopping   *)
  ids, breaks,   (* number of services added, and of failures              *)
  wanted,        (* what the application has added and not taken back      *)
  announced,     (* what there was when it last called dis_start_serving   *)
  lapsed         (* a call has left it serving without its standard        *)
                 (* services, by the number of which it knows that others  *)
                 (* are left                                               *)

tableVars == <<table, registered, updating, doomed, newEntries, nServices>>
serveVars == <<serving, Serving, firstTime, dnsFirstTime, port>>
dnsVars   == <<known, asks, breaks>>
appVars   == <<ids, wanted, announced, lapsed>>
linkVars  == <<conn, trying, watchdog>>
vars == <<tableVars, serveVars, linkVars, outbox, dnsVars, proc, appVars>>

Threads == {"app", "update"}
Idle    == [pc |-> "idle", servp |-> 0]

Init ==
  /\ table = {} /\ registered = {} /\ updating = {} /\ doomed = {}
  /\ newEntries = 0 /\ nServices = 0
  /\ serving = FALSE /\ Serving = 0
  /\ firstTime = TRUE /\ dnsFirstTime = TRUE /\ port = FALSE
  /\ conn = "none" /\ trying = FALSE /\ watchdog = "none"
  /\ outbox = << >> /\ known = {} /\ asks = FALSE /\ breaks = 0
  /\ proc = [t \in Threads |-> Idle]
  /\ ids = 0 /\ wanted = {} /\ announced = {} /\ lapsed = FALSE

(* An update that stops serving does so with the lock held.                *)
LockFree(t) == t = "update" \/ proc["update"] = Idle
AppCalls    == proc["app"] = Idle /\ LockFree("app")

First(s)      == CHOOSE x \in s : \A y \in s : x <= y
Open          == conn \notin {"none", "pending"}    \* dns_dis_conn_id > 0
Goto(t, pc)   == proc' = [proc EXCEPT ![t] = [pc |-> pc, servp |-> 0]]
Pick(t, pc)   == proc' = [proc EXCEPT ![t] = [pc |-> pc, servp |-> First(table)]]
Packet(op, s) == IF Open' /\ s # {} THEN Append(outbox, [op |-> op, ids |-> s])
                                   ELSE outbox
Minus(a, b)   == IF a > b THEN a - b ELSE 0

-----------------------------------------------------------------------------
(* register_services                                                       *)

(* All services, whether registered or not.                                *)
RegisterAll ==
  /\ registered' = table
  /\ newEntries' = Minus(newEntries, Cardinality(table))
  /\ outbox' = Packet("add", table)

(* The new ones in tbl, found as long as the count of new entries says     *)
(* that there are any.                                                     *)
RegisterMore(tbl, new) ==
  LET missing == tbl \ registered
      s == {x \in missing : Cardinality({y \in missing : y < x}) < new}
  IN  /\ registered' = registered \cup s
      /\ newEntries' = Minus(new, Cardinality(s))
      /\ outbox' = Packet("add", s)

-----------------------------------------------------------------------------
(* The calls of the application                                            *)

(* Wrong: does not count the new entry.                                    *)
AddUncounted ==
  /\ AppCalls /\ Serving # -1 /\ ids < MaxIDs
  /\ ids' = ids + 1
  /\ table' = table \cup {ids'}
  /\ nServices' = nServices + 1
  /\ wanted' = wanted \cup {ids'}
  /\ UNCHANGED <<registered, updating, doomed, newEntries, serveVars, linkVars,
                 outbox, dnsVars, proc, announced, lapsed>>

AddService ==
  /\ AppCalls /\ Serving # -1 /\ ids < MaxIDs
  /\ ids' = ids + 1
  /\ table' = table \cup {ids'}
  /\ newEntries' = newEntries + 1
  /\ nServices' = nServices + 1
  /\ wanted' = wanted \cup {ids'}
  /\ UNCHANGED <<registered, updating, doomed, serveVars, linkVars, outbox,
                 dnsVars, proc, announced, lapsed>>

(* do_dis_add_cmnd_dns declares a command in the same way: it is a service *)
(* with a routine and no data.                                             *)
AddCommand == AddService

(* The port cannot be opened.                                              *)
StartFails ==
  /\ AppCalls /\ Serving # -1
  /\ firstTime
  /\ serving' = TRUE /\ Serving' = 1
  /\ lapsed' = TRUE
  /\ UNCHANGED <<tableVars, firstTime, dnsFirstTime, port, linkVars, outbox,
                 dnsVars, proc, ids, wanted, announced>>

StartServing ==
  LET new == IF dnsFirstTime THEN StdServices ELSE 0
  IN  /\ AppCalls /\ Serving # -1 /\ ids + new <= MaxIDs
      /\ serving' = TRUE /\ Serving' = 1
      /\ firstTime' = FALSE /\ port' = (port \/ firstTime)
      /\ dnsFirstTime' = FALSE
      /\ ids' = ids + new
      /\ table' = table \cup (ids + 1)..(ids + new)
      /\ nServices' = nServices + new
      /\ IF conn = "none"
         THEN /\ conn' = "pending" /\ trying' = TRUE
              /\ newEntries' = newEntries + new
              /\ UNCHANGED <<registered, outbox>>
         ELSE /\ UNCHANGED <<conn, trying>>
              /\ RegisterMore(table', newEntries + new)
      /\ announced' = table'
      /\ UNCHANGED <<updating, doomed, watchdog, dnsVars, proc, wanted, lapsed>>

(* Wrong: the last service is one too early.                               *)
TooFew(n) == n = StdServices + 1

IsLast(n) == n = StdServices

(* dis_remove_service, called by thread t, which goes on at pc.  When only *)
(* the standard services are left t closes the port and stops serving.     *)
Withdraw(t, s, pc) ==
  LET last == serving /\ IsLast(nServices - 1)
  IN  IF s \notin table \/ s \in updating'
      THEN /\ doomed' = (doomed \cup {s}) \cap updating'
           /\ Goto(t, pc)
           /\ UNCHANGED <<table, registered, nServices, port, outbox, announced>>
      ELSE /\ doomed' = doomed \ {s}
           /\ outbox' = Packet("remove", {s})
           /\ table' = table \ {s}
           /\ registered' = registered \ {s}
           /\ announced' = announced \ {s}
           /\ nServices' = nServices - 1
           /\ port' = (port /\ ~last)
           /\ Goto(t, IF last THEN "stop" ELSE pc)

removeUnchanged ==
  <<newEntries, serving, Serving, firstTime, dnsFirstTime, linkVars, dnsVars, ids, lapsed>>

RemoveService(s) ==
  /\ AppCalls /\ s \in wanted
  /\ wanted' = wanted \ {s}
  /\ UNCHANGED <<updating, removeUnchanged>>
  /\ Withdraw("app", s, "idle")

StopServing ==
  /\ AppCalls
  /\ wanted' = {}
  /\ lapsed' = (lapsed \/ (serving /\ nServices <= StdServices))
  /\ Goto("app", "all")
  /\ UNCHANGED <<tableVars, serveVars, linkVars, outbox, dnsVars, ids, announced>>

-----------------------------------------------------------------------------
(* do_dis_stop_serving_dns and dis_stop_serving, a step for each time they *)
(* take the lock and for what they do without it.  stop .. dns are the     *)
(* former, which goes on to the latter if it has stopped the last, all ..  *)
(* end.  Within the latter the last removal leads to the former, and from  *)
(* there to another round of the latter; on return from these nothing is   *)
(* left to be done.                                                        *)

Stop(t) ==
  /\ proc[t].pc = "stop"
  /\ serving' = FALSE
  /\ Goto(t, "close")
  /\ UNCHANGED <<tableVars, Serving, firstTime, dnsFirstTime, port, linkVars,
                 outbox, dnsVars, appVars>>

StopClose(t) ==
  /\ LockFree(t) /\ proc[t].pc = "close"
  /\ watchdog' = "none"
  /\ conn' = "none"
  /\ known' = {} /\ asks' = FALSE
  /\ Goto(t, "pick")
  /\ UNCHANGED <<tableVars, serveVars, trying, outbox, breaks, appVars>>

(* The next service; by the time it is removed somebody else may have done *)
(* so, or an update put it off, in which case it is tried again.           *)
StopPick(t, pick, remove, done) ==
  /\ LockFree(t) /\ proc[t].pc = pick
  /\ IF table = {} THEN Goto(t, done) ELSE Pick(t, remove)
  /\ UNCHANGED <<tableVars, serveVars, linkVars, outbox, dnsVars, appVars>>

StopRemove(t, pick, remove) ==
  /\ LockFree(t) /\ proc[t].pc = remove
  /\ UNCHANGED <<updating, removeUnchanged, wanted>>
  /\ Withdraw(t, proc[t].servp, pick)

StopClean(t) ==
  /\ proc[t].pc = "clean"
  /\ dnsFirstTime' = TRUE
  /\ nServices' = 0
  /\ trying' = FALSE
  /\ Goto(t, "dns")
  /\ UNCHANGED <<table, registered, updating, doomed, newEntries, serving,
                 Serving, firstTime, port, conn, watchdog, outbox, dnsVars,
                 appVars>>

(* dis_no_dns                                                              *)
StopDns(t) ==
  /\ proc[t].pc = "dns"
  /\ Goto(t, IF serving THEN "idle" ELSE "all")
  /\ UNCHANGED <<tableVars, serveVars, linkVars, outbox, dnsVars, appVars>>

StopAll(t) ==
  /\ proc[t].pc = "all"
  /\ Serving' = 0
  /\ port' = FALSE
  /\ Goto(t, "allPick")
  /\ UNCHANGED <<tableVars, serving, firstTime, dnsFirstTime, linkVars, outbox,
                 dnsVars, appVars>>

(* Wrong: does not see to it that the port is opened again.                *)
StopEndClosed(t) ==
  /\ proc[t].pc = "end"
  /\ watchdog' = IF watchdog = "set" THEN "freed" ELSE watchdog
  /\ Goto(t, "idle")
  /\ UNCHANGED <<tableVars, serveVars, conn, trying, outbox, dnsVars, appVars>>

(* The queue of the watchdog is deleted.                                   *)
StopEnd(t) ==
  /\ proc[t].pc = "end"
  /\ firstTime' = TRUE
  /\ watchdog' = IF watchdog = "set" THEN "freed" ELSE watchdog
  /\ Goto(t, "idle")
  /\ UNCHANGED <<tableVars, serving, Serving, dnsFirstTime, port, conn, trying,
                 outbox, dnsVars, appVars>>

StopStep(t) ==
  \/ Stop(t) \/ StopClose(t) \/ StopClean(t) \/ StopDns(t) \/ StopAll(t)
  \/ StopPick(t, "pick", "remove", "clean")
  \/ StopRemove(t, "pick", "remove")
  \/ StopPick(t, "allPick", "allRemove", "end")
  \/ StopRemove(t, "allPick", "allRemove")
  \/ StopEnd(t)

-----------------------------------------------------------------------------
(* do_update_service, as far as the removal of the service depends on it;  *)
(* a service is updated by one thread.                                     *)

UpdateBegin(s) ==
  /\ LockFree("app") /\ Serving # -1
  /\ s \in table \ updating /\ Cardinality(updating) < MaxUpdates
  /\ updating' = updating \cup {s}
  /\ UNCHANGED <<table, registered, doomed, newEntries, nServices, serveVars,
                 linkVars, outbox, dnsVars, proc, appVars>>

(* Wrong: leaves a service whose removal was put off to be removed later.  *)
UpdateEndForgets(s) ==
  /\ LockFree("app")
  /\ s \in updating
  /\ updating' = updating \ {s}
  /\ UNCHANGED <<table, registered, doomed, nServices, port, outbox, proc,
                 announced, removeUnchanged, wanted>>

UpdateEnd(s) ==
  /\ LockFree("app")
  /\ s \in updating
  /\ updating' = updating \ {s}
  /\ UNCHANGED <<removeUnchanged, wanted>>
  /\ IF s \in doomed
     THEN Withdraw("update", s, "idle")
     ELSE UNCHANGED <<table, registered, doomed, nServices, port, outbox, proc,
                      announced>>

-----------------------------------------------------------------------------
(* recv_dns_dis_rout                                                       *)

(* A connection takes seconds to come about, in which what was queued for  *)
(* an earlier one has been dealt with.                                     *)
Connect ==
  /\ LockFree("app") /\ trying /\ outbox = << >>
  /\ trying' = FALSE
  /\ IF serving
     THEN conn' = "up" /\ watchdog' = "set" /\ RegisterAll
     ELSE UNCHANGED <<conn, watchdog, registered, newEntries, outbox>>
  /\ UNCHANGED <<table, updating, doomed, nServices, serveVars, dnsVars, proc,
                 appVars>>

(* Wrong: an old connection does not count when one is to be opened.       *)
DisconnectStale ==
  /\ LockFree("app") /\ conn = "broken"
  /\ watchdog' = "none"
  /\ conn' = "stale"
  /\ UNCHANGED <<tableVars, serveVars, trying, outbox, dnsVars, proc, appVars>>

Disconnect ==
  /\ LockFree("app") /\ conn = "broken"
  /\ watchdog' = "none"
  /\ IF serving /\ Serving # -1 THEN conn' = "pending" /\ trying' = TRUE
                                ELSE conn' = "stale" /\ UNCHANGED trying
  /\ UNCHANGED <<tableVars, serveVars, outbox, dnsVars, proc, appVars>>

Ask ==
  /\ LockFree("app") /\ asks
  /\ asks' = FALSE
  /\ UNCHANGED linkVars
  /\ RegisterAll
  /\ UNCHANGED <<table, updating, doomed, nServices, serveVars, known, breaks,
                 proc, appVars>>

(* The name server refuses the services, of which another server has one   *)
(* already, and closes the connection.                                     *)
Kill ==
  /\ LockFree("app") /\ conn = "up" /\ breaks < MaxBreaks
  /\ Serving' = -1
  /\ conn' = "broken" /\ known' = {} /\ asks' = FALSE
  /\ breaks' = breaks + 1
  /\ UNCHANGED <<tableVars, serving, firstTime, dnsFirstTime, port, trying,
                 watchdog, outbox, proc, appVars>>

-----------------------------------------------------------------------------
(* The name server, and the packets on their way to it.                    *)

Break ==
  /\ conn = "up" /\ breaks < MaxBreaks
  /\ conn' = "broken" /\ known' = {} /\ asks' = FALSE
  /\ breaks' = breaks + 1
  /\ UNCHANGED <<tableVars, serveVars, trying, watchdog, outbox, proc, appVars>>

(* It has not heard from the server in time.                               *)
Forget ==
  /\ conn = "up" /\ ~asks /\ breaks < MaxBreaks
  /\ known' = {} /\ asks' = TRUE
  /\ breaks' = breaks + 1
  /\ UNCHANGED <<tableVars, serveVars, linkVars, outbox, proc, appVars>>

(* do_dna_write; a failure is not reported.                                *)
Deliver ==
  /\ LockFree("app") /\ outbox # << >>
  /\ outbox' = Tail(outbox)
  /\ known' = IF conn # "up" THEN known
              ELSE IF Head(outbox).op = "add" THEN known \cup Head(outbox).ids
              ELSE known \ Head(outbox).ids
  /\ UNCHANGED <<tableVars, serveVars, linkVars, asks, breaks, proc, appVars>>

Next ==
  \/ AddService \/ AddCommand \/ StartFails \/ StartServing \/ StopServing
  \/ \E s \in wanted : RemoveService(s)
  \/ \E t \in Threads : StopStep(t)
  \/ \E s \in table : UpdateBegin(s)
  \/ \E s \in updating : UpdateEnd(s)
  \/ Connect \/ Disconnect \/ Ask \/ Kill
  \/ Break \/ Forget \/ Deliver

Spec == Init /\ [][Next]_vars

(* Calls return, updates end, the name server is there when it has not     *)
(* just failed, and DIM's threads deal with what it sends.                 *)
FairSpec ==
  /\ Spec
  /\ \A t \in Threads : WF_vars(StopStep(t))
  /\ \A s \in 1..MaxIDs : WF_vars(UpdateEnd(s))
  /\ WF_vars(Connect) /\ WF_vars(Disconnect) /\ WF_vars(Ask) /\ WF_vars(Deliver)

-----------------------------------------------------------------------------
(* Properties.                                                             *)

IDs       == 1..MaxIDs
Packets   == [op : {"add", "remove"}, ids : SUBSET IDs]
PCs       == {"idle", "stop", "close", "pick", "remove", "clean", "dns", "all",
              "allPick", "allRemove", "end"}
Positions == [pc : PCs, servp : IDs \cup {0}]

ServicesOK ==
  /\ table \subseteq IDs /\ nServices \in 0..MaxIDs /\ newEntries \in 0..MaxIDs
  /\ registered \subseteq table /\ updating \subseteq table
  /\ doomed \subseteq updating /\ announced \subseteq table
  /\ wanted \subseteq IDs /\ known \subseteq IDs
  /\ ids \in 0..MaxIDs /\ breaks \in 0..MaxBreaks

FlagsOK ==
  /\ serving \in BOOLEAN /\ firstTime \in BOOLEAN /\ dnsFirstTime \in BOOLEAN
  /\ port \in BOOLEAN /\ trying \in BOOLEAN /\ asks \in BOOLEAN /\ lapsed \in BOOLEAN

TypeOK ==
  /\ ServicesOK /\ FlagsOK
  /\ Serving \in {-1, 0, 1}
  /\ conn \in {"none", "pending", "up", "broken", "stale"}
  /\ watchdog \in {"none", "set", "freed"}
  /\ outbox \in Seq(Packets)
  /\ proc \in [Threads -> Positions]

(* When nothing is on its way the name server knows every service that was *)
(* there when the application last said so, and none that is gone.         *)
NameServerKnows ==
  conn = "up" /\ ~asks /\ outbox = << >> =>
    announced \subseteq known /\ known \subseteq table

(* A server that has started, and is not about to stop, accepts clients;   *)
(* it sends the name server signs of life as long as they are connected,   *)
(* unless serving was stopped with no services but the standard ones.      *)
Reachable ==
  /\ serving /\ ~firstTime /\ (\A t \in Threads : proc[t] = Idle) => port
  /\ conn = "up" => watchdog = "set" \/ lapsed

(* "disRemoveService: removes a service fromt the list of provided         *)
(* services": a service stays until the application removes it or stops    *)
(* serving, whatever becomes of others, unless a start has failed or       *)
(* serving was stopped with no services but the standard ones.             *)
ServicesKept == wanted \subseteq table \/ lapsed

(* What the application has asked to be known gets known, unless the name  *)
(* server refuses or serving was stopped as above.                         *)
ServicesAnnounced == []<>(announced \subseteq known \/ Serving = -1 \/ lapsed)

(* Stopping ends, although an update puts off removals.                    *)
StopsReturn == []<>(proc["app"] = Idle) /\ []<>(proc["update"] = Idle)
=============================================================================
