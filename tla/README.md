# DimLVEvent in TLA+

DimLVEvent connects LabVIEW to DIM, CERN's publish/subscribe middleware. A C
library, the *wrapper* (`DimWrapper.c`), registers callbacks with DIM, hands what
arrives over to a polling LabVIEW thread, and offers the application's own data as
DIM services. It is built with a patched DIM server (`dis.c`), transport (`dna.c`)
and thread layer (`dim_thr.c`). A separate program, NodeMon, publishes counters of
the operating system.

This directory holds the specifications of the parts whose correctness rests on the
order in which threads, callbacks and clients act: TLA+ modules translated from the
C code, TLC runs on small instances, and theorems checked by TLAPS. `PROJECT.json`
lists the components, the runs, the lines each definition stands for, the hazards of
the code and the properties that watch them.

    tlc -workers 2 -config DoubleBuffer.cfg DoubleBuffer
    tlapm EventDispatchProofs.tla

Paths below: `DimWrapper.c` is in `src/Sourcen-DimLVInterface/DimWrapper/`, `dis.c`,
`dna.c` and `dim_thr.c` are in `src/Sourcen-DimLVInterface/DIMPatches/`.

## 1. The system

| component | state | operations | correct when |
|---|---|---|---|
| double buffer (`DimWrapper.c` 549-601, 640-735) | two buffers with `newDataFlag`, `tempBuffSize`; `nextBuffCB`, `nextBuffWait` | body of `receivedCB`; `dimWaitForData` | data are delivered once, whole and in order; neither side blocks the other for ever |
| callback registry and dispatch (405-548, 602-618, 686, 740-880) | `callBacks`, `lastCallBackRegistered`, `executingCallback`, `ignoreCallbackID`, the node list | `dicInfoService`, `disAddCommand`, `removeMyService`, entry of `receivedCB`, security | DIM never calls for an ID that is free; data go to the registration they came for; removal waits for the callback and returns |
| service registry (880-1010) | `services`, `lastServiceCreated`, heap, `serverActive`, `errorCode` | `disAddService`, `disUpdateService`, `disRemoveService`, `disStopServing`, `deinitMyLib`, `exit_user_routine` | the array, DIM's services and the buffers stay in step; nothing leaks, nothing freed is read |
| DIM server, requests and updates (`dis.c` 1272-1600, 1724-1870, 2104-2200, 2560-2740) | services, requests, lists per service and per client, `delay_delete`, `to_delete` | `dis_insert_request`, `execute_service`, `do_update_service`, `dis_report_service`, `dis_send_service`, `dis_remove_service`, `release_conn` | an update that gives up the lock never touches what was freed; what is put off is done; every client is served |
| DIM server, registration with the name server (`dis.c` 641-1248, 2227-2338) | registration state of each service, connection to the name server | `register_services`, `recv_dns_dis_rout`, `unregister_service`, start and stop of serving | after any reconnection the name server knows exactly the services there are |
| DIM server, standard services (`dis.c` 2439-2600, 2837-3363) | `registered` of each service, counts of new entries of the hash table, list of clients, exit handlers | `service_info`, `client_info`, `add_exit_handler`, `do_update_service_list` | everybody who subscribed to a list knows what is in it; the exit routine announces the end of those who asked for it, when they have gone |
| DIM threads and lock (`dim_thr.c`) | mutex, `Dim_thr_locker`, `Dim_thr_counter`; condition counters; threads and their semaphore | `dim_lock`, `dim_unlock`, `dim_wait_cond`, `dim_signal_cond`, `dim_init`, `dim_stop`, `dim_wait` | the lock is exclusive and recursive, signals are not lost, there are two threads or none |
| DIM transport (`dna.c`) | state of each connection, partial packets, write queue, pending connections | opening, accepting, closing; `ast_read_h`, `dna_start_read`, `do_dna_write`, `dna_write`, `dna_write_nowait`, `dna_test_write` | packets come out whole, in order and once; a connection number is not confused with its next user |
| NodeMon | services per process, processor, ... | `resizeServices`, `CalcResult` | the services follow the resources that come and go |
| libNodeInfo, LabVIEW VIs, test programs, older copies | - | - | not modelled, see section 7 |

How they interact:

- DIM runs two threads, one for the network and one for timers. Every callback, so
  `receivedCB` too, runs in one of them **with DIM's global lock held** (`dim_lock`).
  Everything the wrapper calls in DIM takes the same lock.
- `receivedCB` and `dimWaitForData` share the double buffer **without any lock**; the
  flag of each buffer says whose turn it is.
- `removeMyService` and `receivedCB` keep clear of each other with two flags and a
  sleep, then by DIM's lock.
- A thread of the application may sleep in `dim_wait` until one of DIM's threads has
  done something.
- The list of services and the list of clients are services themselves: adding or
  removing a service, and a client that comes or goes, updates them in the middle of
  what DIM is doing.
- DIM's thread for the network reads packets in parts as they come; what is written may
  be put into the timer queue and goes out in pieces. Several connections may be open to
  one partner, and numbers of connections are used again.
- `disUpdateService` writes into the service's buffer without the lock, then asks DIM to
  send it. DIM gives the lock up after every client of an update.
- LabVIEW serialises registration and removal with a semaphore; one thread calls
  `dimWaitForData` (`DimWrapper.c`:20).

The hard behaviours: unlocked hand-over between two threads; an ID that is freed and
given out again while data for it are under way; waiting with a time limit under a
global lock; lists that change while an update walks them; removal that is put off;
failure of one client in the middle of an update to many; changes told to many by means
of one counter per service; packets cut at any place, with a time limit in the middle.

## 2. The modules

| module | models | composes |
|---|---|---|
| `DataChannel` | abstract: a first-in first-out channel of two places | |
| `DoubleBuffer` | `receivedCB` from the choice of the buffer, `dimWaitForData` | implements `DataChannel` |
| `EventDispatch` | registration, removal, entry of `receivedCB`, security, the reference `dimWaitForData` looks up | extends `DoubleBuffer` |
| `EventDispatchProofs` | theorems, of the double buffer too | |
| `ServiceRegistry` | `disAddService`, `disUpdateService`, `disRemoveService`, `disStopServing`, `deinitMyLib`, exit command | with what `dis.c` does of them |
| `ServiceRegistryProofs` | theorems | |
| `ServerRequests`, `MCServerRequests` | requests, updates, reports and deferred removal in `dis.c`; symmetry for TLC | |
| `ServerRequestsProofs` | theorems | |
| `DnsRegistration` | adding, removing and updating services, start and stop of serving, registration with a name server in `dis.c`; the queue of `dna_write` | |
| `DnsRegistrationProofs` | theorems | |
| `ServiceList`, `MCServiceList` | the list of services as a service (`service_info`) and the counts of new services | |
| `ServiceListProofs` | theorems | |
| `ClientWatch`, `MCClientWatch` | the list of clients as a service (`client_info`) and the wishes for the exit routine | |
| `ClientWatchProofs` | theorems | |
| `RecursiveLock` | abstract: a lock its holder may take again | |
| `DimLock` | `dim_lock`, `dim_unlock` | implements `RecursiveLock` |
| `DimThreads` | `dim_init`, `dim_stop`, `dim_wait`, DIM's two threads | with the lock as `DimLock` shows it to be |
| `DimThreadsProofs` | theorems about both | extends `DimThreads` and `DimLock` |
| `PacketChannel` | abstract: packets in order and whole, in each direction of each connection | |
| `Dna` | opening, accepting, writing, reading and closing in `dna.c` | implements `PacketChannel` |
| `DnaProofs` | theorems | |

Definitions marked "Wrong" or "wrong" in the modules are variants of the definition
beside them with a plausible mistake. They are not part of any specification: they
are there to see that each property notices the mistake (`PROJECT.json`, "mutants").

### DoubleBuffer

Every access to a shared variable is an action, and `memcpy` is two, the low and the
high half, so that torn data are a state TLC can reach. `CBArrive` ... `CBLeave` are
the lines of `receivedCB` in order, `cbPc` says which is next; `WaitBegin` ...
those of `dimWaitForData`. The wait of at most two seconds in `receivedCB` is the
choice between the buffer being free and giving up. Likewise the polling of
`dimWaitForData`, 50 ms at a time up to its time limit. Data are records with the
number of the call that brought them, their ID and their size.

### EventDispatch

Extends the double buffer by what is around it. `entryPc` follows `receivedCB` from
DIM's call through its checks (`checkID`, `checkIgnore`, `announce`, `security`) into
the body and out; a call that brings no data ends at once (`NoDataReceived`). `appPc`
follows the application through `Register`, `Subscribe`, `StoreServiceId` and
`removeMyService`: DIM knows of the registration from `Subscribe` on, and callbacks may
come before its service ID is stored in the element. `LockFree` is DIM's lock: not free
while a callback runs, so DIM's own part of registration and removal waits for it. The
unlocked tests of `ignoreCallbackID` and `executingCallback` are steps of their own.
References and DIM's service IDs are numbered with the registrations, so that "the same
ID, another registration" can be told. `refOf` is a history variable: which registration
each delivery came for. `ServiceInfo` is `dimGetServiceInfo`, which reads an element
without the lock, and may find no service ID yet.

### ServiceRegistry

The calls of `disAddService` and `disRemoveService` are split where another thread can
see a difference (element marked, declared in DIM; element released, removed from DIM,
buffer freed); `disUpdateService` at its two looks into the array and the sending by
DIM. `StopServing` is `disStopServing`, whose part in DIM gives the lock up after each
service it removes (`swept`); `closing` is the variable of the loop of `deinitMyLib`,
which calls `disRemoveService` with what it finds in the elements and then stops
serving. `NameServerExit` is `error_user_routine` and `exit_user_routine`. `delayed` and
`doomed` are DIM's `delay_delete` and `to_delete`. Blocks of memory are numbered, so
that a block freed and allocated again is a different one.

### ServerRequests

Every action is what one thread does between taking and giving up DIM's lock, so the
interleavings are exactly those the code allows: `do_update_service` marks the
requests, sends to one (`UpdateSend`) per turn of the lock, clears the marks, reaps
what is to go, finishes. All list operations are set operations: the list of a service
are the requests that name it, the list of a client those that came over its
connection. Every write to a client may fail (`Execute`), with what the code then
does. Clients connect, subscribe, ask for timed updates, send commands, unsubscribe,
vanish; the timer of a request fires; services are added and removed.
`AskOnce` is a question that leaves no request behind, an update may be for selected
clients, and `ClientServices` is `dis_get_client_services`. `ReportService` and
`SendService` are `dis_report_service` and `dis_send_service`. They write to everybody in
the list of the service, the requests kept for commands included, whoever has the number
of the connection now; `Writable` are those whose number has a connection, as a write to
one that has none succeeds (`dna.c`:423). Both have loops with the lock held that may not
end; `loop` says in which of them a thread is, and nobody else goes on meanwhile
(`GoRound`). `SendEnds` is a client that can be written to again after all.

### DnsRegistration

`table` is the hash table: services are numbered as they are added, which is their order
in a bucket, so that a set of numbers is a list. `registered`, `updating` and `doomed`
are the flags `registered`, `delay_delete` and `to_delete` of the services in it. A call
of the application that takes the lock once is an action (`AddService`, `AddCommand`,
`StartServing`, `RemoveService`). Stopping takes it again and again: `proc` follows
`do_dis_stop_serving_dns` (`stop` ... `dns`) and `dis_stop_serving` (`all` ... `end`)
through their loops. `Withdraw` is `dis_remove_service`; it puts the removal off if the
service is being updated, and leads to `stop` if only the standard services are left.
The end of an update that finds its service marked does the same with the lock held
(`LockFree`). `Connect`, `Disconnect`, `Ask` and `Kill` are the cases of
`recv_dns_dis_rout`. `dna_write` queues: `outbox` is what it has queued, `Deliver` its
timer. The name server is `known` and `asks`: it comes, breaks, forgets and refuses
(`Break`, `Forget`, `Kill`). `wanted` and `announced` record what the application has
asked for; `lapsed` records that it has made one of the two calls after which the count
of services is of no use (section 4).

### DimLock

One action per access to `Dim_thr_locker`, the mutex and `Dim_thr_counter`. The read
of `Dim_thr_locker` in `dim_lock` is made without the mutex, as in the code. `depth`
is a history variable: the calls a thread has made and not undone.

### DimThreads

`thread` is what each of DIM's threads is at, `pc` where a caller is in `dim_init` or
`dim_stop`: starting a thread, waiting for its report with the semaphore, starting the
next; cancelling and joining. A thread that is cancelled ends where POSIX has a
cancellation point, which the mutex is not, and keeps what it holds; `holder` is then
"gone". `wait`, `counter` and `waiters` are `dim_wait_cond` and `dim_signal_cond` with
their two counters, and `WakeUnasked` is the spurious wake-up that `pthread_cond_wait`
may have. `fresh` is a history variable: nobody has returned from `dim_wait` since the
last signal.

### ServiceList

The server does not note which client knows which service. `registered` of a service
counts: 1 says that the name server was told, and each client that is told adds one, so
that what is left to tell is found by comparing it with the number of clients.
`WholeList` is what a new subscriber gets, `Changes` what the others get when the list
is updated, which `Updated` does in the order of the requests. `newEntries` are the
counts per bucket by which `dis_hash_service_get_next` skips buckets. The history
variables are what each client has been told (`view`) and where the code knowingly
leaves it wrong (`missed`, set where that happens), and which services have not been
started (`fresh`).

### ClientWatch

`clients` is `Client_head`, `req` what each client has requests for, by service "list"
(`CLIENT_LIST`) or "other". Someone who comes or goes is told to the watchers within the
same call; a watcher that cannot be written to is marked, and released when the update
ends, which again updates the list. So `doomed` are the watchers that are marked, and
while there are any the lock is not free and `Reap` goes on. Updates of other services
give up the lock: `inUse` are the clients of which one of them has a request in use
(`Use`, `EndUse`). Their release is put off (`putOff`) and follows when that update ends
(`due`, `Finish`); a watcher among them stays for now, and is not told of those who come
and go meanwhile. `exits` are the exit handlers, kept by the number of the connection,
and `RunExit` is the application's routine, which may update services itself, so that
further clients fail. `view` and `missed` are history variables as in `ServiceList`;
`announced` is what the routine has told the application of each partner.

### Dna

One process, "here", and its partners, all "there", run the same code at the two ends of
each connection. `conn` gives the connection that has a number here. `net` is the stream
of TCP in each direction: a sequence of units, each of which knows its packet and its
place in it, so that a reader that is out of step takes one packet for another. A header
and a body are a few units; writes put at most `MaxWrite` of them into the stream and
reads take at most `MaxRead`. `rd` is the reader of a connection (`state`, what it waits
for, what it has got), `wr` a write under way, `queue` what `dna_write` left to the
timer. A write that is not to wait may run out of time (`WriteTimesOut`): part of a
packet has been written. `dna_open_client` then closes the connection; other callers do
so sooner or later, as `dis.c` may put it off (1538, 2531), and meanwhile anybody may
write to it (`dna_write_nowait` does not look at `write_timedout`). Such a direction is
"cut" (`course`). What is written after the cut is kept apart in `late`, so that the
reader can be seen to pass it (`ReadBehind`): from there on it is "astray", takes one
packet for another, and may be left waiting by a layer above that puts the close off
there, too (`Linger`). `Release` closes an end; the number is free, the other end finds
out later. `Quit` is `dna_close`. Test packets, packets of a program
that is none of DIM's, and the tables `failed` and `timedOut` of partners that could not
be reached are there as well; `Without` is what forgetting a partner does to
`timedOut`: it takes out the entry that is found and no other.

## 3. The runs

Passing runs, with the time on two cores:

| run | instance | states | shows |
|---|---|---|---|
| `double_buffer` | 2 IDs, sizes 1-3, buffer of 2, copy buffers of 1 and 2, 4 deliveries | 62,205, 11 s | the copies never meet in one buffer (`NoSharedCopy`), what is returned is one delivery (`ResultIntact`), the channel of two places (`ImplementsChannel`), a callback returns even when nobody fetches (`CallbackReturns`), data are fetched if the application polls (`DataFetched`) |
| `event_dispatch` | 2 IDs, 2 registrations, 2 deliveries | 95,590, 20 s | DIM and `callBacks` agree (`SubscriptionsRegistered`), a free ID is unknown to DIM (`FreedIsForgotten`), `executingCallback` is right on every path (`ExecutingFlag`), data reach their own registration while it stands (`DispatchedToOwner`), registration and removal return (`ApplicationReturns`) |
| `service_registry` | 2 names, 2 updating threads, 2 usable elements, 3 additions, 1 exit code | 1,927,092, 50 s | elements, DIM's services and buffers agree (`SlotsDeclared`, `DeclaredHasBuffer`), no service is orphaned (`ServicesOwned`), no block is lost and unloading leaves nothing (`NoLeak`) |
| `server_requests` | 2 services, 2 connections, 2 requests, 2 updating threads, with symmetry | 110,696, 20 s | an update uses only what is there (`UpdateUsesLive`), what is put off is remembered by an update that will do it (`DeletionRemembered`), an update reaches everybody who was there and has stayed (`UpdateReachesAll`), no request outlives its service, whatever has become of its client (`RequestsServed`), reports and data sent go round for ever only if they are called while an update has given up the lock (`HangsOnlyInUpdates`) |
| `server_requests_live` | 2 services, 1 connection, 2 requests, 1 updating thread | 28,309, 12 s | what is put off is done, if nobody goes round with the lock for ever (`DeletionDone`) |
| `dns_registration` | 1 standard service, 3 services in all, 1 failure of the name server, 1 update at a time | 327,385, 35 s | when nothing is under way the name server knows what was announced and nothing that is gone (`NameServerKnows`), a server that serves has its port and its watchdog (`Reachable`), services stay until they are removed (`ServicesKept`), what is announced gets known through every failure (`ServicesAnnounced`), stopping ends (`StopsReturn`) |
| `service_list` | 2 services in 1 bucket, 3 clients, counts up to 2, with symmetry of clients | 269,418, 14 s | clients that are told only changes agree with the list (`ListsAgree`); a start that skips buckets misses no service (`NewEntriesCounted`) |
| `client_watch` | 3 connections, 3 partners, 2 wishes and 2 clients in use at a time, with symmetry | 232,989, 40 s | watchers know who is a client, through any chain of failing writes and releases put off (`ClientListRight`); the exit routine announces the end of nobody who is connected (`EndsAreTrue`) |
| `dim_lock` | 3 threads, nested up to 3 deep | 152, 2 s | `MutualExclusion`, `ImplementsLock`, and the lock moves on (`LockMovesOn`) |
| `dim_threads` | 3 callers, counter between -2 and 2 | 14,439, 9 s | no signal is lost to spurious wake-ups and changing waiters (`SignalHeard`), there are two threads or none (`ThreadsUp`), `dim_wait` and `dim_stop` return (`WaitReturns`, `StopReturns`) |
| `dna` | 1 number, 1 partner, 1 connection at a time, 2 packets, header 1, body 2, reads and writes of 2 units | 264,716, 2:30 | packets come out as `PacketChannel` promises, through writes that time out (`ImplementsPacketChannel`), reader and writer do not get out of step but behind such a write (`InStep`), a partner given up is remembered once (`RememberedOnce`), what is begun arrives unless the connection ends or a write times out (`PassedInTheEnd`) |

The inductive invariants and the type invariants are proved for every instance and not
in the runs; TLC has checked all of them on the instances above.

Why the bounds are enough. The double buffer has two places, so four deliveries fill it,
overflow it and go round; sizes lie below, at and above both limits that are tested. Two
IDs and two registrations let an ID be freed and given out again while data for its
first user wait in a buffer; three registrations also pass (519,034 states). In
`ServiceRegistry` two usable elements and three additions reuse an element and fill the
array. In `ServerRequests` two requests suffice for one to fail while the other is being
served, for two on one connection and for two connections. In `DnsRegistration` three
services are the standard one and two of the application's in any order, or the standard
one twice with a restart in between. In `ServiceList` three clients are one that knows,
one that does not yet and one that comes in between, and two services in one bucket let
the count of one be taken down for the other. In `ClientWatch` three connections let
somebody be told of a second who fails while being told of a third, and two of them be
in use by another update. In `DimThreads` three callers wait, are late, and return while
one of them starts or stops. In `Dna` a packet of three units with reads and writes of
two is cut at every place, two packets let one follow another that was cut off, and one
connection that ends and is made again uses its number again. `MaxCalls`, `MaxRegs`,
`MaxAdds`, `MaxDepth`, `MaxIDs`, `MaxBreaks`, `MaxUpdates`, `MaxWishes`, `MaxInUse`,
`MaxNew`, `MaxCount`, `MaxConns` and `MaxPackets` bound what the code does not.

The check of deadlock is off in three runs. In `dns_registration` an application that
has added all it will and lost its name server for good has nothing left to do. In
`dim_threads` `dim_stop` does hang if its caller has the lock, or a thread ends with it.
In `dna` the packets may be used up.

## 4. Where the code and its words part

One run is expected to find a violation: `event_dispatch_stale` of `IDIdentifiesEvent`.
`dimWaitForData` looks the reference up when data are fetched (`DimWrapper.c`:686). A
freed ID is the next to be given out (488), so data buffered for a removed registration
come out with the reference of the next one. The comment at 105: "Each registered
LabVIEW event is identified by one element of this array." `DispatchedToOwner` says what
holds nevertheless.

What else came up while the models were written is not a run. Each is a behaviour of a
model, and a condition of a property, a hazard in `PROJECT.json`, or both.

In the wrapper:

- `receivedCB` tests `ignoreCallbackID` (518) before it raises `executingCallback`
  (521). In between `removeMyService` sets the first, sleeps 100 us, and finds the
  second down: the callback it was to keep away is running. DIM's lock limits the
  damage: `dic_release_service` waits for the callback to end, which is why
  `FreedIsForgotten` holds.
- While DIM sends a service, `dis_remove_service` only notes that it is to go
  (`dis.c`:2155); `disRemoveService` frees its buffer all the same (975) and DIM sends
  on from it. `DeclaredHasBuffer` excepts it.
- A service added again under the name of one whose removal is put off is refused by
  DIM, which returns 0; `disAddService` stores it and returns the index (915).
  `SlotsDeclared` excepts elements without a DIM service.
- After `disStopServing` the elements keep the IDs of services DIM has removed
  (`swept`), and go on being updated and removed with them.

In `dis.c`:

- The request DIM keeps for a client's command is in the list of the service and not in
  the client's (1366), so it survives the connection, whose number will be used again.
  `dis_report_service` (1662) and `dis_send_service` (2095) write to whoever has it then.
- When the first write to a client fails, `release_conn` may have freed the request that
  `execute_service` and the loop of `dis_report_service` (1659) still read;
  `dis_send_service` (2097) goes on from a request that a later release may have freed.
- The second loop of `dis_report_service` (1671) ends when no request is marked as to
  go; one that is because its release is put off keeps it going for ever, with the lock
  held. Likewise `dis_send_service` (2095) writes again and again to a client whose
  release is put off. `ServerRequests` has both (`loop`); `HangsOnlyInUpdates` says that
  they take an update that has given up the lock, and `DeletionDone` supposes that they
  do not happen for ever.
- A client that only asks once, over a connection that breaks meanwhile, is entered as a
  client of a closed connection (1341-1345).
- Two updates of the same service share one flag (1812); a second `DIM_DELETE` of a
  client during an update adds to the flag of its request instead of setting it (2634),
  so that the request is no longer due to go. `ServerRequests` keeps away from both
  (section 7).
- `do_dis_stop_serving_dns` reads the service it found after it gave up the lock (2271);
  an update that ends in between may have freed it.
- `dis_start_serving_dns` sets `serving` before it opens the port (1131); if that fails,
  the standard services are not there, and when the application's sixth service is
  removed the count of five (2205) makes DIM stop all the others. Likewise
  `dis_stop_serving` with no services but the standard ones never gets to
  `do_dis_stop_serving_dns`: `serving` stays set, the next start adds no standard
  services, and the watchdog's timer is in a queue that was deleted (2402). `lapsed`
  marks both in `DnsRegistration`.
- The counts in `service_info` go wrong when a whole list is sent while an update is due
  or none will come (2961), and nobody hears of a service that is removed while the name
  server is away (984). `missed` marks both in `ServiceList`.
- Watchers of `CLIENT_LIST` are not told of clients that came with a single question or
  a command, nor of those that withdrew their requests before they left; a watcher that
  could not be written to, but is in use by another update, stays without having been
  told. `missed` marks them in `ClientWatch`.
- If the exit routine updates a service and a client cannot be written to, the routine
  is called for that client as well, which then stays connected: its release is skipped
  while another is under way (2723), and `to_delete` has been cleared (1832).
  `EndsAreTrue` does not count these calls.

In `dim_thr.c` and `dna.c`:

- `dim_stop` hangs if its caller has the lock and one of the threads waits for it, or if
  a thread is cancelled while it has the lock. `StopReturns` excepts both.
- After a write has timed out in the middle of a packet, others go on writing whole
  packets to the connection until it is closed, which `dis.c` may put off (1538, 2531).
  The reader takes them for the rest of the first: it may pass up a packet made of two,
  or refuse a proper header. `PacketChannel` and `InStep` promise nothing behind such a
  place (`course`).
- A packet that is queued for a connection goes to whoever has its number when the timer
  comes (`dna.c`:372). It is a whole packet of the new connection, so `PacketChannel`
  holds.

## 5. Fairness

- `DoubleBuffer!FairSpec`: weak fairness of the steps of `receivedCB`. It runs in a
  thread of its own and everything it waits for has a time limit. Nothing is assumed of
  the application there. `DataFetched` has its assumption, that the application polls,
  in the property (`ApplicationPolls`).
- `EventDispatch!FairDispatch`: weak fairness of the callback's steps and of the
  removal's own steps, strong fairness of the two steps of the application that need
  DIM's lock. Strong, because the lock is taken and given back by callbacks again and
  again; a thread that keeps asking gets it in between, as callbacks come from the
  network and DIM's thread blocks in `select` between them.
- `ServerRequests!FairSpec`: strong fairness of an update under way, for the same
  reason: it takes the lock anew for every client. Nothing is assumed of clients. A loop
  of a report or of data sent may never end (`GoRound`); that it does is a condition in
  `DeletionDone`. With two threads that update two services in turn, each with a request
  of the same lost client, the release is put off from one to the other for ever:
  `DeletionDone` fails with two updating threads. Nothing in the repository promises it
  there.
- `DnsRegistration!FairSpec`: weak fairness of the steps of stopping, the end of
  updates, and what DIM's threads do when the name server connects, breaks off or asks.
  Nothing but an update's stop keeps them from the lock, and that ends. With two updates
  at a time it may not: an update whose end stops serving holds the lock (1862) and
  tries for ever to remove the service that the other one, waiting for the lock, is
  updating. Hence `MaxUpdates` is 1.
- `DimThreads!FairSpec`: weak fairness of the steps of DIM's threads, of `dim_init` and
  `dim_stop` under way, of a caller that has been woken, and of callers that have the
  lock giving it back; strong fairness of DIM's threads taking the lock. What wakes
  DIM's threads is not assumed to come; `WaitReturns` has it as a condition.
- `Dna!FairSpec`: weak fairness of a write under way and of the reading side, at both
  ends: they run in threads that wait for the network, which delivers or breaks. Nothing
  is assumed about opening, queued writes or closing.
- `DimLock!LockFairSpec`: weak fairness of threads inside the two functions. The mutex is
  not assumed to be fair. That holders give the lock back is a condition in
  `LockMovesOn`.

## 6. What is proved

For all values of the constants that satisfy the modules' assumptions (IDs are
positive and numbered as the array is, lengths are natural numbers, no thread is
called 0). The provers check every leaf; no fact is taken on trust.

**EventDispatchProofs.** The double buffer comes first. `Invariance`: `Spec => []Inv`.
That the two copies never meet is not inductive: it needs to be known that the two sides
agree on which buffer comes next though neither reads the other's index. `IndexesAgree`
says it: with equal indexes both buffers are full or neither is; with different ones
exactly the buffer to be read is full. `WriteAt` and `ReadAt` are the indexes as they
will be when the assignment under way is done, since the code switches the flag first
and the index later. `CallbackOwnsBuffer`, `FullIsWhole` and `WaitOwnsBuffer` say whose
a buffer is and what it holds. From it follow `TypeCorrect`, `CopiesAreExclusive`,
`ResultsAreIntact`, and `Refinement`: `Spec => ImplementsChannel`. The queue of the
channel is read off the flags; publishing the flag is where an item is accepted, freeing
it where it is taken.

`DispatchInvariance` is about the complete wrapper, and from it follow the type
invariant and every safety property of `event_dispatch`. Beside the properties the
invariant has `CallbackHoldsLock` (the callback under way is one of DIM's, because
removal needs the lock), `ApplicationHoldsSlot` (the element being worked on is the
application's own), `ReferencesUnique` (no reference is given out twice) and
`BuffersAddressed` (the flag of a full buffer is the ID of whoever subscribed to its
data, while there is one). The lemma `DispatchStepsBuffer`, each step is one of the
double buffer or leaves it alone, carries the theorems about the buffer over to the
complete wrapper (`WrapperIsChannel`). `NextSlotIsFree` is about the search for a free
element. `InfoFollowsSubscription` says of `dimGetServiceInfo` what
`SubscriptionsRegistered` says of the array: right, but for a service ID that is still
to be stored.

**ServiceRegistryProofs.** The properties of the run are nearly inductive. What is
missing is that elements, services of DIM and blocks of memory belong together one by
one: `OwnBlocks` (each element that has a service has its own block, whose number is the
ID of the service) and `Numbered` (so it is in DIM). `OwnerState` says what the call
under way has already done to its element, `DelayedSent` who is responsible for what is
put off, `Closed` how far `deinitMyLib` has come; it is what makes `NoLeak` true at the
end in spite of the ID in element 0, which makes the loop remove element 1 first. From
`RegistryInvariance` follow `ElementsAreDeclared`, `ServicesAreOwned`, `MemoryIsFreed`
and `BuffersStay`.

**ServerRequestsProofs.** An update may walk the list since whatever it is to visit is
marked, and only its own update marks a request: `DelayMarked` and `MarkedDelayed` are
the two directions, `ServiceState` and `UpdatesApart` say the same of the service.
Nearly every step changes the requests in one of a few ways: it adds one, frees some
that no update will visit, marks some as to go, or serves one. The lemmas about those
ways carry most of the invariant, so that a step has to show little more than which way
is its own. `RequestsInvariance` gives `UpdatesUseLive`, `DeletionsRemembered`,
`UpdatesReachAll`, `RequestsAreServed` and `LoopsOnlyInUpdates`, for any number of
services, connections, requests and updating threads.

**DnsRegistrationProofs.** The state is spread over the table, the packets on their way,
the name server and two threads that may be in the middle of stopping, and the invariant
has a layer for each. `Counted`: what the code counts instead of looking is right: the
number of services, which decides when to stop, and the new entries, which decide how
many services a start looks for. `Informed` says what the packets in the queue amount
to: everything registered is known or has an "add" on its way, everything known that is
gone has a "remove" on its way, and behind every "add" of something that is gone comes
its "remove". `Places` says where the two threads can be at the same time while stopping
and what is left of the table there, `Stopping` what the flags say then, and `Kept`,
unless `lapsed`, that what the application has added is there and counted. From
`RegistrationInvariance` follow `NewEntriesAreFound`, `NameServerIsRight`,
`ServerIsReachable`, `ServicesAreKept` and the types, for any number of services,
failures and packets.

**ServiceListProofs.** That the counts stand for what clients know has two directions:
`Sound` (nobody believes in what is gone) and `Shared` (what more than the name server
were told, everybody knows). The counts change from one request of an update to the
next, so `Stage` says what holds after i of them: the clients served know everything
that is counted at all, those still to be served everything that more than i + 1 know. A
client that is told only what changes learns what is counted up to the number of clients,
and has the rest from `Shared`, because i is less than that number. `UpdatedStage`
follows the update from its first request to its last. That a start misses nothing is
`AllFound`, from the counts of new entries; then a service that is not counted is one
that has not been started, which links the two. From `ListInvariance` follow
`ClientsAgree`, `NewServicesAreFound` and the types.

**ClientWatchProofs.** `ClientListRight` speaks of the moments when nobody is left to be
released. The invariant has to speak of the others too: `WatchersRight` says that all
watchers that could be written to, or stay because they are in use, are right even while
others are being released, since each release tells them of one more or notes it in
`missed`. `PeersApart`, no partner has two numbers, is needed for the removal of one not
to hide another. Hence `ClientListsAreRight`, and `AnnouncedEndsAreTrue`: what has been
announced as gone has let go of its number within the same call, and no other number is
its.

**DimThreadsProofs.** Two arguments that have nothing to do with each other. For
`dim_wait`: the counter is at least one as long as a signal is not taken, and not
negative while somebody waits (`CounterSays`), whence `SignalsAreHeard`. For the
threads: at most one caller is in `dim_init` or `dim_stop` (`OneBusy`), and `PhaseState`
says for each point of both what the threads, the semaphore and the known handles are;
`QuietState` is the same for when nobody is. Hence `ThreadsStartOnce`.

The lock is proved about in the same module. `LockInvariance`: `Dim_thr_locker` names a
thread only if it has the mutex (`LockerOwns`), so that what `dim_lock` reads without
the mutex is true for the one thread that concludes anything from it; the counter is the
nesting depth of the thread that has the mutex (`CounterIsDepth`). Hence `LockExcludes`
and `LockImplemented`.

**DnaProofs.** The units that the reader of a connection has in its buffer, those on
their way and the rest of the write under way are one stream, and the invariant says of
it, whatever the sizes of packets, reads and writes: each unit fixes the next
(`Chained`); the data packets in it are those that were written, in that order, which
takes numbers that exist but are stored nowhere (`Numbered`); it begins where the reader
is (`Starts`); and it ends with the last packet written while both ends hold the
connection and no write in that direction has timed out, while afterwards it is cut off
anywhere (`Ended`). What is written behind a cut is not part of it, and of a reader that
goes on there nothing is said but the types. Reading, sending and
losing units then only move the borders between the three parts, or cut the stream. That
the stream begins where the reader is is why the reader never takes part of a body for a
header (`NoFalseAlien`). `Held` and `Reading` say whose a connection is and how much a
reader waits for; without them a number that is used again could bring a new connection
the rest of an old packet. `Recent`, for the table of partners given up, gives
`TimedOutOnce`. `TransportIsChannel`: what was written and what has come out of the
stream are the two ends of the abstract channel, and `Starts` and `Numbered` say that a
packet that is complete is the next one, while the direction is not "astray".

**Only model-checked.** Every liveness property (`CallbackReturns`, `DataFetched`,
`ApplicationReturns`, `DeletionDone`, `ServicesAnnounced`, `StopsReturn`, `LockMovesOn`,
`WaitReturns`, `StopReturns`, `PassedInTheEnd`), since liveness under fairness and
ENABLED are out of TLAPS's reach. Every safety property of a passing run is a theorem.
Where a proof needs induction over data (over the units of a packet, the requests of an
update) it takes the least counterexample of a set of numbers, as the library's
induction theorems take operators that the provers cannot instantiate. None of the
modules uses RECURSIVE.

## 7. Assumptions, and what is left out

- Registration and removal are serialised, and one thread calls `dimWaitForData`. Two
  registrations at once would find the same free element (`DimWrapper.c`:840).
- The buffer index of an empty search is not modelled: with all elements taken
  `dicInfoService` reads one beyond the array (827).
- `dim_init` is called first by one thread, as `DIM_THR_init_done` is tested and set
  without a lock (`dim_thr.c`:128, 133): two first callers at once might both start
  threads. `dim_stop` (186) is not called while another call of `dim_init` or `dim_stop`
  is under way; nothing in it looks for one. `StopBegin` and `InitStart` say so.
- Memory is sequentially consistent. The flags are plain C variables, so a compiler or a
  processor might reorder what the models take in the order of the source.
- A lock-free read of a word is atomic.
- Failure of `malloc` on registration, `refNumType` and the contents of the node list
  are left out of `EventDispatch`. So is the release of the client's subscriptions in
  `deinitMyLib`, which does for each element what `removeMyService` does.
- The data in a service's buffer, and so data half updated, are left out of
  `ServiceRegistry`; so are quality and time stamps, and `disStartServing`, which only
  calls DIM. DIM's IDs do not repeat there; in the code they do when a table wraps
  around. Three pairs of accesses are one step each, as no property tells them apart:
  the test and the copy of `disUpdateService` (945, 946), its second test and the call
  of DIM (947, 948), and the call of DIM in `disAddService` and the store of its result
  (915).
- `ServerRequests`: one thread updates a given service at a time; a client says
  `DIM_DELETE` once for a request; what uses a request that was freed (1558, 1659, 2097)
  finds it as it was; the server is serving. What the name server is told is left
  out.
- `DnsRegistration`: one name server, as everything here uses the default one; one
  thread calls the application's functions and one updates; a packet that was queued for
  a broken connection is gone before the next connection is up; the port opens or not;
  `dis_stop_serving` may stop DIM's threads, which the next call starts again. The
  requests of the name server to exit (in `ServiceRegistry`), the splitting of a
  registration into packets, the signs of life and the clients of a server that stops
  are left out.
- `ServiceList`: the server has started and met the name server once; requests for the
  list have no timer. A client that cannot be written to leaves at once: that its
  release may be put off (`dis.c`:2513-2531) is in `ServerRequests` and `ClientWatch`.
  All services share a bucket in the run, which is the harder case.
- `ClientWatch`: the first write to a new client does not fail; a partner has one
  connection at a time; requests for the list have no timer; the exit routine may update
  any service but the list.
- `DimThreads`: Unix. Scheduler classes, priorities and signals are left out. The
  Windows variant of the lock is not modelled; its `dim_stop` sets the mutex to 0
  whoever has it (`dim_thr.c`:887).
- `Dna`: a unit stands for a few bytes and a packet has one size. Data of the
  application are not taken for the header of a packet by a reader that is out of step,
  and a read does not reach across the place where a write timed out: where the code
  reads across it in one go the model reads up to it and then on. A test packet is small
  enough to go out at once. `dna_open_server` and the layer below, `tcpip`, which is not
  in the repository, are left out; what TCP does is in `net` and `link`.
- Not modelled at all: `std_cmnd_handler` and `dis_get_next_cmnd`, which nothing in the
  repository uses; LabVIEW VIs (binary; they are the environment); NodeMon, a sequential
  loop that to DIM is an application like any other; libNodeInfo; utilities and
  declarations; the test programs; and the two older copies of the code, which are not
  built.

## 8. Plan

Done, in this order: the double buffer and its proofs; the dispatcher and its proofs;
requests and updates of the server; the wrapper's services; the lock and its proofs;
registration with the name server; threads; transport; the lists of services and of
clients; the proofs of threads, the wrapper's services, requests, and the list of
clients; the proofs of registration, of transport, and of the list of services.

What remains, most important first:

1. An abstract specification of registration, in which the set of services the name
   server knows becomes that of the server, and a proof that `DnsRegistration`
   implements it.
2. The composition of `Dna` with `DnsRegistration`, so that the queue of `dna_write` and
   a connection number used again meet the registration (`dis.c`:671).
3. Two threads that update the same service (`dis.c`:1812), as soon as it is settled
   what they are to promise.
4. The Windows variant of the lock.
5. Several name servers, and `resizeServices` of NodeMon.
