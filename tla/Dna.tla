-------------------------------- MODULE Dna --------------------------------
(***************************************************************************)
(* DIM's transport (dna.c): packets over TCP connections.  One process,    *)
(* "here", opens connections to partners and accepts theirs; it knows a    *)
(* connection by a number, which is given out again once the connection is *)
(* closed.  The partners, "there", run the same code.                      *)
(*                                                                         *)
(* A packet is a header and a body.  A write goes out in pieces of at most *)
(* MaxWrite units, a read takes what has come, at most MaxRead units, and  *)
(* goes on until what it was started for is complete.  A unit stands for a *)
(* few bytes: which packet they belong to and where in it they are.        *)
(*                                                                         *)
(* Opening, writing and closing are done under DIM's lock, and so are      *)
(* the entries of the timer queue (dtq.c), so that here only one write is  *)
(* in progress at a time, while reads and the partners go on.              *)
(*                                                                         *)
(* A write that does not wait may be given up half way.  The layer above   *)
(* then closes the connection, but perhaps not at once, and others go on   *)
(* writing to it meanwhile (release_conn, dis.c).  Such a direction has    *)
(* been cut; its reader goes astray when it reads on behind the cut.       *)
(***************************************************************************)
EXTENDS Naturals, Sequences, FiniteSets, SequencesExt

CONSTANTS
  Numbers,      (* of connections, here                                    *)
  Partners,     (* node and task of those at the other ends                *)
  MaxConns,     (* bounds the connections there are at a time              *)
  MaxPackets,   (* bounds the packets that are ever written                *)
  HeaderSize,   (* READ_HEADER_SIZE, in units                              *)
  BodySize,     (* of every packet that has a body, in units               *)
  MaxRead,      (* Tcpip_max_io_data_read, in units                        *)
  MaxWrite,     (* Tcpip_max_io_data_write, in units                       *)
  MaxTimedOut   (* elements of Pending_conns_tmout                         *)

ASSUME DnaAssumption ==
  /\ 0 \notin Numbers
  /\ {MaxConns, HeaderSize, BodySize, MaxRead, MaxWrite, MaxTimedOut} \subseteq Nat \ {0}
  /\ MaxPackets \in Nat

Conns == 1..MaxConns
Ends == {"here", "there"}
Other(e) == IF e = "here" THEN "there" ELSE "here"

VARIABLES
  conn,      (* conn[n]: the connection that has number n here, or 0       *)
  link,      (* link[c]: what TCP, and nobody else, knows about c          *)
  course,    (* course[e][c]: of the direction from e, see above           *)
  net,       (* net[e][c]: the units on their way to end e of c            *)
  late,      (* late[e][c]: those behind them that were written after a    *)
             (* cut; a read across it is one up to it and one from there   *)
  rd,        (* rd[e][c]: the reading side of Dna_conns, per end           *)
  wr,        (* wr[e][c]: the write in progress, what is left of it        *)
  queue,     (* the writes put into the timer queue by dna_write           *)
  failed,    (* Pending_conns: partners whose failure has been reported    *)
  timedOut,  (* Pending_conns_tmout, the least recently used first         *)
  made,      (* how many packets have been made                            *)
  sent,      (* sent[e][c]: the packets whose writing to c began at e      *)
  passed     (* passed[e][c]: the packets from e passed up at the other end *)

way == <<course, net, late>>
vars == <<conn, link, way, rd, wr, queue, failed, timedOut, made, sent, passed>>

-----------------------------------------------------------------------------
(* Packets.                                                                *)

Packet(kind, id) == [kind |-> kind, id |-> id]
OpenPacket == Packet("open", 0)     (* OPN_MAGIC: who the client is         *)
TestPacket == Packet("test", 0)     (* TST_MAGIC: is the connection alive?  *)
AlienPacket == Packet("alien", 0)   (* from a program that is none of DIM's *)
DataPackets == {Packet("data", i) : i \in 1..MaxPackets}
Garbage == Packet("garbage", 0)

Units(p, from, to) == [i \in 1..(to + 1 - from) |-> <<p, from - 1 + i>>]
Header(p) == Units(p, 1, HeaderSize)
Body(p) == IF p.kind = "test" THEN <<>> ELSE Units(p, HeaderSize + 1, HeaderSize + BodySize)
Whole(p) == Header(p) \o Body(p)

(* The packet that a buffer of body units is taken for.                    *)
Content(b) == LET p == b[1][1] IN IF b = Body(p) THEN p ELSE Garbage

(* is_header                                                               *)
IsHeader(b) == LET p == b[1][1] IN p.kind # "alien" /\ b = Header(p)

-----------------------------------------------------------------------------
NoLink == [with |-> CHOOSE p \in Partners : TRUE, ends |-> {}, up |-> FALSE,
           alien |-> FALSE]

StartHeader(init) == [state |-> "hdr", full |-> HeaderSize, buffer |-> <<>>,
                      sawInit |-> init]

NoWrite == [todo |-> <<>>, nowait |-> FALSE]

PerEnd(x) == [e \in Ends |-> [c \in Conns |-> x]]

Init ==
  /\ conn = [n \in Numbers |-> 0]
  /\ link = [c \in Conns |-> NoLink]
  /\ course = PerEnd("sound")
  /\ net = PerEnd(<<>>) /\ late = PerEnd(<<>>)
  /\ rd = PerEnd(StartHeader(FALSE))
  /\ wr = PerEnd(NoWrite)
  /\ queue = <<>>
  /\ failed = {}
  /\ timedOut = <<>>
  /\ made = 0
  /\ sent = PerEnd(<<>>)
  /\ passed = PerEnd(<<>>)

Least(a, b) == IF a < b THEN a ELSE b

Has(e, c) == e \in link[c].ends
Connected(c) == link[c].up /\ link[c].ends = Ends
Writing(e, c) == wr[e][c].todo # <<>>
LockFree == \A c \in Conns : ~Writing("here", c)
CanWrite(e, c) == IF e = "here" THEN LockFree ELSE ~Writing(e, c)

(* A connection is made in a place that no end holds any more, with        *)
(* nothing on its way; its client writes p first.                          *)
Make(n, c, with, client, p) ==
  /\ conn[n] = 0 /\ link[c].ends = {} /\ CanWrite(client, c)
  /\ conn' = [conn EXCEPT ![n] = c]
  /\ link' = [link EXCEPT ![c] = [with |-> with, ends |-> Ends, up |-> TRUE,
                                  alien |-> p = AlienPacket]]
  /\ course' = [e \in Ends |-> [course[e] EXCEPT ![c] = "sound"]]
  /\ net' = [e \in Ends |-> [net[e] EXCEPT ![c] = <<>>]]
  /\ late' = [e \in Ends |-> [late[e] EXCEPT ![c] = <<>>]]
  /\ rd' = [e \in Ends |-> [rd[e] EXCEPT ![c] = StartHeader(e = client)]]
  /\ wr' = [wr EXCEPT ![client][c] = [todo |-> Whole(p), nowait |-> TRUE]]
  /\ sent' = [e \in Ends |-> [sent[e] EXCEPT ![c] = <<>>]]
  /\ passed' = [e \in Ends |-> [passed[e] EXCEPT ![c] = <<>>]]

(* Closing, tcpip_close and conn_free: the other end finds out when it     *)
(* reads, and may then miss what is still on its way.                      *)
Release(e, c) ==
  /\ link' = [link EXCEPT ![c].ends = @ \ {e}, ![c].up = FALSE]
  /\ net' = [net EXCEPT ![e][c] = <<>>]
  /\ late' = [late EXCEPT ![e][c] = <<>>]
  /\ rd' = [rd EXCEPT ![e][c] = StartHeader(FALSE)]
  /\ wr' = [wr EXCEPT ![e][c] = NoWrite]
  /\ conn' = [n \in Numbers |-> IF e = "here" /\ conn[n] = c THEN 0 ELSE conn[n]]
  /\ UNCHANGED course

-----------------------------------------------------------------------------
(* The tables of partners, of which find_pend_conn forgets what was last   *)
(* used more than TMOUT_PENDING_CONN_TMOUT ago.                            *)

Kept(k) == SubSeq(timedOut, k + 1, Len(timedOut))

(* ins_pend_conn: a full table loses the entry used the longest ago.       *)
Insert(p, table) ==
  Append(IF Len(table) = MaxTimedOut THEN Tail(table) ELSE table, p)

(* Wrong: without looking for the partner first.                           *)
RememberAgain(p) ==
  \E k \in 0..Len(timedOut) : timedOut' = Insert(p, Kept(k))

Remember(p) ==
  \E k \in 0..Len(timedOut) :
    timedOut' = IF Contains(Kept(k), p) THEN Kept(k) ELSE Insert(p, Kept(k))

(* rel_pend_conn: of the entry that find_pend_conn has found.              *)
Without(table, p) ==
  IF Contains(table, p) THEN {RemoveAt(table, i) : i \in {j \in DOMAIN table : table[j] = p}}
                        ELSE {table}

Forget(p) ==
  \E k \in 0..Len(timedOut) : timedOut' \in Without(Kept(k), p)

(* dna_close: a partner is remembered when a write to it has timed out.    *)
Quit(e, c, out) ==
  /\ Release(e, c)
  /\ IF e = "here" /\ out /\ rd[e][c].sawInit
       THEN Remember(link[c].with)
       ELSE UNCHANGED timedOut

WasCut(e, c) == course[e][c] # "sound"

-----------------------------------------------------------------------------
(* Opening and accepting connections.                                      *)

Begin(e, c, p, nowait) ==
  /\ CanWrite(e, c)
  /\ wr' = [wr EXCEPT ![e][c] = [todo |-> Whole(p), nowait |-> nowait]]
  /\ sent' = [sent EXCEPT ![e][c] = Append(@, p)]

(* dna_open_client: says who it is before anything else.                   *)
OpenClient(n, p, c) ==
  /\ Make(n, c, p, "here", OpenPacket)
  /\ failed' = failed \ {p}
  /\ UNCHANGED <<queue, timedOut, made>>

OpenClientFails(p) ==
  /\ LockFree
  /\ failed' = failed \cup {p}
  /\ UNCHANGED <<conn, link, way, rd, wr, queue, timedOut, made, sent, passed>>

(* ast_conn_h: someone has connected, a partner as a rule.                 *)
Accept(n, p, c) ==
  /\ \E q \in {OpenPacket, AlienPacket} : Make(n, c, p, "there", q)
  /\ UNCHANGED <<queue, failed, timedOut, made>>

-----------------------------------------------------------------------------
(* Writing.  Callers use the number of a connection they have, and close   *)
(* it, sooner or later, when dna_write_nowait fails.                       *)

NextPacket == Packet("data", made + 1)

(* dna_write                                                               *)
Write(n) ==
  /\ conn[n] # 0 /\ made < MaxPackets /\ LockFree
  /\ queue' = Append(queue, [number |-> n, packet |-> NextPacket])
  /\ made' = made + 1
  /\ UNCHANGED <<conn, link, way, rd, wr, failed, timedOut, sent, passed>>

(* do_dna_write, called by the timer queue: the number may be free ...     *)
DropQueued ==
  /\ queue # <<>> /\ LockFree
  /\ conn[Head(queue).number] = 0
  /\ queue' = Tail(queue)
  /\ UNCHANGED <<conn, link, way, rd, wr, failed, timedOut, made, sent, passed>>

(* ... or stand for another connection than when dna_write was called.     *)
SendQueued ==
  /\ queue # <<>>
  /\ conn[Head(queue).number] # 0
  /\ Begin("here", conn[Head(queue).number], Head(queue).packet, FALSE)
  /\ queue' = Tail(queue)
  /\ UNCHANGED <<conn, link, way, rd, failed, timedOut, made, passed>>

(* dna_write_nowait                                                        *)
WriteNowait(e, c) ==
  /\ Has(e, c) /\ made < MaxPackets
  /\ e = "there" => ~link[c].alien
  /\ Begin(e, c, NextPacket, TRUE)
  /\ made' = made + 1
  /\ UNCHANGED <<conn, link, way, rd, queue, failed, timedOut, passed>>

(* What e writes.  Once the connection has broken it goes nowhere.         *)
Put(e, c, units) ==
  LET o == Other(e) IN
    /\ net' = IF Connected(c) /\ course[e][c] # "cut"
                THEN [net EXCEPT ![o][c] = @ \o units] ELSE net
    /\ late' = IF Connected(c) /\ course[e][c] = "cut"
                 THEN [late EXCEPT ![o][c] = @ \o units] ELSE late
    /\ UNCHANGED course

(* dna_write_bytes: one piece.                                             *)
WritePiece(e, c) ==
  /\ Writing(e, c)
  /\ \E k \in 1..Least(MaxWrite, Len(wr[e][c].todo)) :
       /\ wr' = [wr EXCEPT ![e][c].todo = SubSeq(@, k + 1, Len(@))]
       /\ Put(e, c, SubSeq(wr[e][c].todo, 1, k))
  /\ UNCHANGED <<conn, link, rd, queue, failed, timedOut, made, sent, passed>>

(* A write that waits fails only if the connection has broken; the reading *)
(* side deals with that.                                                   *)
WriteFails(e, c) ==
  /\ Writing(e, c) /\ ~wr[e][c].nowait /\ ~Connected(c)
  /\ wr' = [wr EXCEPT ![e][c] = NoWrite]
  /\ UNCHANGED <<conn, link, way, rd, queue, failed, timedOut, made, sent, passed>>

(* One that does not wait may run out of time: dna_open_client closes the  *)
(* connection then, others do not yet.                                     *)
WriteTimesOut(e, c) ==
  /\ Writing(e, c) /\ wr[e][c].nowait
  /\ IF wr[e][c].todo[1][1] \in {OpenPacket, AlienPacket}
       THEN Quit(e, c, TRUE)
       ELSE /\ wr' = [wr EXCEPT ![e][c] = NoWrite]
            /\ course' = [course EXCEPT ![e][c] = IF @ = "sound" THEN "cut" ELSE @]
            /\ UNCHANGED <<conn, link, net, late, rd, timedOut>>
  /\ UNCHANGED <<queue, failed, made, sent, passed>>

(* Wrong: does not look whether something is being written.                *)
TestWriteAnyway(e, c) ==
  /\ Has(e, c) /\ made < MaxPackets
  /\ Put(e, c, Whole(TestPacket))
  /\ made' = made + 1
  /\ UNCHANGED <<conn, link, rd, wr, queue, failed, timedOut, sent, passed>>

(* dna_test_write, called by a timer.                                      *)
TestWrite(e, c) ==
  /\ Has(e, c) /\ made < MaxPackets
  /\ ~Writing(e, c)
  /\ Put(e, c, Whole(TestPacket))
  /\ made' = made + 1
  /\ UNCHANGED <<conn, link, rd, wr, queue, failed, timedOut, sent, passed>>

TestWriteFails(e, c) ==
  /\ Has(e, c) /\ ~Connected(c) /\ CanWrite(e, c)
  /\ Quit(e, c, WasCut(e, c))
  /\ UNCHANGED <<queue, failed, made, sent, passed>>

-----------------------------------------------------------------------------
(* Reading: ast_read_h                                                     *)

Missing(e, c) == rd[e][c].full - Len(rd[e][c].buffer)

(* k units come in.                                                        *)
Arrive(e, c, k) ==
  /\ Has(e, c)
  /\ k <= Least(MaxRead, Len(net[e][c]))
  /\ net' = [net EXCEPT ![e][c] = SubSeq(@, k + 1, Len(@))]
  /\ UNCHANGED <<course, late>>

Buffer(e, c, k) == rd[e][c].buffer \o SubSeq(net[e][c], 1, k)

(* Not everything yet.                                                     *)
ReadPart(e, c) ==
  /\ rd[e][c].state # "idle"
  /\ \E k \in 1..(Missing(e, c) - 1) :
       /\ Arrive(e, c, k)
       /\ rd' = [rd EXCEPT ![e][c].buffer = Buffer(e, c, k)]
  /\ UNCHANGED <<conn, link, wr, queue, failed, timedOut, made, sent, passed>>

(* All of a header or a body b has come.                                   *)
Complete(e, c, state) ==
  /\ rd[e][c].state = state
  /\ Arrive(e, c, Missing(e, c))

StartRead(e, c, state, size, init) ==
  rd' = [rd EXCEPT ![e][c] = [state |-> state, full |-> size, buffer |-> <<>>,
                              sawInit |-> init]]

(* Wrong: starts no other read after a test packet.                        *)
ReadHeaderIdle(e, c) ==
  /\ Complete(e, c, "hdr")
  /\ LET b == Buffer(e, c, Missing(e, c)) IN
       /\ IsHeader(b)
       /\ IF b[1][1].kind = "test"
            THEN StartRead(e, c, "idle", HeaderSize, rd[e][c].sawInit)
            ELSE StartRead(e, c, "data", BodySize, rd[e][c].sawInit)
  /\ UNCHANGED <<conn, link, wr, queue, failed, timedOut, made, sent, passed>>

ReadHeader(e, c) ==
  /\ Complete(e, c, "hdr")
  /\ LET b == Buffer(e, c, Missing(e, c)) IN
       /\ IsHeader(b)
       /\ IF b[1][1].kind = "test"
            THEN StartRead(e, c, "hdr", HeaderSize, rd[e][c].sawInit)
            ELSE StartRead(e, c, "data", BodySize, rd[e][c].sawInit)
  /\ UNCHANGED <<conn, link, wr, queue, failed, timedOut, made, sent, passed>>

(* The layer above has the connection in use, and does not close it yet:   *)
(* no other read is started.                                               *)
Linger(e, c) ==
  /\ course[Other(e)][c] = "astray"
  /\ StartRead(e, c, "idle", HeaderSize, rd[e][c].sawInit)
  /\ Arrive(e, c, Missing(e, c))
  /\ UNCHANGED <<conn, link, wr, timedOut>>

(* Anything else than a header ends the connection.                        *)
ReadAlien(e, c) ==
  /\ rd[e][c].state = "hdr" /\ Has(e, c) /\ CanWrite(e, c)
  /\ Missing(e, c) <= Least(MaxRead, Len(net[e][c]))
  /\ ~IsHeader(Buffer(e, c, Missing(e, c)))
  /\ \/ Quit(e, c, WasCut(e, c))
     \/ Linger(e, c)
  /\ UNCHANGED <<queue, failed, made, sent, passed>>

IsInit(e, c, b) == ~rd[e][c].sawInit /\ b[1][1].kind = "open"

(* The client's first packet: save_node_task                               *)
ReadInit(e, c) ==
  /\ Complete(e, c, "data")
  /\ IsInit(e, c, Buffer(e, c, Missing(e, c)))
  /\ StartRead(e, c, "hdr", HeaderSize, TRUE)
  /\ IF e = "here" THEN Forget(link[c].with) ELSE UNCHANGED timedOut
  /\ UNCHANGED <<conn, link, wr, queue, failed, made, sent, passed>>

(* Any other goes up.                                                      *)
ReadData(e, c) ==
  /\ Complete(e, c, "data")
  /\ LET b == Buffer(e, c, Missing(e, c)) IN
       /\ ~IsInit(e, c, b)
       /\ passed' = [passed EXCEPT ![Other(e)][c] = Append(@, Content(b))]
  /\ StartRead(e, c, "hdr", HeaderSize, rd[e][c].sawInit)
  /\ UNCHANGED <<conn, link, wr, queue, failed, timedOut, made, sent>>

(* The connection is lost, and what is left of the packets with it: the    *)
(* layer above closes it.                                                  *)
ReadEnd(e, c) ==
  /\ Has(e, c) /\ ~Connected(c) /\ CanWrite(e, c)
  /\ Quit(e, c, WasCut(e, c))
  /\ UNCHANGED <<queue, failed, made, sent, passed>>

(* All before a cut has been read.                                         *)
ReadBehind(e, c) ==
  /\ Has(e, c) /\ course[Other(e)][c] = "cut"
  /\ net[e][c] = <<>> /\ late[e][c] # <<>>
  /\ course' = [course EXCEPT ![Other(e)][c] = "astray"]
  /\ net' = [net EXCEPT ![e][c] = late[e][c]]
  /\ late' = [late EXCEPT ![e][c] = <<>>]
  /\ UNCHANGED <<conn, link, rd, wr, queue, failed, timedOut, made, sent, passed>>

-----------------------------------------------------------------------------
(* dna_close, called by the layer above when it pleases.                   *)
Close(e, c) ==
  /\ Has(e, c) /\ CanWrite(e, c)
  /\ Quit(e, c, WasCut(e, c))
  /\ UNCHANGED <<queue, failed, made, sent, passed>>

(* The network fails.                                                      *)
Break(c) ==
  /\ Connected(c)
  /\ link' = [link EXCEPT ![c].up = FALSE]
  /\ UNCHANGED <<conn, way, rd, wr, queue, failed, timedOut, made, sent, passed>>

(* What goes on by itself.                                                 *)
WriteOn(e, c) == WritePiece(e, c) \/ WriteFails(e, c) \/ WriteTimesOut(e, c)
ReadOn(e, c) ==
  \/ ReadPart(e, c) \/ ReadHeader(e, c) \/ ReadAlien(e, c) \/ ReadInit(e, c)
  \/ ReadData(e, c) \/ ReadEnd(e, c) \/ ReadBehind(e, c)

Next ==
  \/ \E n \in Numbers, p \in Partners, c \in Conns : OpenClient(n, p, c) \/ Accept(n, p, c)
  \/ \E p \in Partners : OpenClientFails(p)
  \/ \E n \in Numbers : Write(n)
  \/ DropQueued \/ SendQueued
  \/ \E e \in Ends, c \in Conns :
       \/ WriteNowait(e, c) \/ TestWrite(e, c) \/ TestWriteFails(e, c) \/ Close(e, c)
       \/ WriteOn(e, c) \/ ReadOn(e, c)
  \/ \E c \in Conns : Break(c)

Spec == Init /\ [][Next]_vars

(* Both ends go on writing what they have begun and reading what comes.    *)
FairSpec ==
  /\ Spec
  /\ \A e \in Ends, c \in Conns : WF_vars(WriteOn(e, c)) /\ WF_vars(ReadOn(e, c))

-----------------------------------------------------------------------------
(* Properties.                                                             *)

(* Types, and that connections and numbers belong to each other.           *)
TypeOK ==
  /\ conn \in [Numbers -> Conns \cup {0}]
  /\ \A c \in Conns : Has("here", c) <=> \E n \in Numbers : conn[n] = c
  /\ \A e \in Ends, c \in Conns :
       /\ Writing(e, c) => Has(e, c)
       /\ Len(rd[e][c].buffer) < rd[e][c].full
       /\ rd[e][c].state = "data" => Has(e, c)
  /\ Len(timedOut) <= MaxTimedOut /\ failed \subseteq Partners

Directions == Ends \X Conns
Contents == DataPackets \cup {OpenPacket, TestPacket, AlienPacket, Garbage}
Channel == INSTANCE PacketChannel WITH
  Lines <- Directions, Packets <- DataPackets,
  Contents <- Contents,
  course <- [l \in Directions |-> course[l[1]][l[2]]],
  sent <- [l \in Directions |-> sent[l[1]][l[2]]],
  passed <- [l \in Directions |-> passed[l[1]][l[2]]]

(* Whole packets, in order, none twice: through all splitting of writes    *)
(* and reads, tests, closing and reuse of numbers the layers above see a   *)
(* packet channel per connection, and so they do through a time-out, until *)
(* the reader has come to where it cut the direction.                      *)
ImplementsPacketChannel == Channel!Spec

(* Only a program that is none of DIM's is taken for one: reading and      *)
(* writing do not get out of step (is_header), unless something is read    *)
(* that was written after a write to the same end had timed out.           *)
InStep ==
  [][\A e \in Ends, c \in Conns :
       ReadAlien(e, c) => link[c].alien \/ course[Other(e)][c] = "astray"]_vars

(* A partner that was given up is remembered once (dna_close), so that its *)
(* return (save_node_task) is reported once.                               *)
RememberedOnce == IsInjective(timedOut)

(* A packet whose writing has begun is passed up, unless the connection    *)
(* ends first, or a write in that direction times out.                     *)
PassedInTheEnd ==
  \A e \in Ends, c \in Conns :
    Len(passed[e][c]) < Len(sent[e][c]) ~> passed[e][c] = sent[e][c] \/ ~Connected(c) \/ WasCut(e, c)
=============================================================================
