---------------------------- MODULE PacketChannel ----------------------------
(***************************************************************************)
(* What DIM's transport (dna.c) promises the layers above it: in each      *)
(* direction of each connection the partner is passed the packets that     *)
(* were written, each once, whole and in the order in which they were      *)
(* written.  Packets may be missing at the end, when the connection breaks *)
(* or is closed.  A write that is given up cuts its direction: what was    *)
(* written before still comes as above, but nothing is promised of what is *)
(* read behind the cut.                                                    *)
(***************************************************************************)
EXTENDS Naturals, Sequences

CONSTANTS
  Lines,     (* the directions of the connections                          *)
  Packets,   (* what can be written                                        *)
  Contents   (* what can be passed up, broken packets included             *)

VARIABLES
  course,    (* course[l]: "sound"; "cut", a write has been given up; or   *)
             (* "astray", the reader has gone on behind that               *)
  sent,      (* sent[l]: the packets written in the direction l            *)
  passed     (* passed[l]: those passed up at the other end                *)

Init ==
  /\ course = [l \in Lines |-> "sound"]
  /\ sent = [l \in Lines |-> <<>>]
  /\ passed = [l \in Lines |-> <<>>]

Send(l) ==
  /\ \E p \in Packets : sent' = [sent EXCEPT ![l] = Append(@, p)]
  /\ UNCHANGED <<course, passed>>

PassUp(l) ==
  /\ course[l] # "astray"
  /\ Len(passed[l]) < Len(sent[l])
  /\ passed' = [passed EXCEPT ![l] = Append(@, sent[l][Len(@) + 1])]
  /\ UNCHANGED <<course, sent>>

Cut(l) ==
  /\ course[l] = "sound"
  /\ course' = [course EXCEPT ![l] = "cut"]
  /\ UNCHANGED <<sent, passed>>

GoAstray(l) ==
  /\ course[l] = "cut"
  /\ course' = [course EXCEPT ![l] = "astray"]
  /\ UNCHANGED <<sent, passed>>

PassAnything(l) ==
  /\ course[l] = "astray"
  /\ \E p \in Contents : passed' = [passed EXCEPT ![l] = Append(@, p)]
  /\ UNCHANGED <<course, sent>>

(* A connection is made in the place of one that has ended: the lines L,   *)
(* those of the connection, begin with nothing.                            *)
Renew(L) ==
  /\ course' = [l \in Lines |-> IF l \in L THEN "sound" ELSE course[l]]
  /\ sent' = [l \in Lines |-> IF l \in L THEN <<>> ELSE sent[l]]
  /\ passed' = [l \in Lines |-> IF l \in L THEN <<>> ELSE passed[l]]

Next ==
  \/ \E l \in Lines : Send(l) \/ PassUp(l) \/ Cut(l) \/ GoAstray(l) \/ PassAnything(l)
  \/ \E L \in SUBSET Lines : Renew(L)

Spec == Init /\ [][Next]_<<course, sent, passed>>
=============================================================================
