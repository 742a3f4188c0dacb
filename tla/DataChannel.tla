---------------------------- MODULE DataChannel ----------------------------
(***************************************************************************)
(* What the wrapper library promises its application about service data:   *)
(* data arrive one at a time, are either accepted into a first-in          *)
(* first-out channel of two places or dropped whole, and the application   *)
(* gets each accepted item exactly once, complete, in order, with the      *)
(* callback ID and size it came with.  An application whose copy buffer is *)
(* too small loses the item at the head.                                   *)
(*                                                                         *)
(* The module models no code of its own; DoubleBuffer implements it.       *)
(***************************************************************************)
EXTENDS Integers, Sequences

CONSTANTS
  Data,    (* the items of data, each [n, id, size]                     *)
  NoData   (* stands for "nothing" in pending and got                   *)

VARIABLES
  pending, (* the item a callback is trying to hand over                *)
  queue,   (* the accepted items, oldest first                          *)
  got      (* what the last call of the application returned            *)

vars == <<pending, queue, got>>

Capacity == 2

Nothing == [callBackID |-> -1, recSize |-> -1, data |-> NoData]

Result(d) == [callBackID |-> d.id, recSize |-> d.size, data |-> d]

Init ==
  /\ pending = NoData
  /\ queue = << >>
  /\ got = Nothing

(* DIM calls the library with an item.                                     *)
Call ==
  /\ pending = NoData
  /\ pending' \in Data
  /\ UNCHANGED <<queue, got>>

(* The item enters the channel ...                                         *)
Accept ==
  /\ pending # NoData
  /\ Len(queue) < Capacity
  /\ queue' = Append(queue, pending)
  /\ pending' = NoData
  /\ UNCHANGED got

(* ... or is dropped, which leaves no trace in the channel.                *)
Drop ==
  /\ pending # NoData
  /\ pending' = NoData
  /\ UNCHANGED <<queue, got>>

(* The application gets the oldest item ...                                *)
Take ==
  /\ queue # << >>
  /\ got' = Result(Head(queue))
  /\ queue' = Tail(queue)
  /\ UNCHANGED pending

(* ... or loses it, its copy buffer being too small ...                    *)
Discard ==
  /\ queue # << >>
  /\ got' = Nothing
  /\ queue' = Tail(queue)
  /\ UNCHANGED pending

(* ... or is told that nothing came.                                       *)
Miss ==
  /\ got' = Nothing
  /\ UNCHANGED <<pending, queue>>

Next ==
  \/ Call
  \/ Accept
  \/ Drop
  \/ Take
  \/ Discard
  \/ Miss

Spec == Init /\ [][Next]_vars
=============================================================================
