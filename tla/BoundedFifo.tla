---------------------------- MODULE BoundedFifo ----------------------------
(***************************************************************************)
(* What the event queue of the Contiki process kernel promises to the      *)
(* processes that use it (core/sys/process.h, process_post): a message     *)
(* accepted by process_post() is delivered once, after every message       *)
(* accepted before it, and a message is refused only when Capacity         *)
(* messages are waiting.                                                   *)
(***************************************************************************)
EXTENDS Naturals, Sequences

CONSTANTS
  Capacity,  \* how many messages may wait
  Message    \* the messages

VARIABLE queue  \* the waiting messages, oldest first

Init == queue = << >>

Put(m) ==
  /\ Len(queue) < Capacity
  /\ queue' = Append(queue, m)

Refuse ==
  /\ Len(queue) = Capacity
  /\ UNCHANGED queue

Get ==
  /\ queue # << >>
  /\ queue' = Tail(queue)

Next == (\E m \in Message : Put(m)) \/ Refuse \/ Get

Spec == Init /\ [][Next]_queue
=============================================================================
