------------------------------ MODULE Runicast ------------------------------
(***************************************************************************)
(* Reliable single-hop unicast of Rime: runicast.c on top of stunicast.c,  *)
(* which keeps the packet in a queue buffer and sends it again at each     *)
(* expiry of a callback timer, until an acknowledgement with the right     *)
(* packet id arrives or max_rxmit transmissions have been made.  The layer *)
(* below (nullmac over cxmac) reports each transmission before the call    *)
(* that asked for it returns, so that a message may time out inside        *)
(* runicast_send().                                                        *)
(*                                                                         *)
(* The two directions of a connection share no state but the packet        *)
(* buffer: one sender and one receiver are modelled.  A frame stays in the *)
(* air, where it may be received never, late, or many times, until the     *)
(* sender has made MaxAge further transmissions; the acknowledgement that  *)
(* it causes lasts as long.                                                *)
(* The number n that a frame carries here is its message's, a ghost: the   *)
(* code sees only id.                                                      *)
(***************************************************************************)
EXTENDS Naturals

CONSTANTS
  IdSpan,       \* 1 << RUNICAST_PACKET_ID_BITS
  MaxAge,       \* bound: transmissions that a frame outlives
  Max,          \* the values of max_retransmissions that are asked for
  MaxMessages   \* bound: messages

\* A frame does not outlive as many transmissions as there are ids, less one.  That
\* is so when transmissions are apart: a retransmission waits a second, a frame stays
\* some milliseconds in the air.  It is asked of programs that send without
\* retransmissions (max_retransmissions 1), or whose packets CX-MAC drops at once:
\* nothing in the code keeps these from using up the ids faster.
ASSUME RunicastAssumption ==
  /\ IdSpan \in Nat \ {0} /\ MaxAge \in Nat
  /\ MaxAge + 1 < IdSpan
  /\ Max \subseteq Nat \ {0}
  /\ MaxMessages \in Nat

VARIABLES
  open,                     \* runicast_open() was called, runicast_close() was not
  sndnxt, is_tx,            \* struct runicast_conn
  rxmit, max_rxmit,
  buf,                      \* stunicast_conn.buf: the ids of the queued packet, or none
  timer,                    \* stunicast_conn.t is set
  data, acks,               \* the frames in the air
  count,                    \* ghost: messages accepted
  delivered,                \* ghost: messages given to the receiver's recv callback
  confirmed, failed         \* ghost: messages reported by sent and by timedout

air == << data, acks >>
sender == << sndnxt, is_tx, rxmit, max_rxmit, buf, timer, open >>
reports == << count, confirmed, failed >>
vars == << air, sender, reports, delivered >>

Packet == [n : Nat, id : 0 .. IdSpan - 1]
NoBuf == [n |-> 0, id |-> 0]

Init ==
  /\ open = TRUE /\ sndnxt = 0 /\ is_tx = FALSE
  /\ rxmit = 0 /\ max_rxmit = 0
  /\ buf = NoBuf /\ timer = FALSE
  /\ data = {} /\ acks = {}
  /\ count = 0 /\ delivered = {} /\ confirmed = {} /\ failed = {}

-----------------------------------------------------------------------------
NextId(id) == (id + 1) % IdSpan

\* Mutant: frames never leave the air.
AgedMutant(F) == {[f EXCEPT !.age = @ + 1] : f \in F}

\* Another transmission: frames grow older, and the oldest are gone.
Aged(F) == {[f EXCEPT !.age = @ + 1] : f \in {g \in F : g.age < MaxAge}}

OnAir(b) ==
  /\ data' = Aged(data) \cup {[n |-> b.n, id |-> b.id, age |-> 0]}
  /\ acks' = Aged(acks)

\* Mutant: the timer that stunicast set is not stopped and the buffer not freed.
GiveUpMutant(b) ==
  /\ is_tx' = FALSE /\ buf' = b
  /\ rxmit' = 0 /\ sndnxt' = NextId(sndnxt)
  /\ failed' = failed \cup {b.n}

\* sent_by_stunicast() at the last transmission: the connection is free, the
\* timedout callback called, then the count reset and the packet id advanced.  A
\* callback that sent a message of its own would have its id taken from it here;
\* the programs modelled send later.
GiveUp(b) ==
  /\ is_tx' = FALSE /\ buf' = NoBuf
  /\ rxmit' = 0 /\ sndnxt' = NextId(sndnxt)
  /\ failed' = failed \cup {b.n}

\* unicast_send() of packet b, whose transmissions so far are tx, and the report of
\* it: the message goes on being sent, or times out.
Transmit(b, tx, max, rearm) ==
  \/ /\ tx + 1 < max
     /\ OnAir(b)
     /\ is_tx' = TRUE /\ buf' = b /\ max_rxmit' = max /\ rxmit' = tx + 1
     /\ timer' = TRUE
     /\ UNCHANGED << sndnxt, failed >>
  \/ /\ tx + 1 >= max
     /\ OnAir(b)
     /\ GiveUp(b)
     /\ max_rxmit' = max
     /\ timer' = rearm

-----------------------------------------------------------------------------
\* runicast_send(), which returns 1, or 0 for want of a queue buffer.
Send ==
  /\ open /\ ~is_tx /\ count < MaxMessages
  /\ count' = count + 1
  /\ \E max \in Max :
       Transmit([n |-> count + 1, id |-> sndnxt], 0, max, FALSE)
  /\ UNCHANGED << open, delivered, confirmed >>

SendFails ==
  /\ open /\ ~is_tx /\ count < MaxMessages
  /\ \E max \in Max : max_rxmit' = max
  /\ rxmit' = 0 /\ buf' = NoBuf
  /\ UNCHANGED << air, sndnxt, is_tx, timer, open, reports, delivered >>

\* Mutant: a retransmission is counted as the first.
ResendMutant ==
  IF buf = NoBuf
  THEN timer' = FALSE /\ UNCHANGED << air, sndnxt, is_tx, rxmit, max_rxmit, buf, failed >>
  ELSE Transmit(buf, 0, max_rxmit, TRUE)

\* The timer's callback, send(): the packet goes out again, if it is still there,
\* and the timer is set anew, also when the packet has just timed out.
Resend ==
  \/ /\ buf = NoBuf
     /\ timer' = FALSE
     /\ UNCHANGED << air, sndnxt, is_tx, rxmit, max_rxmit, buf, failed >>
  \/ /\ buf # NoBuf
     /\ Transmit(buf, rxmit, max_rxmit, TRUE)

Expire ==
  /\ timer
  /\ Resend
  /\ UNCHANGED << open, count, delivered, confirmed >>

\* recv_from_stunicast() with a data packet: the acknowledgement and the recv
\* callback.  Without a queue buffer there is no acknowledgement, which is no worse
\* than one that is lost.
ReceiveData ==
  /\ \E f \in data :
       /\ acks' = acks \cup {f}
       /\ delivered' = delivered \cup {f.n}
  /\ UNCHANGED << data, sender, reports >>

\* Mutant: any acknowledgement is taken while a message is being sent.
AcceptedMutant(a) == is_tx

\* The test of the packet id.  Whether a message is being sent is not asked.
Accepted(a) == a.id = sndnxt

\* recv_from_stunicast() with an acknowledgement that is accepted.
AckTaken(a) ==
  /\ Accepted(a)
  /\ sndnxt' = NextId(sndnxt)
  /\ is_tx' = FALSE
  /\ timer' = FALSE /\ buf' = NoBuf
  /\ confirmed' = confirmed \cup {count}
  /\ UNCHANGED << rxmit, max_rxmit, open, count, failed >>

AckBad(a) == ~Accepted(a) /\ UNCHANGED << sender, reports >>

ReceiveAck ==
  /\ open
  /\ \E a \in acks : AckTaken(a) \/ AckBad(a)
  /\ UNCHANGED << air, delivered >>

\* runicast_close() leaves is_tx as it is; runicast_open() starts from id 0 again.
\* The bound: when the old connection's frames are gone.
Close ==
  /\ open
  /\ open' = FALSE /\ timer' = FALSE /\ buf' = NoBuf
  /\ UNCHANGED << air, sndnxt, is_tx, rxmit, max_rxmit, reports, delivered >>

Open ==
  /\ ~open
  /\ data' = {} /\ acks' = {}
  /\ open' = TRUE /\ sndnxt' = 0 /\ is_tx' = FALSE /\ rxmit' = 0
  /\ UNCHANGED << max_rxmit, buf, timer, reports, delivered >>

Next ==
  \/ Send \/ SendFails \/ Expire
  \/ ReceiveData \/ ReceiveAck
  \/ Close \/ Open

\* The timer expires.
Spec == Init /\ [][Next]_vars /\ WF_vars(Expire)

-----------------------------------------------------------------------------
busy == is_tx /\ open

RU == INSTANCE ReliableUnicast

RunicastTypeOK ==
  /\ open \in BOOLEAN /\ is_tx \in BOOLEAN /\ timer \in BOOLEAN
  /\ sndnxt \in 0 .. IdSpan - 1
  /\ rxmit \in Nat /\ max_rxmit \in Nat
  /\ buf \in Packet
  /\ data \subseteq [n : Nat, id : 0 .. IdSpan - 1, age : 0 .. MaxAge]
  /\ acks \subseteq [n : Nat, id : 0 .. IdSpan - 1, age : 0 .. MaxAge]
  /\ count \in Nat
  /\ delivered \subseteq Nat /\ confirmed \subseteq Nat /\ failed \subseteq Nat

\* While a message is being sent its packet is in a buffer under the id that its
\* acknowledgement must carry and the timer runs; the buffer is given back with the
\* last transmission, the acknowledgement or the close (stunicast_cancel, send).
SendingIsArmed ==
  /\ busy => timer /\ buf.n = count /\ buf.id = sndnxt /\ rxmit < max_rxmit
  /\ ~busy => buf = NoBuf

\* Connections implement reliable unicast (runicast_send, sent_by_stunicast,
\* recv_from_stunicast).
RunicastReliable == RU!Spec

\* Every message comes to an outcome, or its connection is closed
\* (sent_by_stunicast, send).
SendEnds == busy ~> ~busy
=============================================================================
