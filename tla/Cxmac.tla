------------------------------- MODULE Cxmac -------------------------------
(***************************************************************************)
(* CX-MAC (core/net/mac/cxmac.c), the duty cycling of the radio under Rime *)
(* on the micaz.  Every node wakes for a moment in each cycle; a sender    *)
(* repeats a short strobe until the receiver has woken and acknowledged    *)
(* it, and then sends the packet.                                          *)
(*                                                                         *)
(* A node is one thread of control: while send_packet() strobes, the       *)
(* node's power cycle and its input wait, and the frames that its radio    *)
(* takes in are read by the loop of strobes.  Time is left out except for  *)
(* the order it gives: a train has MaxStrobes strobes, a stream lasts      *)
(* StreamCycles calls of cpowercycle().  The encounter list only shortens  *)
(* waiting and is left out, as is the power accounting.  Strobes for the   *)
(* broadcast address are compiled out (WITH_STROBE_BROADCAST).             *)
(***************************************************************************)
EXTENDS Naturals

CONSTANTS
  Node,          \* the nodes
  Other,         \* the address of a station that is not there
  NULL,          \* rimeaddr_null, which is the broadcast address too
  Kinds,         \* what the packets ask for: "data", "reliable", "stream"
  MaxStrobes,    \* strobe_time / strobe_wait_time
  StreamCycles,  \* DEFAULT_STREAM_TIME in calls of cpowercycle()
  MaxOps         \* bound: packets sent and protocols switched off, in all

ASSUME CxmacAssumption ==
  /\ Other \notin Node /\ NULL \notin Node /\ Other # NULL
  /\ Kinds \subseteq {"data", "reliable", "stream"}
  /\ MaxStrobes \in Nat \ {0} /\ StreamCycles \in Nat \ {0}
  /\ MaxOps \in Nat

VARIABLES
  mac,      \* per node, the static variables of cxmac.c and the radio
  sending,  \* per node, the locals of send_packet(), or NoSend: we_are_sending
  rx,       \* per node, the frame in the radio's receive FIFO, or NoFrame
  awake,    \* ghost, per node: wake periods that passed, with the radio left on,
            \* since a frame was heard or a program called turn_off(), which may
            \* itself leave the radio on; counted up to three
  ops,      \* ghost: packets sent and protocols switched off
  switched  \* ghost: some protocol was switched off

vars == << mac, sending, rx, awake, ops, switched >>

Addr == Node \cup {Other, NULL}
Frame == [type : {"strobe", "ack", "data"}, from : Node, to : Addr]
NoFrame == [type |-> "none", from |-> NULL, to |-> NULL]
Send == [to : Addr, kind : Kinds, attrs : Kinds \cup {"none"},
         strobes : 0 .. MaxStrobes, ack : BOOLEAN, collisions : BOOLEAN]
NoSend == [to |-> NULL, kind |-> "none"]

\* cxmac_init().  timer: cpowercycle_ctimer is set; pt: where cpowercycle() goes on;
\* is_streaming: the calls left until stream_until.
Init ==
  /\ mac = [n \in Node |->
       [cxmac_is_on |-> TRUE, radio |-> FALSE, radio_is_on |-> FALSE,
        waiting_for_packet |-> 0, someone_is_sending |-> 0, is_streaming |-> 0,
        is_streaming_to |-> NULL, is_streaming_to_too |-> NULL,
        pt |-> "wake", timer |-> TRUE]]
  /\ sending = [n \in Node |-> NoSend]
  /\ rx = [n \in Node |-> NoFrame]
  /\ awake = [n \in Node |-> 0]
  /\ ops = 0 /\ switched = FALSE

-----------------------------------------------------------------------------
\* The radio and the air.

\* on() and off() of cxmac.c, for the variables m of a node.
On(m) ==
  IF m.cxmac_is_on /\ ~m.radio_is_on
  THEN [m EXCEPT !.radio_is_on = TRUE, !.radio = TRUE]
  ELSE m

\* Mutant: the flag is cleared though the radio stays on for a stream.
OffMutant(m) ==
  IF m.cxmac_is_on /\ m.radio_is_on
  THEN [m EXCEPT !.radio_is_on = FALSE, !.radio = m.is_streaming > 0]
  ELSE m

Off(m) ==
  IF m.cxmac_is_on /\ m.radio_is_on /\ m.is_streaming = 0
  THEN [m EXCEPT !.radio_is_on = FALSE, !.radio = FALSE]
  ELSE m

\* What the FIFOs r may hold after n has sent f: a frame reaches any of the radios
\* that are on and whose FIFO is empty.
Air(r, n, f) ==
  {[m \in Node |-> IF m \in R THEN f ELSE r[m]] :
     R \in SUBSET {m \in Node \ {n} : mac[m].radio /\ r[m] = NoFrame}}

-----------------------------------------------------------------------------
\* The power cycle: cpowercycle(), called by its timer.

StreamOver(m) ==
  CASE m.is_streaming = 0 -> m
    [] m.is_streaming = 1 -> [m EXCEPT !.is_streaming = 0, !.is_streaming_to = NULL,
                                       !.is_streaming_to_too = NULL]
    [] OTHER -> [m EXCEPT !.is_streaming = @ - 1]

\* cschedule_powercycle()
Scheduled(m) == [m EXCEPT !.timer = m.cxmac_is_on]

\* Mutant: the last step of the back-off is never taken.
QuieterMutant(m) == [m EXCEPT !.someone_is_sending = IF @ > 1 THEN @ - 1 ELSE @]

Quieter(m) == [m EXCEPT !.someone_is_sending = IF @ > 0 THEN @ - 1 ELSE @]

\* powercycle_turn_radio_on(), powercycle_turn_radio_off()
TurnRadioOn(m) == IF m.waiting_for_packet = 0 THEN On(m) ELSE m
TurnRadioOff(m) == IF m.waiting_for_packet = 0 THEN Off(m) ELSE m

\* Mutant: the cycles of waiting are counted without an end.
StopWaitingEndMutant(m) ==
  IF m.waiting_for_packet = 0 THEN m ELSE [m EXCEPT !.waiting_for_packet = @ + 1]

\* Mutant: the wait is not given up.
StopWaitingMutant(m) ==
  IF m.waiting_for_packet = 0 THEN m ELSE [m EXCEPT !.waiting_for_packet = 2]

\* Mutant: cycles are counted only while the radio is on.
StopWaitingOnMutant(m) ==
  CASE m.waiting_for_packet = 0 \/ ~m.radio_is_on -> m
    [] m.waiting_for_packet = 1 -> [m EXCEPT !.waiting_for_packet = 2]
    [] OTHER -> TurnRadioOff([m EXCEPT !.waiting_for_packet = 0])

StopWaiting(m) ==
  CASE m.waiting_for_packet = 0 -> m
    [] m.waiting_for_packet = 1 -> [m EXCEPT !.waiting_for_packet = 2]
    [] OTHER -> TurnRadioOff([m EXCEPT !.waiting_for_packet = 0])

Idle(n) == sending[n] = NoSend

WakeUp(n) ==
  /\ Idle(n) /\ mac[n].timer /\ mac[n].pt = "wake"
  /\ LET m == TurnRadioOn(Quieter(StreamOver(mac[n])))
     IN  mac' = [mac EXCEPT ![n] = Scheduled([m EXCEPT !.pt = "sleep"])]
  /\ UNCHANGED << sending, rx, awake, ops, switched >>

FallAsleep(n) ==
  /\ Idle(n) /\ mac[n].timer /\ mac[n].pt = "sleep"
  /\ LET m == StopWaiting(TurnRadioOff(StreamOver(mac[n])))
     IN  /\ mac' = [mac EXCEPT ![n] = Scheduled([m EXCEPT !.pt = "wake"])]
         /\ awake' = [awake EXCEPT ![n] =
              IF ~m.radio \/ m.is_streaming > 0 THEN 0 ELSE IF @ = 3 THEN 3 ELSE @ + 1]
  /\ UNCHANGED << sending, rx, ops, switched >>

-----------------------------------------------------------------------------
\* Sending: qsend_packet() and send_packet().

\* The packet is dropped and a collision reported.
Drop(n) ==
  /\ Idle(n) /\ ops < MaxOps
  /\ mac[n].someone_is_sending > 0
  /\ ops' = ops + 1
  /\ UNCHANGED << mac, sending, rx, awake, switched >>

Streaming(m, to) ==
  [m EXCEPT !.is_streaming = StreamCycles,
            !.is_streaming_to = IF @ = NULL THEN to ELSE @,
            !.is_streaming_to_too =
               IF m.is_streaming_to \notin {NULL, to} THEN to ELSE @]

\* A packet that continues a stream has no train of strobes.  The two addresses of
\* the stream are the null address when they are free, and so is a broadcast's.
BeginSend(n, to, kind) ==
  /\ Idle(n) /\ ops < MaxOps
  /\ mac[n].someone_is_sending = 0
  /\ ops' = ops + 1
  /\ LET m == mac[n]
         already == m.is_streaming > 0 /\ to \in {m.is_streaming_to, m.is_streaming_to_too}
     IN  /\ mac' = [mac EXCEPT ![n] =
              On(Off(IF kind = "stream" THEN Streaming(m, to) ELSE m))]
         /\ sending' = [sending EXCEPT ![n] =
              [to |-> to, kind |-> kind, attrs |-> kind,
               strobes |-> IF already THEN MaxStrobes ELSE 0,
               ack |-> FALSE, collisions |-> FALSE]]
  /\ UNCHANGED << rx, awake, switched >>

InTrain(s) == s # NoSend /\ ~s.ack /\ s.strobes < MaxStrobes

\* A frame is read into the packet buffer while waiting for the acknowledgement: any
\* acknowledgement with our address will do, and what is none is a collision.
Listen(n) ==
  /\ InTrain(sending[n]) /\ rx[n] # NoFrame
  /\ sending' = [sending EXCEPT
       ![n].attrs = "none",
       ![n].ack = (rx[n].type = "ack" /\ rx[n].to = n),
       ![n].collisions = @ \/ rx[n].type # "ack"]
  /\ rx' = [rx EXCEPT ![n] = NoFrame]
  /\ UNCHANGED << mac, awake, ops, switched >>

\* A strobe, or the packet itself when it is a broadcast, after which the radio is
\* off and no more is heard.
Strobe(n) ==
  LET s == sending[n]
  IN  /\ InTrain(s) /\ ~s.collisions
      /\ \/ /\ s.to # NULL
            /\ rx' \in Air(rx, n, [type |-> "strobe", from |-> n, to |-> s.to])
            /\ mac' = [mac EXCEPT ![n] = On(@)]
            /\ sending' = [sending EXCEPT ![n].strobes = @ + 1, ![n].attrs = "none"]
         \/ /\ s.to = NULL
            /\ rx' \in Air(rx, n, [type |-> "data", from |-> n, to |-> NULL])
            /\ mac' = [mac EXCEPT ![n] = Off(@)]
            /\ sending' = [sending EXCEPT ![n].strobes = @ + 1, ![n].attrs = s.kind]
      /\ UNCHANGED << awake, ops, switched >>

\* The test whether an answer is awaited reads the packet buffer as the train left
\* it; the packet is put back behind it.
Answered(s) == s.ack /\ s.attrs \in {"reliable", "stream"}

AfterTrain(m, s) ==
  LET r == IF Answered(s) THEN [On(m) EXCEPT !.waiting_for_packet = 1] ELSE Off(m)
  IN  IF s.collisions THEN [r EXCEPT !.someone_is_sending = @ + 1] ELSE r

EndSend(n) ==
  LET s == sending[n]
  IN  /\ s # NoSend
      /\ s.ack \/ s.collisions \/ s.strobes = MaxStrobes
      /\ mac' = [mac EXCEPT ![n] = AfterTrain(@, s)]
      /\ IF (s.to = NULL \/ s.ack \/ mac[n].is_streaming > 0) /\ ~s.collisions
         THEN rx' \in Air(rx, n, [type |-> "data", from |-> n, to |-> s.to])
         ELSE UNCHANGED rx
      /\ sending' = [sending EXCEPT ![n] = NoSend]
      /\ awake' = [awake EXCEPT ![n] = 0]
      /\ UNCHANGED << ops, switched >>

-----------------------------------------------------------------------------
\* input_packet(), called by the driver's process with the frame in the FIFO.

HeardData(m) == [Off(m) EXCEPT !.waiting_for_packet = 0]

InputData(n) ==
  /\ rx[n].type = "data"
  /\ LET m == [mac[n] EXCEPT !.someone_is_sending = 0]
     IN  mac' = [mac EXCEPT ![n] = IF rx[n].to \in {n, NULL} THEN HeardData(m) ELSE m]
  /\ rx' = [rx EXCEPT ![n] = NoFrame]

\* A strobe for this node is acknowledged, unless the framer fails to make the
\* acknowledgement: then it is only noticed, like one for another node.
InputStrobe(n) ==
  /\ rx[n].type = "strobe"
  /\ \/ /\ rx[n].to = n
        /\ mac' = [mac EXCEPT ![n] =
             On([@ EXCEPT !.someone_is_sending = 1, !.waiting_for_packet = 1])]
        /\ rx' \in Air([rx EXCEPT ![n] = NoFrame], n,
                       [type |-> "ack", from |-> n, to |-> rx[n].from])
     \/ /\ mac' = [mac EXCEPT ![n].someone_is_sending = 2]
        /\ rx' = [rx EXCEPT ![n] = NoFrame]

InputAck(n) ==
  /\ rx[n].type = "ack"
  /\ rx' = [rx EXCEPT ![n] = NoFrame]
  /\ UNCHANGED mac

Input(n) ==
  /\ Idle(n)
  /\ InputData(n) \/ InputStrobe(n) \/ InputAck(n)
  /\ awake' = [awake EXCEPT ![n] = 0]
  /\ UNCHANGED << sending, ops, switched >>

-----------------------------------------------------------------------------
\* turn_off() and turn_on(), the driver's entries for programs.  turn_off() leaves
\* radio_is_on as it is.
TurnOff(n) ==
  /\ Idle(n) /\ mac[n].cxmac_is_on /\ ops < MaxOps
  /\ ops' = ops + 1 /\ switched' = TRUE
  /\ \E keep_radio_on \in BOOLEAN :
       mac' = [mac EXCEPT ![n].cxmac_is_on = FALSE, ![n].radio = keep_radio_on]
  /\ awake' = [awake EXCEPT ![n] = 0]
  /\ UNCHANGED << sending, rx >>

TurnOn(n) ==
  /\ Idle(n) /\ ~mac[n].cxmac_is_on
  /\ mac' = [mac EXCEPT ![n].cxmac_is_on = TRUE, ![n].timer = TRUE]
  /\ UNCHANGED << sending, rx, awake, ops, switched >>

PowerCycle(n) == WakeUp(n) \/ FallAsleep(n)
SendStep(n) == Strobe(n) \/ EndSend(n)

Next ==
  \E n \in Node :
    \/ PowerCycle(n)
    \/ Drop(n)
    \/ \E to \in Addr \ {n}, kind \in Kinds : BeginSend(n, to, kind)
    \/ Listen(n) \/ SendStep(n)
    \/ Input(n)
    \/ TurnOff(n) \/ TurnOn(n)

\* The callback timer expires, the loop of strobes runs, the driver is polled.
Spec ==
  /\ Init /\ [][Next]_vars
  /\ \A n \in Node : WF_vars(PowerCycle(n)) /\ WF_vars(SendStep(n)) /\ WF_vars(Input(n))

-----------------------------------------------------------------------------
CxmacTypeOK ==
  /\ mac \in [Node ->
       [cxmac_is_on : BOOLEAN, radio : BOOLEAN, radio_is_on : BOOLEAN,
        waiting_for_packet : 0 .. 2, someone_is_sending : 0 .. 2,
        is_streaming : 0 .. StreamCycles,
        is_streaming_to : Addr, is_streaming_to_too : Addr,
        pt : {"wake", "sleep"}, timer : BOOLEAN]]
  /\ sending \in [Node -> Send \cup {NoSend}]
  /\ rx \in [Node -> Frame \cup {NoFrame}]
  /\ awake \in [Node -> 0 .. 3]
  /\ ops \in 0 .. MaxOps /\ switched \in BOOLEAN

\* Until a program switches the protocol off, radio_is_on tells what the radio does,
\* through trains, streams and interrupted waiting (on, off).
RadioAgrees ==
  ~switched => \A n \in Node : mac[n].radio_is_on = mac[n].radio

\* No node leaves its radio on over more than two wake periods in a row without
\* having heard a frame, unless it is streaming or was told to by turn_off()
\* (cpowercycle: "We should not be awake for more than two consecutive power cycles
\* without having heard a packet").
TwoCycles ==
  \A n \in Node : awake[n] <= 2

\* And it listens again: no state of waiting, streaming or switching leaves a node
\* deaf for ever (cpowercycle, turn_on).
Listens ==
  \A n \in Node : []<>(mac[n].radio \/ ~mac[n].cxmac_is_on)

\* A node that refuses to send because it has heard another does so for a time
\* (someone_is_sending in cpowercycle, qsend_packet).
BackOffEnds ==
  \A n \in Node :
    mac[n].someone_is_sending > 0
      ~> mac[n].someone_is_sending = 0 \/ ~mac[n].cxmac_is_on

\* After a packet that needs an answer has been sent, its strobes acknowledged, the
\* sender keeps the radio on (send_packet: "we keep the radio on").
AwaitsAnswer ==
  [][\A n \in Node :
       /\ sending[n] # NoSend /\ sending'[n] = NoSend
       /\ sending[n].ack /\ sending[n].kind = "reliable"
       => mac'[n].waiting_for_packet = 1]_vars
=============================================================================
