---------------------------- MODULE Cxmac_proofs ----------------------------
(***************************************************************************)
(* Proofs about Cxmac, for any number of nodes, packets and switchings:    *)
(* its types, that radio_is_on tells what the radio does, and that no node *)
(* stays awake for more than two wake periods in a row.  A step changes    *)
(* one node only, but for the frames in the air (NodeStep); what the steps *)
(* need of a node is NodeOK.                                               *)
(***************************************************************************)
EXTENDS Cxmac, TLAPS

Mac ==
  [cxmac_is_on : BOOLEAN, radio : BOOLEAN, radio_is_on : BOOLEAN,
   waiting_for_packet : 0 .. 2, someone_is_sending : 0 .. 2,
   is_streaming : 0 .. StreamCycles,
   is_streaming_to : Addr, is_streaming_to_too : Addr,
   pt : {"wake", "sleep"}, timer : BOOLEAN]

Fifo == [Node -> Frame \cup {NoFrame}]

\* A wait that has begun was not counted yet, and one that has lasted a period was
\* counted once; a node that is switched off has its timer called once more at most;
\* and in the second period the radio is one that cpowercycle() can switch off.
AwakeOK(m, w) ==
  /\ w <= 2
  /\ m.waiting_for_packet = 1 => w = 0
  /\ m.waiting_for_packet = 2 => w <= 1
  /\ ~m.cxmac_is_on => w <= 1 /\ (m.timer => w = 0)
  /\ w = 2 /\ m.pt = "sleep" => (m.radio => m.radio_is_on)

\* A node sends only when it has heard nobody else send.
NodeOK(m, w, s) ==
  /\ AwakeOK(m, w)
  /\ s # NoSend => m.someone_is_sending = 0

Agrees(m) == m.cxmac_is_on /\ m.radio_is_on = m.radio

CxmacInv ==
  /\ CxmacTypeOK
  /\ \A n \in Node : NodeOK(mac[n], awake[n], sending[n])
  /\ ~switched => \A n \in Node : Agrees(mac[n])

-----------------------------------------------------------------------------
\* What NodeStep asks of a node that is left with no frame to send.
LEMMA NothingSent == 0 \in 0 .. 3 /\ NoSend \in Send \cup {NoSend}
OBVIOUS

\* What a node sends is not the absence of it.
LEMMA SendIsSome ==
  ASSUME NEW s \in Send
  PROVE  s # NoSend /\ s.kind # "none"
BY CxmacAssumption DEF Send, NoSend

\* A step of one node: what it leaves of the node must be OK, the others keep theirs.
LEMMA NodeStep ==
  ASSUME CxmacInv, NEW n \in Node,
         NEW m \in Mac, NEW w \in 0 .. 3, NEW s \in Send \cup {NoSend},
         NodeOK(m, w, s),
         mac' = [mac EXCEPT ![n] = m], awake' = [awake EXCEPT ![n] = w],
         sending' = [sending EXCEPT ![n] = s],
         rx' \in Fifo, ops' \in 0 .. MaxOps, switched' \in BOOLEAN,
         ~switched' => ~switched /\ (Agrees(mac[n]) => Agrees(m))
  PROVE  CxmacInv'
<1>1. /\ mac \in [Node -> Mac] /\ awake \in [Node -> 0 .. 3]
      /\ sending \in [Node -> Send \cup {NoSend}]
  BY DEF CxmacInv, CxmacTypeOK, Mac
<1>2. CxmacTypeOK'
  BY <1>1 DEF CxmacTypeOK, Mac, Fifo
<1>3. \A k \in Node :
        /\ mac'[k] = IF k = n THEN m ELSE mac[k]
        /\ awake'[k] = IF k = n THEN w ELSE awake[k]
        /\ sending'[k] = IF k = n THEN s ELSE sending[k]
  BY <1>1
<1>4. \A k \in Node : NodeOK(mac'[k], awake'[k], sending'[k])
  BY <1>3 DEF CxmacInv
<1>5. ~switched' => \A k \in Node : Agrees(mac'[k])
  BY <1>3 DEF CxmacInv
<1> QED
  BY <1>2, <1>4, <1>5 DEF CxmacInv

\* Frames go into FIFOs.
LEMMA AirFifo ==
  ASSUME NEW r \in Fifo, NEW n, NEW f \in Frame, NEW q \in Air(r, n, f)
  PROVE  q \in Fifo
BY DEF Air, Fifo

\* on() and off() touch the radio and its flag, and keep them equal.
LEMMA OnOff ==
  ASSUME NEW m \in Mac, NEW r \in {On(m), Off(m)}
  PROVE  /\ r \in Mac
         /\ r.cxmac_is_on = m.cxmac_is_on /\ r.timer = m.timer /\ r.pt = m.pt
         /\ r.waiting_for_packet = m.waiting_for_packet
         /\ r.someone_is_sending = m.someone_is_sending
         /\ r.is_streaming = m.is_streaming
         /\ Agrees(m) => Agrees(r)
         /\ (m.radio => m.radio_is_on) => (r.radio => r.radio_is_on)
BY DEF Mac, On, Off, Agrees

\* The stream only concerns the stream.
LEMMA StreamMac ==
  ASSUME NEW m \in Mac
  PROVE  LET r == StreamOver(m)
         IN  /\ r \in Mac
             /\ r.cxmac_is_on = m.cxmac_is_on /\ r.timer = m.timer /\ r.pt = m.pt
             /\ r.waiting_for_packet = m.waiting_for_packet
             /\ r.someone_is_sending = m.someone_is_sending
             /\ r.radio = m.radio /\ r.radio_is_on = m.radio_is_on
<1>1. CASE m.is_streaming = 0
  BY <1>1 DEF StreamOver
<1>2. CASE m.is_streaming = 1
  <2>1. NULL \in Addr /\ 0 \in 0 .. StreamCycles
    BY CxmacAssumption DEF Addr
  <2>2. StreamOver(m) = [m EXCEPT !.is_streaming = 0, !.is_streaming_to = NULL,
                                  !.is_streaming_to_too = NULL]
    BY <1>2 DEF StreamOver
  <2> QED
    BY <2>1, <2>2 DEF Mac
<1>3. CASE m.is_streaming \notin {0, 1}
  <2>1. m.is_streaming - 1 \in 0 .. StreamCycles
    BY <1>3, CxmacAssumption DEF Mac
  <2>2. StreamOver(m) = [m EXCEPT !.is_streaming = m.is_streaming - 1]
    BY <1>3 DEF StreamOver
  <2> QED
    BY <2>1, <2>2 DEF Mac
<1> QED
  BY <1>1, <1>2, <1>3

-----------------------------------------------------------------------------
\* The power cycle.
LEMMA WakeUpInv ==
  ASSUME CxmacInv, NEW n \in Node, WakeUp(n)
  PROVE  CxmacInv'
<1> DEFINE a == Quieter(StreamOver(mac[n]))
           b == TurnRadioOn(a)
           r == Scheduled([b EXCEPT !.pt = "sleep"])
<1>1. /\ mac[n] \in Mac /\ awake[n] \in 0 .. 3 /\ sending[n] \in Send \cup {NoSend}
      /\ NodeOK(mac[n], awake[n], sending[n])
      /\ rx \in Fifo /\ ops \in 0 .. MaxOps /\ switched \in BOOLEAN
  BY DEF CxmacInv, CxmacTypeOK, Mac, Fifo
<1>2. /\ a \in Mac
      /\ a.cxmac_is_on = mac[n].cxmac_is_on /\ a.timer = mac[n].timer
      /\ a.waiting_for_packet = mac[n].waiting_for_packet
      /\ a.radio = mac[n].radio /\ a.radio_is_on = mac[n].radio_is_on
  <2> DEFINE o == StreamOver(mac[n])
  <2>1. /\ o \in Mac
        /\ o.cxmac_is_on = mac[n].cxmac_is_on /\ o.timer = mac[n].timer
        /\ o.waiting_for_packet = mac[n].waiting_for_packet
        /\ o.radio = mac[n].radio /\ o.radio_is_on = mac[n].radio_is_on
    BY <1>1, StreamMac
  <2> HIDE DEF o
  <2>2. a = Quieter(o)
    BY DEF o
  <2> HIDE DEF a
  <2> QED
    BY <2>1, <2>2 DEF Quieter, Mac
<1> HIDE DEF a
<1>3. /\ b \in Mac
      /\ b.cxmac_is_on = mac[n].cxmac_is_on
      /\ b.waiting_for_packet = mac[n].waiting_for_packet
      /\ Agrees(a) => Agrees(b)
  BY <1>2, OnOff DEF TurnRadioOn
<1>4. b.cxmac_is_on /\ b.waiting_for_packet = 0 => b.radio_is_on
  BY <1>2 DEF TurnRadioOn, On, Mac
<1> HIDE DEF b
<1>5. /\ r \in Mac /\ r.pt = "sleep"
      /\ r.timer = b.cxmac_is_on /\ r.cxmac_is_on = b.cxmac_is_on
      /\ r.waiting_for_packet = b.waiting_for_packet
      /\ r.radio = b.radio /\ r.radio_is_on = b.radio_is_on
  BY <1>3 DEF Scheduled, Mac
<1> HIDE DEF r
<1>6. AwakeOK(r, awake[n])
  <2>1. awake[n] = 2 => r.radio_is_on
    BY <1>1, <1>3, <1>4, <1>5 DEF NodeOK, AwakeOK, Mac
  <2> QED
    BY <1>1, <1>3, <1>5, <2>1 DEF NodeOK, AwakeOK, WakeUp
<1>7. Agrees(mac[n]) => Agrees(r)
  BY <1>2, <1>3, <1>5 DEF Agrees
<1>8. NodeOK(r, awake[n], sending[n]) /\ sending[n] = NoSend
  BY <1>6 DEF NodeOK, WakeUp, Idle
<1>9. /\ mac' = [mac EXCEPT ![n] = r] /\ awake' = [awake EXCEPT ![n] = awake[n]]
      /\ sending' = [sending EXCEPT ![n] = sending[n]]
      /\ rx' = rx /\ ops' = ops /\ switched' = switched
  BY DEF WakeUp, r, b, a, CxmacInv, CxmacTypeOK
<1> QED
  BY <1>1, <1>5, <1>7, <1>8, <1>9, NodeStep

\* What FallAsleep leaves of a node whose timer has called it.
LEMMA Asleep ==
  ASSUME NEW m \in Mac, NEW w \in 0 .. 3, AwakeOK(m, w), m.timer, m.pt = "sleep"
  PROVE  LET r == StopWaiting(TurnRadioOff(StreamOver(m)))
             v == IF ~r.radio \/ r.is_streaming > 0 THEN 0
                    ELSE IF w = 3 THEN 3 ELSE w + 1
         IN  /\ r \in Mac /\ v \in 0 .. 3
             /\ r.cxmac_is_on = m.cxmac_is_on
             /\ AwakeOK(Scheduled([r EXCEPT !.pt = "wake"]), v)
             /\ Agrees(m) => Agrees(r)
<1> DEFINE o == StreamOver(m)
           f == TurnRadioOff(o)
           r == StopWaiting(f)
           v == IF ~r.radio \/ r.is_streaming > 0 THEN 0
                  ELSE IF w = 3 THEN 3 ELSE w + 1
<1>1. /\ o \in Mac
      /\ o.cxmac_is_on = m.cxmac_is_on /\ o.waiting_for_packet = m.waiting_for_packet
      /\ o.radio = m.radio /\ o.radio_is_on = m.radio_is_on
  BY StreamMac
<1> HIDE DEF o
<1>2. /\ f \in Mac
      /\ f.cxmac_is_on = m.cxmac_is_on /\ f.waiting_for_packet = m.waiting_for_packet
      /\ Agrees(m) => Agrees(f)
  BY <1>1, OnOff DEF TurnRadioOff, Agrees
<1>3. m.waiting_for_packet = 0 /\ m.cxmac_is_on /\ (m.radio => m.radio_is_on)
        => ~f.radio \/ f.is_streaming > 0
  BY <1>1 DEF TurnRadioOff, Off, Mac
<1> HIDE DEF f
<1>4. /\ r \in Mac /\ r.cxmac_is_on = m.cxmac_is_on
      /\ Agrees(m) => Agrees(r)
      /\ m.waiting_for_packet = 0 => r = f
      /\ r.waiting_for_packet = IF m.waiting_for_packet = 1 THEN 2 ELSE 0
  <2>1. CASE m.waiting_for_packet = 0
    BY <2>1, <1>2 DEF StopWaiting
  <2>2. CASE m.waiting_for_packet = 1
    <3>1. r = [f EXCEPT !.waiting_for_packet = 2]
      BY <2>2, <1>2 DEF StopWaiting
    <3> QED
      BY <2>2, <3>1, <1>2 DEF Mac, Agrees
  <2>3. CASE m.waiting_for_packet = 2
    <3> DEFINE z == [f EXCEPT !.waiting_for_packet = 0]
    <3>1. /\ z \in Mac /\ z.waiting_for_packet = 0
          /\ z.cxmac_is_on = f.cxmac_is_on /\ (Agrees(f) => Agrees(z))
      BY <1>2 DEF Mac, Agrees
    <3>2. r = Off(z)
      BY <2>3, <1>2, <3>1 DEF StopWaiting, TurnRadioOff
    <3> HIDE DEF z, r
    <3>3. /\ r \in Mac /\ r.cxmac_is_on = z.cxmac_is_on
          /\ r.waiting_for_packet = 0 /\ (Agrees(z) => Agrees(r))
      BY <3>1, <3>2, OnOff
    <3> QED
      BY <2>3, <3>1, <3>3, <1>2
  <2> QED
    BY <2>1, <2>2, <2>3 DEF Mac
<1> HIDE DEF r
<1>5. v \in 0 .. 3 /\ v <= w + 1 /\ (~r.radio \/ r.is_streaming > 0 => v = 0)
  BY DEF Mac
<1>6. /\ m.waiting_for_packet = 1 => v <= 1
      /\ ~m.cxmac_is_on => v <= 1
      /\ m.waiting_for_packet \in {0, 2} => v <= 2
  BY <1>3, <1>4, <1>5 DEF AwakeOK
<1> HIDE DEF v
<1> DEFINE y == Scheduled([r EXCEPT !.pt = "wake"])
<1>7. /\ y.pt = "wake" /\ y.cxmac_is_on = m.cxmac_is_on
      /\ y.timer = m.cxmac_is_on /\ y.waiting_for_packet = r.waiting_for_packet
  BY <1>4 DEF Scheduled, Mac
<1> HIDE DEF y
<1>8. AwakeOK(y, v)
  BY <1>4, <1>5, <1>6, <1>7 DEF AwakeOK, Mac
<1> QED
  BY <1>4, <1>5, <1>8 DEF y, v, r, f, o

LEMMA FallAsleepInv ==
  ASSUME CxmacInv, NEW n \in Node, FallAsleep(n)
  PROVE  CxmacInv'
<1> DEFINE r == StopWaiting(TurnRadioOff(StreamOver(mac[n])))
           v == IF ~r.radio \/ r.is_streaming > 0 THEN 0
                  ELSE IF awake[n] = 3 THEN 3 ELSE awake[n] + 1
           y == Scheduled([r EXCEPT !.pt = "wake"])
<1>1. /\ mac[n] \in Mac /\ awake[n] \in 0 .. 3 /\ sending[n] \in Send \cup {NoSend}
      /\ NodeOK(mac[n], awake[n], sending[n])
      /\ rx \in Fifo /\ ops \in 0 .. MaxOps /\ switched \in BOOLEAN
  BY DEF CxmacInv, CxmacTypeOK, Mac, Fifo
<1>2. /\ r \in Mac /\ v \in 0 .. 3 /\ AwakeOK(y, v)
      /\ Agrees(mac[n]) => Agrees(r)
  BY <1>1, Asleep DEF NodeOK, FallAsleep
<1>3. /\ mac' = [mac EXCEPT ![n] = y] /\ awake' = [awake EXCEPT ![n] = v]
      /\ sending' = [sending EXCEPT ![n] = sending[n]]
      /\ rx' = rx /\ ops' = ops /\ switched' = switched
  BY DEF FallAsleep, CxmacInv, CxmacTypeOK
<1> HIDE DEF r, v
<1>4. y \in Mac /\ (Agrees(r) => Agrees(y))
  BY <1>2 DEF Scheduled, Mac, Agrees
<1> HIDE DEF y
<1>5. NodeOK(y, v, sending[n])
  BY <1>2 DEF NodeOK, FallAsleep, Idle
<1> QED
  BY <1>1, <1>2, <1>3, <1>4, <1>5, NodeStep, NothingSent

-----------------------------------------------------------------------------
\* Sending.
LEMMA DropInv ==
  ASSUME CxmacInv, NEW n \in Node, Drop(n)
  PROVE  CxmacInv'
<1>1. CxmacTypeOK'
  BY CxmacAssumption DEF CxmacInv, CxmacTypeOK, Drop
<1> QED
  BY <1>1 DEF CxmacInv, Drop

LEMMA BeginSendInv ==
  ASSUME CxmacInv, NEW n \in Node, NEW to \in Addr \ {n}, NEW kind \in Kinds,
         BeginSend(n, to, kind)
  PROVE  CxmacInv'
<1> DEFINE a == IF kind = "stream" THEN Streaming(mac[n], to) ELSE mac[n]
           b == Off(a)
           r == On(b)
           already == /\ mac[n].is_streaming > 0
                      /\ to \in {mac[n].is_streaming_to, mac[n].is_streaming_to_too}
           s == [to |-> to, kind |-> kind, attrs |-> kind,
                 strobes |-> IF already THEN MaxStrobes ELSE 0,
                 ack |-> FALSE, collisions |-> FALSE]
<1>1. /\ mac[n] \in Mac /\ awake[n] \in 0 .. 3
      /\ NodeOK(mac[n], awake[n], sending[n])
      /\ rx \in Fifo /\ ops \in 0 .. MaxOps /\ switched \in BOOLEAN
  BY DEF CxmacInv, CxmacTypeOK, Mac, Fifo
<1>2. /\ a \in Mac
      /\ a.cxmac_is_on = mac[n].cxmac_is_on /\ a.timer = mac[n].timer
      /\ a.pt = mac[n].pt /\ a.waiting_for_packet = mac[n].waiting_for_packet
      /\ a.someone_is_sending = mac[n].someone_is_sending
      /\ a.radio = mac[n].radio /\ a.radio_is_on = mac[n].radio_is_on
  <2>1. StreamCycles \in 0 .. StreamCycles
    BY CxmacAssumption
  <2> QED
    BY <1>1, <2>1 DEF Streaming, Mac
<1> HIDE DEF a
<1>3. /\ b \in Mac
      /\ b.cxmac_is_on = a.cxmac_is_on /\ b.timer = a.timer
      /\ b.pt = a.pt /\ b.waiting_for_packet = a.waiting_for_packet
      /\ b.someone_is_sending = a.someone_is_sending
      /\ Agrees(a) => Agrees(b)
      /\ (a.radio => a.radio_is_on) => (b.radio => b.radio_is_on)
  BY <1>2, OnOff
<1> HIDE DEF b
<1>4. /\ r \in Mac
      /\ r.cxmac_is_on = b.cxmac_is_on /\ r.timer = b.timer
      /\ r.pt = b.pt /\ r.waiting_for_packet = b.waiting_for_packet
      /\ r.someone_is_sending = b.someone_is_sending
      /\ Agrees(b) => Agrees(r)
      /\ (b.radio => b.radio_is_on) => (r.radio => r.radio_is_on)
  BY <1>3, OnOff
<1>5. s \in Send
  <2>1. MaxStrobes \in 0 .. MaxStrobes /\ 0 \in 0 .. MaxStrobes
    BY CxmacAssumption
  <2> QED
    BY <2>1 DEF Send
<1>6. /\ mac' = [mac EXCEPT ![n] = r] /\ awake' = [awake EXCEPT ![n] = awake[n]]
      /\ sending' = [sending EXCEPT ![n] = s]
      /\ rx' = rx /\ ops' = ops + 1 /\ ops < MaxOps /\ switched' = switched
      /\ mac[n].someone_is_sending = 0
  BY DEF BeginSend, r, b, a, CxmacInv, CxmacTypeOK
<1> HIDE DEF r, s
<1>7. Agrees(mac[n]) => Agrees(r)
  BY <1>2, <1>3, <1>4 DEF Agrees
<1>8. AwakeOK(r, awake[n])
  BY <1>1, <1>2, <1>3, <1>4 DEF NodeOK, AwakeOK
<1>9. NodeOK(r, awake[n], s)
  BY <1>2, <1>3, <1>4, <1>6, <1>8 DEF NodeOK
<1>10. ops' \in 0 .. MaxOps
  BY <1>1, <1>6, CxmacAssumption
<1> QED
  BY <1>1, <1>4, <1>5, <1>6, <1>7, <1>9, <1>10, NodeStep

LEMMA ListenInv ==
  ASSUME CxmacInv, NEW n \in Node, Listen(n)
  PROVE  CxmacInv'
<1> DEFINE s == [sending[n] EXCEPT !.attrs = "none",
                                   !.ack = (rx[n].type = "ack" /\ rx[n].to = n),
                                   !.collisions = @ \/ rx[n].type # "ack"]
<1>1. /\ mac[n] \in Mac /\ awake[n] \in 0 .. 3 /\ sending[n] \in Send
      /\ NodeOK(mac[n], awake[n], sending[n])
      /\ rx \in Fifo /\ ops \in 0 .. MaxOps /\ switched \in BOOLEAN
  BY DEF CxmacInv, CxmacTypeOK, Mac, Fifo, Listen, InTrain
<1>2. s \in Send
  BY <1>1 DEF Send
<1>3. /\ mac' = [mac EXCEPT ![n] = mac[n]] /\ awake' = [awake EXCEPT ![n] = awake[n]]
      /\ sending' = [sending EXCEPT ![n] = s]
      /\ rx' = [rx EXCEPT ![n] = NoFrame] /\ ops' = ops /\ switched' = switched
  BY <1>1 DEF Listen, CxmacInv, CxmacTypeOK
<1> HIDE DEF s
<1>4. NodeOK(mac[n], awake[n], s)
  BY <1>1, SendIsSome DEF NodeOK
<1>5. rx' \in Fifo
  BY <1>1, <1>3 DEF Fifo
<1> QED
  BY <1>1, <1>2, <1>3, <1>4, <1>5, NodeStep, NothingSent

LEMMA StrobeInv ==
  ASSUME CxmacInv, NEW n \in Node, Strobe(n)
  PROVE  CxmacInv'
<1> DEFINE s == sending[n]
<1>1. /\ mac[n] \in Mac /\ awake[n] \in 0 .. 3 /\ s \in Send
      /\ NodeOK(mac[n], awake[n], s)
      /\ rx \in Fifo /\ ops \in 0 .. MaxOps /\ switched \in BOOLEAN
      /\ s.strobes + 1 \in 0 .. MaxStrobes /\ s.to \in Addr /\ s.kind \in Kinds
  BY CxmacAssumption DEF CxmacInv, CxmacTypeOK, Mac, Fifo, Strobe, InTrain, Send
<1>2. PICK at \in Kinds \cup {"none"}, r \in {On(mac[n]), Off(mac[n])}, f \in Frame :
        /\ mac' = [mac EXCEPT ![n] = r]
        /\ sending' = [sending EXCEPT ![n] = [s EXCEPT !.strobes = s.strobes + 1,
                                                       !.attrs = at]]
        /\ rx' \in Air(rx, n, f)
  <2>1. CASE s.to # NULL
    <3> DEFINE f == [type |-> "strobe", from |-> n, to |-> s.to]
    <3>1. f \in Frame
      BY <1>1 DEF Frame
    <3>2. /\ mac' = [mac EXCEPT ![n] = On(mac[n])]
          /\ sending' = [sending EXCEPT ![n] = [s EXCEPT !.strobes = s.strobes + 1,
                                                         !.attrs = "none"]]
          /\ rx' \in Air(rx, n, f)
      BY <2>1 DEF Strobe
    <3> QED
      BY <3>1, <3>2
  <2>2. CASE s.to = NULL
    <3> DEFINE f == [type |-> "data", from |-> n, to |-> NULL]
    <3>1. f \in Frame
      BY <1>1, <2>2 DEF Frame
    <3>2. /\ mac' = [mac EXCEPT ![n] = Off(mac[n])]
          /\ sending' = [sending EXCEPT ![n] = [s EXCEPT !.strobes = s.strobes + 1,
                                                         !.attrs = s.kind]]
          /\ rx' \in Air(rx, n, f)
      BY <2>2 DEF Strobe
    <3> QED
      BY <1>1, <3>1, <3>2
  <2> QED
    BY <2>1, <2>2
<1> DEFINE u == [s EXCEPT !.strobes = s.strobes + 1, !.attrs = at]
<1>3. u \in Send
  BY <1>1 DEF Send
<1>4. /\ r \in Mac
      /\ r.cxmac_is_on = mac[n].cxmac_is_on /\ r.timer = mac[n].timer
      /\ r.pt = mac[n].pt /\ r.waiting_for_packet = mac[n].waiting_for_packet
      /\ r.someone_is_sending = mac[n].someone_is_sending
      /\ Agrees(mac[n]) => Agrees(r)
      /\ (mac[n].radio => mac[n].radio_is_on) => (r.radio => r.radio_is_on)
  BY <1>1, OnOff
<1>5. /\ awake' = [awake EXCEPT ![n] = awake[n]] /\ ops' = ops /\ switched' = switched
  BY DEF Strobe, CxmacInv, CxmacTypeOK
<1>6. rx' \in Fifo
  BY <1>1, <1>2, AirFifo
<1>7. NodeOK(r, awake[n], u)
  <2>1. AwakeOK(r, awake[n])
    BY <1>1, <1>4 DEF NodeOK, AwakeOK
  <2>2. mac[n].someone_is_sending = 0
    BY <1>1, SendIsSome DEF NodeOK
  <2> QED
    BY <1>4, <2>1, <2>2 DEF NodeOK
<1> HIDE DEF s, u
<1>8. sending' = [sending EXCEPT ![n] = u]
  BY <1>2 DEF u
<1> QED
  BY <1>1, <1>2, <1>3, <1>4, <1>5, <1>6, <1>7, <1>8, NodeStep

LEMMA EndSendInv ==
  ASSUME CxmacInv, NEW n \in Node, EndSend(n)
  PROVE  CxmacInv'
<1> DEFINE s == sending[n]
           a == IF Answered(s) THEN [On(mac[n]) EXCEPT !.waiting_for_packet = 1]
                               ELSE Off(mac[n])
           r == AfterTrain(mac[n], s)
<1>1. /\ mac[n] \in Mac /\ awake[n] \in 0 .. 3 /\ s \in Send
      /\ NodeOK(mac[n], awake[n], s)
      /\ rx \in Fifo /\ ops \in 0 .. MaxOps /\ switched \in BOOLEAN
      /\ s.to \in Addr
  BY DEF CxmacInv, CxmacTypeOK, Mac, Fifo, EndSend, Send
<1>2. mac[n].someone_is_sending = 0
  BY <1>1, SendIsSome DEF NodeOK
<1>3. /\ a \in Mac
      /\ a.cxmac_is_on = mac[n].cxmac_is_on
      /\ a.someone_is_sending = 0
      /\ a.waiting_for_packet = 1 \/ a.waiting_for_packet = mac[n].waiting_for_packet
      /\ Agrees(mac[n]) => Agrees(a)
  <2> DEFINE o == On(mac[n])
             f == Off(mac[n])
  <2>1. /\ o \in Mac /\ f \in Mac
        /\ o.cxmac_is_on = mac[n].cxmac_is_on /\ f.cxmac_is_on = mac[n].cxmac_is_on
        /\ o.someone_is_sending = 0 /\ f.someone_is_sending = 0
        /\ f.waiting_for_packet = mac[n].waiting_for_packet
        /\ Agrees(mac[n]) => Agrees(o) /\ Agrees(f)
    BY <1>1, <1>2, OnOff
  <2>2. a = IF Answered(s) THEN [o EXCEPT !.waiting_for_packet = 1] ELSE f
    OBVIOUS
  <2> HIDE DEF o, f, a, s
  <2>3. CASE Answered(s)
    BY <2>1, <2>2, <2>3 DEF Mac, Agrees
  <2>4. CASE ~Answered(s)
    BY <2>1, <2>2, <2>4
  <2> QED
    BY <2>3, <2>4
<1>4. r = IF s.collisions THEN [a EXCEPT !.someone_is_sending = @ + 1] ELSE a
  BY DEF AfterTrain
<1> HIDE DEF r, a
<1>5. /\ r \in Mac /\ (Agrees(a) => Agrees(r))
      /\ r.cxmac_is_on = a.cxmac_is_on
  BY <1>3, <1>4 DEF Mac, Agrees
<1>6. AwakeOK(r, 0)
  BY DEF AwakeOK
<1>7. rx' \in Fifo
  <2> DEFINE f == [type |-> "data", from |-> n, to |-> s.to]
  <2>1. f \in Frame
    BY <1>1 DEF Frame
  <2>2. rx' \in Air(rx, n, f) \/ rx' = rx
    BY DEF EndSend
  <2> QED
    BY <1>1, <2>1, <2>2, AirFifo
<1>8. /\ mac' = [mac EXCEPT ![n] = r] /\ awake' = [awake EXCEPT ![n] = 0]
      /\ sending' = [sending EXCEPT ![n] = NoSend] /\ ops' = ops /\ switched' = switched
  BY DEF EndSend, r
<1>9. NodeOK(r, 0, NoSend)
  BY <1>6 DEF NodeOK
<1> QED
  BY <1>1, <1>3, <1>5, <1>7, <1>8, <1>9, NodeStep, NothingSent

-----------------------------------------------------------------------------
\* Input, and the switches.
LEMMA InputInv ==
  ASSUME CxmacInv, NEW n \in Node, Input(n)
  PROVE  CxmacInv'
<1>1. /\ mac[n] \in Mac /\ sending[n] = NoSend
      /\ rx \in Fifo /\ rx[n] \in Frame \cup {NoFrame}
      /\ ops \in 0 .. MaxOps /\ switched \in BOOLEAN
  BY DEF CxmacInv, CxmacTypeOK, Mac, Fifo, Input, Idle
<1>2. /\ awake' = [awake EXCEPT ![n] = 0]
      /\ sending' = [sending EXCEPT ![n] = NoSend]
      /\ ops' = ops /\ switched' = switched
  BY <1>1 DEF Input, CxmacInv, CxmacTypeOK
<1>3. [rx EXCEPT ![n] = NoFrame] \in Fifo
  BY <1>1 DEF Fifo
<1>4. \E r \in Mac : mac' = [mac EXCEPT ![n] = r] /\ (Agrees(mac[n]) => Agrees(r))
  <2>1. CASE InputData(n)
    <3> DEFINE m == [mac[n] EXCEPT !.someone_is_sending = 0]
    <3>1. m \in Mac /\ (Agrees(mac[n]) => Agrees(m))
      BY <1>1 DEF Mac, Agrees
    <3>2. mac' = [mac EXCEPT ![n] = IF rx[n].to \in {n, NULL} THEN HeardData(m) ELSE m]
      BY <2>1 DEF InputData
    <3> HIDE DEF m
    <3>3. HeardData(m) \in Mac /\ (Agrees(m) => Agrees(HeardData(m)))
      <4>1. Off(m) \in Mac /\ (Agrees(m) => Agrees(Off(m)))
        BY <3>1, OnOff
      <4> QED
        BY <4>1 DEF HeardData, Mac, Agrees
    <3>4. CASE rx[n].to \in {n, NULL}
      BY <3>1, <3>2, <3>3, <3>4
    <3>5. CASE rx[n].to \notin {n, NULL}
      BY <3>1, <3>2, <3>5
    <3> QED
      BY <3>4, <3>5
  <2>2. CASE InputStrobe(n)
    <3> DEFINE m == [mac[n] EXCEPT !.someone_is_sending = 1, !.waiting_for_packet = 1]
               u == [mac[n] EXCEPT !.someone_is_sending = 2]
    <3>1. /\ m \in Mac /\ (Agrees(mac[n]) => Agrees(m))
          /\ u \in Mac /\ (Agrees(mac[n]) => Agrees(u))
      <4>1. m \in Mac /\ u \in Mac
        <5>1. 1 \in 0 .. 2 /\ 2 \in 0 .. 2
          OBVIOUS
        <5>2. u \in Mac
          BY <1>1, <5>1 DEF Mac
        <5>3. m \in Mac
          BY <1>1, <5>1 DEF Mac
        <5> QED
          BY <5>2, <5>3
      <4>2. /\ m.cxmac_is_on = mac[n].cxmac_is_on /\ m.radio = mac[n].radio
            /\ m.radio_is_on = mac[n].radio_is_on
        BY <1>1 DEF Mac
      <4>3. /\ u.cxmac_is_on = mac[n].cxmac_is_on /\ u.radio = mac[n].radio
            /\ u.radio_is_on = mac[n].radio_is_on
        BY <1>1 DEF Mac
      <4> QED
        BY <4>1, <4>2, <4>3 DEF Agrees
    <3>2. mac' = [mac EXCEPT ![n] = On(m)] \/ mac' = [mac EXCEPT ![n] = u]
      BY <2>2 DEF InputStrobe
    <3> HIDE DEF m, u
    <3>3. On(m) \in Mac /\ (Agrees(m) => Agrees(On(m)))
      BY <3>1, OnOff
    <3> QED
      BY <3>1, <3>2, <3>3
  <2>3. CASE InputAck(n)
    <3>1. mac' = [mac EXCEPT ![n] = mac[n]]
      BY <2>3 DEF InputAck, CxmacInv, CxmacTypeOK
    <3> QED
      BY <1>1, <3>1
  <2> QED
    BY <2>1, <2>2, <2>3 DEF Input
<1>5. rx' \in Fifo
  <2>1. CASE InputStrobe(n) /\ rx[n].to = n
    <3> DEFINE f == [type |-> "ack", from |-> n, to |-> rx[n].from]
    <3>1. f \in Frame
      <4>1. rx[n] \in Frame
        BY <1>1, <2>1 DEF InputStrobe, NoFrame
      <4> QED
        BY <4>1 DEF Frame, Addr
    <3>2. \/ rx' \in Air([rx EXCEPT ![n] = NoFrame], n, f)
          \/ rx' = [rx EXCEPT ![n] = NoFrame]
      BY <2>1 DEF InputStrobe
    <3> QED
      BY <1>3, <3>1, <3>2, AirFifo
  <2>2. CASE ~(InputStrobe(n) /\ rx[n].to = n)
    BY <2>2, <1>3 DEF Input, InputData, InputStrobe, InputAck
  <2> QED
    BY <2>1, <2>2
<1>6. ASSUME NEW r \in Mac PROVE NodeOK(r, 0, NoSend)
  BY DEF NodeOK, AwakeOK
<1> QED
  BY <1>1, <1>2, <1>4, <1>5, <1>6, NodeStep, NothingSent

LEMMA TurnOffInv ==
  ASSUME CxmacInv, NEW n \in Node, TurnOff(n)
  PROVE  CxmacInv'
<1>1. /\ mac[n] \in Mac /\ sending[n] = NoSend
      /\ rx \in Fifo /\ ops \in 0 .. MaxOps /\ switched \in BOOLEAN
  BY DEF CxmacInv, CxmacTypeOK, Mac, Fifo, TurnOff, Idle
<1>2. PICK keep_radio_on \in BOOLEAN :
        mac' = [mac EXCEPT ![n].cxmac_is_on = FALSE, ![n].radio = keep_radio_on]
  BY DEF TurnOff
<1> DEFINE r == [mac[n] EXCEPT !.cxmac_is_on = FALSE, !.radio = keep_radio_on]
<1>3. r \in Mac
  BY <1>1 DEF Mac
<1>4. /\ mac' = [mac EXCEPT ![n] = r] /\ awake' = [awake EXCEPT ![n] = 0]
      /\ sending' = [sending EXCEPT ![n] = NoSend]
      /\ rx' = rx /\ ops' = ops + 1 /\ ops < MaxOps /\ switched' = TRUE
  BY <1>1, <1>2 DEF TurnOff, CxmacInv, CxmacTypeOK
<1> HIDE DEF r
<1>5. NodeOK(r, 0, NoSend)
  BY DEF NodeOK, AwakeOK
<1>6. ops' \in 0 .. MaxOps
  BY <1>1, <1>4, CxmacAssumption
<1> QED
  BY <1>1, <1>3, <1>4, <1>5, <1>6, NodeStep, NothingSent

LEMMA TurnOnInv ==
  ASSUME CxmacInv, NEW n \in Node, TurnOn(n)
  PROVE  CxmacInv'
<1>1. /\ mac[n] \in Mac /\ awake[n] \in 0 .. 3 /\ sending[n] = NoSend
      /\ NodeOK(mac[n], awake[n], sending[n])
      /\ rx \in Fifo /\ ops \in 0 .. MaxOps /\ switched \in BOOLEAN
  BY DEF CxmacInv, CxmacTypeOK, Mac, Fifo, TurnOn, Idle
<1> DEFINE r == [mac[n] EXCEPT !.cxmac_is_on = TRUE, !.timer = TRUE]
<1>2. /\ r \in Mac /\ r.cxmac_is_on /\ r.waiting_for_packet = mac[n].waiting_for_packet
      /\ ~mac[n].cxmac_is_on
  BY <1>1 DEF Mac, TurnOn
<1>3. /\ mac' = [mac EXCEPT ![n] = r] /\ awake' = [awake EXCEPT ![n] = awake[n]]
      /\ sending' = [sending EXCEPT ![n] = NoSend]
      /\ rx' = rx /\ ops' = ops /\ switched' = switched
  BY <1>1 DEF TurnOn, CxmacInv, CxmacTypeOK
<1> HIDE DEF r
<1>4. NodeOK(r, awake[n], NoSend)
  BY <1>1, <1>2 DEF NodeOK, AwakeOK
<1>5. ~Agrees(mac[n])
  BY <1>2 DEF Agrees
<1> QED
  BY <1>1, <1>2, <1>3, <1>4, <1>5, NodeStep, NothingSent

-----------------------------------------------------------------------------
\* The invariant holds at first and is kept by every step.
LEMMA CxmacInvariant == Spec => []CxmacInv
<1>1. Init => CxmacInv
  <2> SUFFICES ASSUME Init PROVE CxmacInv
    OBVIOUS
  <2> DEFINE m == [cxmac_is_on |-> TRUE, radio |-> FALSE, radio_is_on |-> FALSE,
                   waiting_for_packet |-> 0, someone_is_sending |-> 0,
                   is_streaming |-> 0, is_streaming_to |-> NULL,
                   is_streaming_to_too |-> NULL, pt |-> "wake", timer |-> TRUE]
  <2>1. m \in Mac /\ 0 \in 0 .. MaxOps
    BY CxmacAssumption DEF Mac, Addr
  <2>2. /\ mac = [n \in Node |-> m] /\ sending = [n \in Node |-> NoSend]
        /\ rx = [n \in Node |-> NoFrame] /\ awake = [n \in Node |-> 0]
        /\ ops = 0 /\ switched = FALSE
    BY DEF Init
  <2>3. NodeOK(m, 0, NoSend) /\ Agrees(m)
    BY DEF NodeOK, AwakeOK, Agrees
  <2> HIDE DEF m
  <2>4. CxmacTypeOK
    <3>1. mac \in [Node -> Mac] /\ sending \in [Node -> Send \cup {NoSend}]
      BY <2>1, <2>2
    <3>2. rx \in Fifo /\ awake \in [Node -> 0 .. 3]
      BY <2>2 DEF Fifo
    <3> QED
      BY <2>1, <2>2, <3>1, <3>2 DEF CxmacTypeOK, Mac, Fifo
  <2> QED
    BY <2>2, <2>3, <2>4 DEF CxmacInv
<1>2. CxmacInv /\ [Next]_vars => CxmacInv'
  <2> SUFFICES ASSUME CxmacInv, [Next]_vars PROVE CxmacInv'
    OBVIOUS
  <2>1. CASE UNCHANGED vars
    BY <2>1 DEF vars, CxmacInv, CxmacTypeOK
  <2>2. ASSUME NEW n \in Node, PowerCycle(n) PROVE CxmacInv'
    BY <2>2, WakeUpInv, FallAsleepInv DEF PowerCycle
  <2>3. ASSUME NEW n \in Node, Drop(n) PROVE CxmacInv'
    BY <2>3, DropInv
  <2>4. ASSUME NEW n \in Node, NEW to \in Addr \ {n}, NEW kind \in Kinds,
               BeginSend(n, to, kind)
        PROVE  CxmacInv'
    BY <2>4, BeginSendInv
  <2>5. ASSUME NEW n \in Node, Listen(n) \/ SendStep(n) PROVE CxmacInv'
    BY <2>5, ListenInv, StrobeInv, EndSendInv DEF SendStep
  <2>6. ASSUME NEW n \in Node, Input(n) PROVE CxmacInv'
    BY <2>6, InputInv
  <2>7. ASSUME NEW n \in Node, TurnOff(n) \/ TurnOn(n) PROVE CxmacInv'
    BY <2>7, TurnOffInv, TurnOnInv
  <2> QED
    BY <2>1, <2>2, <2>3, <2>4, <2>5, <2>6, <2>7 DEF Next
<1> QED
  BY <1>1, <1>2, PTL DEF Spec

\* The static variables of cxmac.c, the locals of send_packet() and the FIFOs keep
\* their ranges; in particular waiting_for_packet and someone_is_sending.
THEOREM CxmacTyping == Spec => []CxmacTypeOK
<1>1. CxmacInv => CxmacTypeOK
  BY DEF CxmacInv
<1> QED
  BY <1>1, CxmacInvariant, PTL

\* Until a program switches the protocol off, radio_is_on tells what the radio does.
THEOREM RadioKnown == Spec => []RadioAgrees
<1>1. CxmacInv => RadioAgrees
  BY DEF CxmacInv, RadioAgrees, Agrees
<1> QED
  BY <1>1, CxmacInvariant, PTL

\* No node leaves its radio on over more than two wake periods in a row.
THEOREM TwoPeriods == Spec => []TwoCycles
<1>1. CxmacInv => TwoCycles
  BY DEF CxmacInv, NodeOK, AwakeOK, TwoCycles
<1> QED
  BY <1>1, CxmacInvariant, PTL
=============================================================================
