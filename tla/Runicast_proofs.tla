-------------------------- MODULE Runicast_proofs --------------------------
(***************************************************************************)
(* Reliable unicast keeps its promise for every number of packet ids,      *)
(* every age that frames reach and every number of messages that           *)
(* RunicastAssumption allows.                                              *)
(*                                                                         *)
(* The argument: a frame of message n is at least as old as the number of  *)
(* messages sent since, so that fewer messages than there are ids lie      *)
(* between it and the next one, and its id tells n.                        *)
(***************************************************************************)
EXTENDS Runicast, TLAPS

Id == 0 .. IdSpan - 1
FrameSet == [n : Nat, id : Id, age : 0 .. MaxAge]

\* The message that sndnxt is the id of: the one being sent, or the next.
current == IF busy THEN count ELSE count + 1

\* Id i was taken d messages before id s.
Behind(i, d, s) == i + d = s \/ i + d = s + IdSpan

\* Frames carry messages that were accepted, and are not younger than the messages
\* that came after theirs.
FramesAge ==
  \A f \in data \cup acks : 1 <= f.n /\ f.n <= count /\ count - f.n <= f.age

\* The id of a frame tells how many messages ago its own was sent.
FramesId ==
  open => \A f \in data \cup acks : Behind(f.id, current - f.n, sndnxt)

AcksDelivered == \A f \in acks : f.n \in delivered

Inv ==
  /\ RunicastTypeOK
  /\ SendingIsArmed
  /\ busy => count >= 1
  /\ FramesAge /\ FramesId /\ AcksDelivered

-----------------------------------------------------------------------------
LEMMA NextIdWraps ==
  ASSUME NEW s \in Id
  PROVE  /\ NextId(s) \in Id
         /\ NextId(s) = IF s + 1 < IdSpan THEN s + 1 ELSE 0
  BY RunicastAssumption, SMT DEF NextId, Id

\* Another message: what was d messages ago is d + 1 messages ago.
LEMMA NextIdBehind ==
  ASSUME NEW s \in Id, NEW i \in Id, NEW d \in Nat, d + 1 < IdSpan, Behind(i, d, s)
  PROVE  Behind(i, d + 1, NextId(s))
  BY RunicastAssumption, NextIdWraps DEF Behind, Id

\* Frames that are too young to have seen all the ids are told apart by theirs.
LEMMA BehindNot ==
  ASSUME NEW i \in Id, NEW d \in Nat, d < IdSpan, Behind(i, d, i)
  PROVE  d = 0
  BY RunicastAssumption DEF Behind, Id

LEMMA AgedFrame ==
  ASSUME NEW F, F \subseteq FrameSet, NEW g \in Aged(F)
  PROVE  /\ g \in FrameSet
         /\ \E f \in F : /\ g.n = f.n /\ g.id = f.id
                         /\ g.age = f.age + 1 /\ f.age < MaxAge
  <1>1. PICK f \in F : f.age < MaxAge /\ g = [f EXCEPT !.age = @ + 1]
    BY DEF Aged
  <1>2. f \in FrameSet
    BY <1>1
  <1> QED
    BY <1>1, <1>2, RunicastAssumption DEF FrameSet

\* What is in the air after a transmission of message b.
LEMMA AirAfter ==
  ASSUME Inv, open, NEW b \in Packet, b.n = current, b.id = sndnxt, OnAir(b)
  PROVE  /\ data' \subseteq FrameSet /\ acks' \subseteq FrameSet
         /\ \A g \in data' \cup acks' :
              /\ 1 <= g.n /\ g.n <= current /\ current - g.n <= g.age
              /\ Behind(g.id, current - g.n, sndnxt)
         /\ \A g \in acks' : g.n \in delivered
  <1>1. /\ data \subseteq FrameSet /\ acks \subseteq FrameSet
        /\ count \in Nat /\ sndnxt \in Id /\ MaxAge \in Nat
        /\ current \in Nat /\ count <= current /\ current <= count + 1
        /\ 1 <= current
    BY RunicastAssumption DEF Inv, RunicastTypeOK, FrameSet, Id, current
  <1> DEFINE new == [n |-> b.n, id |-> b.id, age |-> 0]
  <1>2. new \in FrameSet /\ new.n = current /\ new.id = sndnxt /\ new.age = 0
    BY <1>1 DEF FrameSet
  <1>3. ASSUME NEW F, F \subseteq FrameSet, F \subseteq data \cup acks,
               NEW g \in Aged(F)
        PROVE  /\ g \in FrameSet
               /\ 1 <= g.n /\ g.n <= current /\ current - g.n <= g.age
               /\ Behind(g.id, current - g.n, sndnxt)
               /\ \E f \in F : g.n = f.n
    <2>1. PICK f \in F : /\ g.n = f.n /\ g.id = f.id
                         /\ g.age = f.age + 1 /\ f.age < MaxAge
      BY <1>3, AgedFrame
    <2>2. f \in data \cup acks /\ f \in FrameSet /\ f.n \in Nat /\ f.age \in Nat
      BY <1>3 DEF FrameSet
    <2>3. /\ 1 <= f.n /\ f.n <= count /\ count - f.n <= f.age
          /\ Behind(f.id, current - f.n, sndnxt)
      BY <2>2 DEF Inv, FramesAge, FramesId
    <2>4. g \in FrameSet
      BY <1>3, AgedFrame
    <2> QED
      BY <1>1, <2>1, <2>2, <2>3, <2>4
  <1>4. data' = Aged(data) \cup {new} /\ acks' = Aged(acks)
    BY DEF OnAir
  <1>5. Behind(new.id, current - new.n, sndnxt)
    BY <1>1, <1>2 DEF Behind, Id
  <1>6. \A g \in acks' : g.n \in delivered
    BY <1>1, <1>3, <1>4 DEF Inv, AcksDelivered
  <1>7. ASSUME NEW g \in data' \cup acks'
        PROVE  /\ g \in FrameSet
               /\ 1 <= g.n /\ g.n <= current /\ current - g.n <= g.age
               /\ Behind(g.id, current - g.n, sndnxt)
    <2>1. CASE g = new
      BY <1>1, <1>2, <1>5, <2>1
    <2>2. CASE g \in Aged(data)
      BY <1>1, <1>3, <2>2
    <2>3. CASE g \in Aged(acks)
      BY <1>1, <1>3, <2>3
    <2> QED
      BY <1>4, <2>1, <2>2, <2>3
  <1> QED
    BY <1>6, <1>7

\* The message is over: its frames, and the earlier ones, are one message further
\* behind.
LEMMA FurtherBehind ==
  ASSUME RunicastTypeOK, NEW g \in FrameSet, NEW m \in Nat,
         g.n <= m, m - g.n <= g.age, Behind(g.id, m - g.n, sndnxt)
  PROVE  Behind(g.id, (m + 1) - g.n, NextId(sndnxt))
  <1>1. /\ sndnxt \in Id /\ g.id \in Id /\ g.n \in Nat /\ g.age \in 0 .. MaxAge
        /\ m - g.n \in Nat /\ (m - g.n) + 1 < IdSpan
        /\ (m - g.n) + 1 = (m + 1) - g.n
    BY RunicastAssumption DEF FrameSet, RunicastTypeOK, Id
  <1> HIDE DEF Behind
  <1>2. Behind(g.id, (m - g.n) + 1, NextId(sndnxt))
    BY <1>1, NextIdBehind
  <1> QED
    BY <1>1, <1>2

\* An acknowledgement is accepted only for the message that is being sent.
LEMMA AckIsCurrent ==
  ASSUME Inv, open, NEW a \in acks, Accepted(a)
  PROVE  busy /\ a.n = count /\ count \in delivered
  <1>1. a \in FrameSet /\ a.n \in Nat /\ a.age \in 0 .. MaxAge /\ a.id \in Id
    BY DEF Inv, RunicastTypeOK, FrameSet, Id
  <1>2. /\ 1 <= a.n /\ a.n <= count /\ count - a.n <= a.age
        /\ Behind(a.id, current - a.n, sndnxt)
        /\ a.n \in delivered /\ a.id = sndnxt
    BY DEF Inv, FramesAge, FramesId, AcksDelivered, Accepted
  <1>3. current \in Nat /\ count \in Nat /\ count <= current /\ current <= count + 1
    BY DEF Inv, RunicastTypeOK, current
  <1>4. current - a.n \in Nat /\ current - a.n < IdSpan
    BY <1>1, <1>2, <1>3, RunicastAssumption
  <1>5. current - a.n = 0
    BY <1>1, <1>2, <1>4, BehindNot
  <1> QED
    BY <1>1, <1>2, <1>3, <1>5 DEF current

LEMMA NoBufTyped == NoBuf \in Packet /\ 0 \in Id
  BY RunicastAssumption DEF NoBuf, Packet, Id

-----------------------------------------------------------------------------
LEMMA InitInv == Init => Inv
  <1> SUFFICES ASSUME Init PROVE Inv
    OBVIOUS
  <1>1. RunicastTypeOK
    BY NoBufTyped DEF Init, RunicastTypeOK, Id
  <1>2. SendingIsArmed /\ ~busy
    BY DEF Init, SendingIsArmed, busy
  <1> QED
    BY <1>1, <1>2 DEF Init, Inv, FramesAge, FramesId, AcksDelivered

\* A transmission, of a new message or again.
LEMMA TransmitInv ==
  ASSUME Inv, open, NEW b \in Packet, b.n = current, b.id = sndnxt,
         NEW tx \in Nat, NEW max \in Nat, NEW rearm \in BOOLEAN,
         Transmit(b, tx, max, rearm),
         count' = current, open' = open, delivered' = delivered, confirmed' = confirmed
  PROVE  Inv'
  <1>1. /\ data' \subseteq FrameSet /\ acks' \subseteq FrameSet
        /\ \A g \in data' \cup acks' :
             /\ 1 <= g.n /\ g.n <= current /\ current - g.n <= g.age
             /\ Behind(g.id, current - g.n, sndnxt)
        /\ \A g \in acks' : g.n \in delivered
    BY AirAfter DEF Transmit
  <1>2. FramesAge' /\ AcksDelivered'
    BY <1>1 DEF FramesAge, AcksDelivered
  <1>3. current \in Nat /\ 1 <= current /\ sndnxt \in Id
    BY DEF Inv, RunicastTypeOK, current, Id
  <1>4. CASE tx + 1 < max
    <2>1. /\ is_tx' = TRUE /\ buf' = b /\ max_rxmit' = max /\ rxmit' = tx + 1
          /\ timer' = TRUE /\ sndnxt' = sndnxt /\ failed' = failed
      BY <1>4 DEF Transmit
    <2>2. busy' /\ current' = current
      BY <2>1 DEF busy, current
    <2>3. RunicastTypeOK'
      BY <1>1, <1>3, <2>1 DEF Inv, RunicastTypeOK, FrameSet, Id
    <2>4. SendingIsArmed'
      BY <1>4, <2>1, <2>2 DEF SendingIsArmed
    <2>5. FramesId'
      BY <1>1, <2>1, <2>2 DEF FramesId
    <2> QED
      BY <1>2, <1>3, <2>2, <2>3, <2>4, <2>5 DEF Inv
  <1>5. CASE tx + 1 >= max
    <2>1. /\ is_tx' = FALSE /\ buf' = NoBuf /\ max_rxmit' = max /\ rxmit' = 0
          /\ timer' = rearm /\ sndnxt' = NextId(sndnxt) /\ failed' = failed \cup {b.n}
      BY <1>5 DEF Transmit, GiveUp
    <2>2. ~busy' /\ current' = current + 1
      BY <2>1 DEF busy, current
    <2>3. RunicastTypeOK'
      BY <1>1, <1>3, <2>1, NextIdWraps, NoBufTyped, b.n \in Nat
         DEF Inv, RunicastTypeOK, FrameSet, Id
    <2>4. SendingIsArmed'
      BY <2>1, <2>2 DEF SendingIsArmed
    <2>5. FramesId'
      <3>1. ASSUME NEW g \in data' \cup acks'
            PROVE  Behind(g.id, (current + 1) - g.n, NextId(sndnxt))
        BY <1>1, <1>3, FurtherBehind DEF Inv
      <3> QED
        BY <3>1, <2>1, <2>2 DEF FramesId
    <2> QED
      BY <1>2, <2>2, <2>3, <2>4, <2>5 DEF Inv
  <1> QED
    BY <1>4, <1>5 DEF Transmit

LEMMA SendInv == Inv /\ Send => Inv'
  <1> SUFFICES ASSUME Inv, Send PROVE Inv'
    OBVIOUS
  <1>1. /\ open /\ ~busy /\ current = count + 1 /\ count \in Nat /\ sndnxt \in Id
        /\ count' = current /\ open' = open
        /\ delivered' = delivered /\ confirmed' = confirmed
    BY DEF Send, busy, current, Inv, RunicastTypeOK, Id
  <1>2. PICK max \in Max : Transmit([n |-> count + 1, id |-> sndnxt], 0, max, FALSE)
    BY DEF Send
  <1>3. max \in Nat
    BY RunicastAssumption
  <1> DEFINE b == [n |-> count + 1, id |-> sndnxt]
  <1>4. b \in Packet /\ b.n = current /\ b.id = sndnxt
    BY <1>1 DEF Packet, Id
  <1> QED
    BY <1>1, <1>2, <1>3, <1>4, TransmitInv

\* The packet that is sent again is that of the current message.
LEMMA BufIsCurrent ==
  ASSUME Inv, buf # NoBuf
  PROVE  open /\ busy /\ buf \in Packet /\ buf.n = current /\ buf.id = sndnxt
  BY DEF Inv, SendingIsArmed, RunicastTypeOK, busy, current

LEMMA ExpireInv == Inv /\ Expire => Inv'
  <1> SUFFICES ASSUME Inv, Expire PROVE Inv'
    OBVIOUS
  <1>1. CASE buf = NoBuf
    <2>1. ~busy
      BY <1>1 DEF Inv, SendingIsArmed, NoBuf
    <2>2. /\ timer' = FALSE
          /\ UNCHANGED << data, acks, sndnxt, is_tx, rxmit, max_rxmit, buf, failed,
                          open, count, delivered, confirmed >>
      <3>1. ~(buf # NoBuf)
        BY <1>1
      <3> QED
        BY <3>1 DEF Expire, Resend, air
    <2> QED
      BY <2>1, <2>2
         DEF Inv, RunicastTypeOK, SendingIsArmed, busy, FramesAge, FramesId, current,
             AcksDelivered
  <1>2. CASE buf # NoBuf
    <2>1. open /\ busy /\ buf \in Packet /\ buf.n = current /\ buf.id = sndnxt
      BY <1>2, BufIsCurrent
    <2>2. /\ Transmit(buf, rxmit, max_rxmit, TRUE)
          /\ count' = current /\ open' = open
          /\ delivered' = delivered /\ confirmed' = confirmed
      BY <1>2, <2>1 DEF Expire, Resend, current
    <2>3. rxmit \in Nat /\ max_rxmit \in Nat
      BY DEF Inv, RunicastTypeOK
    <2> QED
      BY <2>1, <2>2, <2>3, TransmitInv
  <1> QED
    BY <1>1, <1>2

LEMMA ReceiveDataInv == Inv /\ ReceiveData => Inv'
  <1> SUFFICES ASSUME Inv, ReceiveData PROVE Inv'
    OBVIOUS
  <1>1. PICK f \in data : acks' = acks \cup {f} /\ delivered' = delivered \cup {f.n}
    BY DEF ReceiveData
  <1>2. /\ data' = data /\ UNCHANGED << sndnxt, is_tx, rxmit, max_rxmit, buf, timer, open >>
        /\ UNCHANGED << count, confirmed, failed >>
    BY DEF ReceiveData, sender, reports
  <1>3. busy' = busy /\ current' = current
    BY <1>2 DEF busy, current
  <1>4. RunicastTypeOK'
    BY <1>1, <1>2 DEF Inv, RunicastTypeOK
  <1>5. SendingIsArmed'
    BY <1>2, <1>3 DEF Inv, SendingIsArmed
  <1>6. FramesAge' /\ FramesId' /\ AcksDelivered'
    BY <1>1, <1>2, <1>3 DEF Inv, FramesAge, FramesId, AcksDelivered
  <1> QED
    BY <1>2, <1>3, <1>4, <1>5, <1>6 DEF Inv

LEMMA ReceiveAckInv == Inv /\ ReceiveAck => Inv'
  <1> SUFFICES ASSUME Inv, ReceiveAck PROVE Inv'
    OBVIOUS
  <1>1. PICK a \in acks : AckTaken(a) \/ AckBad(a)
    BY DEF ReceiveAck
  <1>2. open /\ data' = data /\ acks' = acks /\ delivered' = delivered
    BY DEF ReceiveAck, air
  <1>3. CASE AckBad(a)
    BY <1>2, <1>3
       DEF AckBad, sender, reports, Inv, RunicastTypeOK, SendingIsArmed, busy,
           FramesAge, FramesId, current, AcksDelivered
  <1>4. CASE AckTaken(a)
    <2>1. /\ sndnxt' = NextId(sndnxt) /\ is_tx' = FALSE
          /\ timer' = FALSE /\ buf' = NoBuf
          /\ confirmed' = confirmed \cup {count}
          /\ UNCHANGED << rxmit, max_rxmit, open, count, failed >>
      BY <1>4 DEF AckTaken
    <2>2. busy
      BY <1>2, <1>4, AckIsCurrent DEF AckTaken
    <2>3. ~busy' /\ current = count /\ current' = count + 1
      BY <2>1, <2>2 DEF busy, current
    <2>4. sndnxt \in Id /\ count \in Nat /\ data \cup acks \subseteq FrameSet
      BY DEF Inv, RunicastTypeOK, Id, FrameSet
    <2>5. RunicastTypeOK'
      BY <1>2, <2>1, <2>4, NextIdWraps, NoBufTyped
         DEF Inv, RunicastTypeOK, Id
    <2>6. SendingIsArmed'
      BY <2>1, <2>3 DEF SendingIsArmed
    <2>7. FramesId'
      <3>1. ASSUME NEW g \in data \cup acks
            PROVE  Behind(g.id, (count + 1) - g.n, NextId(sndnxt))
        <4>1. g.n <= count /\ count - g.n <= g.age /\ Behind(g.id, count - g.n, sndnxt)
          BY <1>2, <2>3 DEF Inv, FramesAge, FramesId
        <4> QED
          BY <2>4, <4>1, FurtherBehind DEF Inv
      <3> QED
        BY <1>2, <2>1, <2>3, <3>1 DEF FramesId
    <2>8. FramesAge' /\ AcksDelivered'
      BY <1>2, <2>1 DEF Inv, FramesAge, AcksDelivered
    <2> QED
      BY <2>3, <2>5, <2>6, <2>7, <2>8 DEF Inv
  <1> QED
    BY <1>1, <1>3, <1>4

LEMMA OtherInv == Inv /\ (SendFails \/ Close \/ Open \/ UNCHANGED vars) => Inv'
  <1> SUFFICES ASSUME Inv PROVE SendFails \/ Close \/ Open \/ UNCHANGED vars => Inv'
    OBVIOUS
  <1> USE DEF Inv, RunicastTypeOK, SendingIsArmed, busy, FramesAge, FramesId, current,
              AcksDelivered
  <1>1. CASE SendFails
    <2>1. PICK max \in Max : max_rxmit' = max
      BY <1>1 DEF SendFails
    <2>2. max \in Nat
      BY RunicastAssumption
    <2> QED
      BY <1>1, <2>1, <2>2, NoBufTyped
         DEF SendFails, air, reports
  <1>2. CASE Close
    BY <1>2, NoBufTyped DEF Close, air, reports
  <1>3. CASE Open
    BY <1>3, NoBufTyped DEF Open, reports, Id
  <1>4. CASE UNCHANGED vars
    BY <1>4 DEF vars, air, sender, reports
  <1> QED
    BY <1>1, <1>2, <1>3, <1>4

LEMMA NextInv == Inv /\ [Next]_vars => Inv'
  BY SendInv, ExpireInv, ReceiveDataInv, ReceiveAckInv, OtherInv DEF Next

LEMMA SpecInv == Spec => []Inv
  BY InitInv, NextInv, PTL DEF Spec

-----------------------------------------------------------------------------
\* The variables of a connection and the frames in the air keep their types
\* (runicast_send, sent_by_stunicast, recv_from_stunicast, runicast_open).
THEOREM RunicastTyping == Spec => []RunicastTypeOK
  <1>1. Inv => RunicastTypeOK
    BY DEF Inv
  <1> QED
    BY <1>1, SpecInv, PTL

\* A message that is being sent has its packet in a buffer, under the id that is
\* expected in its acknowledgement, and the timer set; otherwise the buffer is free
\* (stunicast_cancel, send).
THEOREM SendingArmed == Spec => []SendingIsArmed
  <1>1. Inv => SendingIsArmed
    BY DEF Inv
  <1> QED
    BY <1>1, SpecInv, PTL

\* runicast.c over stunicast.c implements reliable unicast: what is reported as sent
\* was received, and every message has at most one outcome, although ids are used
\* again and frames are late, repeated and lost (runicast_send, sent_by_stunicast,
\* recv_from_stunicast).
THEOREM RunicastIsReliable == Spec => RunicastReliable
  <1>1. Init => RU!Init
    BY DEF Init, RU!Init, busy
  <1>2. Inv /\ [Next]_vars => [RU!Next]_RU!vars
    <2> SUFFICES ASSUME Inv, [Next]_vars PROVE [RU!Next]_RU!vars
      OBVIOUS
    <2>1. CASE Send
      <3>1. /\ open /\ ~busy /\ count' = count + 1 /\ open' = open
            /\ delivered' = delivered /\ confirmed' = confirmed
        BY <2>1 DEF Send, busy
      <3>2. PICK max \in Max : Transmit([n |-> count + 1, id |-> sndnxt], 0, max, FALSE)
        BY <2>1 DEF Send
      <3>3. \/ is_tx' = TRUE /\ failed' = failed
            \/ is_tx' = FALSE /\ failed' = failed \cup {count + 1}
        BY <3>2 DEF Transmit, GiveUp
      <3>4. RU!Send \/ RU!SendInVain
        BY <3>1, <3>3 DEF RU!Send, RU!SendInVain, busy
      <3> QED
        BY <3>4 DEF RU!Next
    <2>2. CASE Expire
      <3>1. open' = open /\ UNCHANGED << count, delivered, confirmed >>
        BY <2>2 DEF Expire
      <3>2. CASE buf = NoBuf
        <4>1. ~(buf # NoBuf)
          BY <3>2
        <4>2. is_tx' = is_tx /\ failed' = failed
          BY <2>2, <4>1 DEF Expire, Resend
        <4> QED
          BY <3>1, <4>2 DEF RU!vars, busy
      <3>3. CASE buf # NoBuf
        <4>1. open /\ busy /\ buf.n = count
          BY <3>3, BufIsCurrent DEF current
        <4>2. \/ is_tx' = TRUE /\ failed' = failed
              \/ is_tx' = FALSE /\ failed' = failed \cup {count}
          BY <2>2, <3>3, <4>1 DEF Expire, Resend, Transmit, GiveUp
        <4>3. RU!GiveUp \/ UNCHANGED RU!vars
          BY <3>1, <4>1, <4>2 DEF RU!GiveUp, RU!vars, busy
        <4> QED
          BY <4>3 DEF RU!Next
      <3> QED
        BY <3>2, <3>3
    <2>3. CASE ReceiveData
      <3>1. PICK f \in data : delivered' = delivered \cup {f.n}
        BY <2>3 DEF ReceiveData
      <3>2. f.n \in 1 .. count
        BY DEF Inv, FramesAge, RunicastTypeOK
      <3>3. busy' = busy /\ UNCHANGED << count, confirmed, failed >>
        BY <2>3 DEF ReceiveData, sender, reports, busy
      <3>4. RU!Deliver
        BY <3>1, <3>2, <3>3 DEF RU!Deliver
      <3> QED
        BY <3>4 DEF RU!Next
    <2>4. CASE ReceiveAck
      <3>1. PICK a \in acks : AckTaken(a) \/ AckBad(a)
        BY <2>4 DEF ReceiveAck
      <3>2. open /\ delivered' = delivered
        BY <2>4 DEF ReceiveAck
      <3>3. CASE AckBad(a)
        BY <3>2, <3>3 DEF AckBad, sender, reports, RU!vars, busy
      <3>4. CASE AckTaken(a)
        <4>1. busy /\ count \in delivered
          BY <3>2, <3>4, AckIsCurrent DEF AckTaken
        <4>2. RU!Confirm
          BY <3>2, <3>4, <4>1 DEF AckTaken, RU!Confirm, busy
        <4> QED
          BY <4>2 DEF RU!Next
      <3> QED
        BY <3>1, <3>3, <3>4
    <2>5. CASE Close
      <3>1. RU!Abandon \/ UNCHANGED RU!vars
        BY <2>5 DEF Close, reports, RU!Abandon, RU!vars, busy
      <3> QED
        BY <3>1 DEF RU!Next
    <2>6. CASE SendFails \/ Open \/ UNCHANGED vars
      BY <2>6 DEF SendFails, Open, vars, sender, reports, RU!vars, busy
    <2> QED
      BY <2>1, <2>2, <2>3, <2>4, <2>5, <2>6 DEF Next
  <1> QED
    BY <1>1, <1>2, SpecInv, PTL DEF Spec, RunicastReliable, RU!Spec
=============================================================================
