--------------------------- MODULE Process_proofs ---------------------------
(***************************************************************************)
(* Proofs about EventQueue and Process.                                    *)
(*                                                                         *)
(* The event ring: for every ring size and every counter width that        *)
(* QueueAssumption allows, the ring of process.c is type correct, never    *)
(* delivers a slot that was not filled, and implements the bounded FIFO    *)
(* queue.                                                                  *)
(*                                                                         *)
(* The kernel: its types, and that a thread always finds its own process   *)
(* in process_current.  The invariant is about the whole call stack: what  *)
(* a frame saved is right for the frame below it, so that it is right to   *)
(* restore it when the frame is popped.                                    *)
(***************************************************************************)
EXTENDS Process, SequenceTheorems, TLAPS

\* Below the modulus the remainder is the number itself.
LEMMA ModSmall ==
  ASSUME NEW a \in Nat, NEW n \in Nat \ {0}, a < n
  PROVE  a % n = a
  BY SMT

\* Between the modulus and its double the remainder is the excess.
LEMMA ModWrap ==
  ASSUME NEW a \in Nat, NEW n \in Nat \ {0}, n <= a, a < 2 * n
  PROVE  a % n = a - n
  BY SMT

\* Where the slots of the ring are, as a case distinction.
LEMMA SlotArithmetic ==
  ASSUME NEW f \in Slot, NEW k \in 0 .. NUMEVENTS
  PROVE  (f + k) % NUMEVENTS =
           IF f + k < NUMEVENTS THEN f + k ELSE f + k - NUMEVENTS
  <1>1. NUMEVENTS \in Nat \ {0} /\ f + k \in Nat /\ f + k < 2 * NUMEVENTS
    BY QueueAssumption DEF Slot
  <1>2. CASE f + k < NUMEVENTS
    BY <1>1, <1>2, ModSmall
  <1>3. CASE ~(f + k < NUMEVENTS)
    <2> DEFINE a == f + k
    <2>1. a \in Nat /\ NUMEVENTS <= a /\ a < 2 * NUMEVENTS
      BY <1>1, <1>3
    <2> HIDE DEF a
    <2>2. a % NUMEVENTS = a - NUMEVENTS
      BY <1>1, <2>1, ModWrap
    <2>3. (f + k) % NUMEVENTS = (f + k) - NUMEVENTS
      BY <2>2, Zenon DEF a
    <2>4. (f + k) - NUMEVENTS = f + k - NUMEVENTS
      BY QueueAssumption DEF Slot
    <2> QED
      BY <1>3, <2>3, <2>4, Zenon
  <1> QED
    BY <1>2, <1>3

\* The reduction to the counter's width changes nothing when a slot is free:
\* process_post() fills the slot behind the last waiting message.
LEMMA PostSlotFree ==
  ASSUME QueueTypeOK, ~QueueFull
  PROVE  /\ PostSlot \in Slot
         /\ PostSlot = IF fevent + nevents < NUMEVENTS
                         THEN fevent + nevents
                         ELSE fevent + nevents - NUMEVENTS
         /\ (nevents + 1) % NumSpan = nevents + 1
  <1>1. /\ fevent \in Nat /\ nevents \in Nat /\ NUMEVENTS \in Nat \ {0}
        /\ NumSpan \in Nat \ {0}
        /\ fevent < NUMEVENTS /\ nevents < NUMEVENTS
        /\ fevent + nevents < NumSpan /\ nevents + 1 < NumSpan
    BY QueueAssumption DEF QueueTypeOK, QueueFull, Slot
  <1>2. (fevent + nevents) % NumSpan = fevent + nevents
    BY <1>1, ModSmall
  <1>3. (nevents + 1) % NumSpan = nevents + 1
    BY <1>1, ModSmall
  <1>4. fevent \in Slot /\ nevents \in 0 .. NUMEVENTS
    BY DEF QueueTypeOK
  <1>5. (fevent + nevents) % NUMEVENTS =
           IF fevent + nevents < NUMEVENTS
             THEN fevent + nevents ELSE fevent + nevents - NUMEVENTS
    BY <1>4, SlotArithmetic
  <1>6. PostSlot = (fevent + nevents) % NUMEVENTS
    BY <1>2 DEF PostSlot
  <1> QED
    BY <1>1, <1>3, <1>5, <1>6 DEF Slot

-----------------------------------------------------------------------------
\* Each operation of the queue keeps the indices inside the ring and the
\* waiting positions filled.
QueueInv == QueueTypeOK /\ WaitingAreMessages

\* The waiting messages as a sequence, in this state and in the next.
LEMMA WaitingIsSeq ==
  QueueInv => Waiting \in Seq(Message) /\ Len(Waiting) = nevents
  BY DEF Waiting, QueueInv, WaitingAreMessages, QueueTypeOK

LEMMA WaitingIsSeqNext ==
  QueueInv' => Waiting' \in Seq(Message) /\ Len(Waiting') = nevents'
  BY DEF Waiting, QueueInv, WaitingAreMessages, QueueTypeOK

LEMMA PostOkInv ==
  ASSUME QueueInv, NEW m \in Message, PostOk(m)
  PROVE  QueueInv' /\ Waiting' = Append(Waiting, m)
  <1> USE DEF QueueInv
  <1>1. /\ PostSlot \in Slot
        /\ PostSlot = IF fevent + nevents < NUMEVENTS
                        THEN fevent + nevents
                        ELSE fevent + nevents - NUMEVENTS
        /\ nevents' = nevents + 1 /\ fevent' = fevent
        /\ events' = [events EXCEPT ![PostSlot] = m]
        /\ nevents < NUMEVENTS
    BY PostSlotFree, QueueAssumption DEF PostOk, QueueTypeOK, QueueFull
  <1>2. QueueTypeOK'
    BY <1>1, QueueAssumption DEF QueueTypeOK
  <1>3. (fevent + nevents) % NUMEVENTS = PostSlot
    BY <1>1, SlotArithmetic, QueueAssumption DEF QueueTypeOK
  <1>4. ASSUME NEW i \in 1 .. nevents
        PROVE  (fevent + (i - 1)) % NUMEVENTS \in Slot \ {PostSlot}
    <2>1. i - 1 \in 0 .. NUMEVENTS
      BY <1>1, QueueAssumption DEF QueueTypeOK
    <2>2. (fevent + (i - 1)) % NUMEVENTS =
             IF fevent + (i - 1) < NUMEVENTS
               THEN fevent + (i - 1) ELSE fevent + (i - 1) - NUMEVENTS
      BY <2>1, SlotArithmetic DEF QueueTypeOK
    <2> QED
      BY <1>1, <2>2, QueueAssumption DEF QueueTypeOK, Slot
  <1>5. Waiting \in Seq(Message) /\ Len(Waiting) = nevents
    BY WaitingIsSeq
  <1>6. Waiting' = [i \in 1 .. nevents + 1 |->
                      events'[(fevent + (i - 1)) % NUMEVENTS]]
    BY <1>1 DEF Waiting
  <1>7. ASSUME NEW i \in 1 .. nevents
        PROVE  Waiting'[i] = Waiting[i]
    BY <1>1, <1>4, <1>6 DEF Waiting, QueueTypeOK
  <1>8. Waiting'[nevents + 1] = m
    <2>1. nevents + 1 \in 1 .. nevents + 1 /\ (nevents + 1) - 1 = nevents
      BY DEF QueueTypeOK
    <2> QED
      BY <2>1, <1>1, <1>3, <1>6 DEF QueueTypeOK
  <1>9. WaitingAreMessages'
    BY <1>1, <1>5, <1>7, <1>8 DEF WaitingAreMessages, QueueTypeOK
  <1>10. Waiting' = Append(Waiting, m)
    <2>1. Waiting' \in Seq(Message) /\ Len(Waiting') = nevents + 1
      BY <1>1, <1>2, <1>9, WaitingIsSeqNext
    <2>2. /\ Append(Waiting, m) \in Seq(Message)
          /\ Len(Append(Waiting, m)) = nevents + 1
          /\ \A i \in 1 .. nevents : Append(Waiting, m)[i] = Waiting[i]
          /\ Append(Waiting, m)[nevents + 1] = m
      BY <1>5, AppendProperties
    <2>3. ASSUME NEW i \in 1 .. nevents + 1
          PROVE  Waiting'[i] = Append(Waiting, m)[i]
      BY <1>7, <1>8, <2>2 DEF QueueTypeOK
    <2> QED
      BY <2>1, <2>2, <2>3, SeqEqual
  <1> QED
    BY <1>2, <1>9, <1>10

LEMMA TakeEventInv ==
  ASSUME QueueInv, TakeEvent
  PROVE  /\ QueueInv'
         /\ Waiting # << >>
         /\ Waiting' = Tail(Waiting)
         /\ NextMessage = Head(Waiting)
  <1> USE DEF QueueInv
  <1>1. /\ nevents > 0 /\ nevents' = nevents - 1
        /\ fevent' = (fevent + 1) % NUMEVENTS /\ events' = events
    BY DEF TakeEvent
  <1>2. (fevent + 1) % NUMEVENTS =
           IF fevent + 1 < NUMEVENTS THEN fevent + 1 ELSE fevent + 1 - NUMEVENTS
    BY SlotArithmetic, QueueAssumption DEF QueueTypeOK
  <1>3. QueueTypeOK'
    BY <1>1, <1>2, QueueAssumption DEF QueueTypeOK, Slot
  <1>4. /\ Waiting \in Seq(Message) /\ Len(Waiting) = nevents
        /\ Waiting # << >>
    BY <1>1, WaitingIsSeq DEF QueueTypeOK
  <1>5. ASSUME NEW i \in 1 .. nevents - 1
        PROVE  (((fevent + 1) % NUMEVENTS) + (i - 1)) % NUMEVENTS =
                 (fevent + ((i + 1) - 1)) % NUMEVENTS
    <2>1. i \in 0 .. NUMEVENTS /\ i - 1 \in 0 .. NUMEVENTS
           /\ (fevent + 1) % NUMEVENTS \in Slot
      BY <1>1, <1>3, QueueAssumption DEF QueueTypeOK
    <2>2. (fevent + i) % NUMEVENTS =
             IF fevent + i < NUMEVENTS THEN fevent + i ELSE fevent + i - NUMEVENTS
      BY <2>1, SlotArithmetic DEF QueueTypeOK
    <2>3. (((fevent + 1) % NUMEVENTS) + (i - 1)) % NUMEVENTS =
             IF ((fevent + 1) % NUMEVENTS) + (i - 1) < NUMEVENTS
               THEN ((fevent + 1) % NUMEVENTS) + (i - 1)
               ELSE ((fevent + 1) % NUMEVENTS) + (i - 1) - NUMEVENTS
      BY <2>1, SlotArithmetic
    <2>4. (i + 1) - 1 = i
      BY <2>1
    <2>5. fevent \in 0 .. NUMEVENTS - 1 /\ nevents \in 0 .. NUMEVENTS
      BY DEF QueueTypeOK, Slot
    <2> QED
      BY <2>1, <2>2, <2>3, <2>4, <2>5, <1>2, QueueAssumption DEF Slot
  <1>6. ASSUME NEW i \in 1 .. nevents - 1
        PROVE  Waiting'[i] = Waiting[i + 1]
    <2>1. Waiting' = [j \in 1 .. nevents - 1 |->
                        events[(((fevent + 1) % NUMEVENTS) + (j - 1)) % NUMEVENTS]]
      BY <1>1 DEF Waiting
    <2>2. i + 1 \in 1 .. nevents
      BY <1>1 DEF QueueTypeOK
    <2>3. Waiting[i + 1] = events[(fevent + ((i + 1) - 1)) % NUMEVENTS]
      BY <2>2 DEF Waiting
    <2> QED
      BY <2>1, <2>3, <1>5
  <1>7. WaitingAreMessages' /\ Waiting' = Tail(Waiting)
    <2>1. WaitingAreMessages'
      BY <1>1, <1>4, <1>6 DEF WaitingAreMessages, QueueTypeOK
    <2>2. Waiting' \in Seq(Message) /\ Len(Waiting') = nevents - 1
      BY <1>1, <1>3, <2>1, WaitingIsSeqNext
    <2>3. /\ Tail(Waiting) \in Seq(Message)
          /\ Len(Tail(Waiting)) = nevents - 1
          /\ \A i \in 1 .. nevents - 1 : Tail(Waiting)[i] = Waiting[i + 1]
      BY <1>4, HeadTailProperties
    <2> QED
      BY <1>6, <2>1, <2>2, <2>3, SeqEqual
  <1>8. NextMessage = Head(Waiting) /\ Waiting # << >>
    <2>1. fevent + (1 - 1) = fevent /\ 1 \in 1 .. nevents
      BY <1>1 DEF QueueTypeOK, Slot
    <2>2. fevent % NUMEVENTS = fevent
      BY ModSmall, QueueAssumption DEF QueueTypeOK, Slot
    <2>3. Waiting[1] = events[fevent]
      BY <2>1, <2>2 DEF Waiting
    <2> QED
      BY <2>3, <1>1, <1>4 DEF NextMessage
  <1> QED
    BY <1>3, <1>7, <1>8

\* The inductive step: every operation of the queue keeps QueueInv.
LEMMA QueueNextInv == QueueInv /\ [QueueNext]_queueVars => QueueInv'
  <1> SUFFICES ASSUME QueueInv, [QueueNext]_queueVars
               PROVE  QueueInv'
    OBVIOUS
  <1>1. ASSUME NEW m \in Message, PostOk(m) PROVE QueueInv'
    BY <1>1, PostOkInv
  <1>2. ASSUME UNCHANGED queueVars PROVE QueueInv'
    BY <1>2 DEF QueueInv, QueueTypeOK, WaitingAreMessages, Waiting, queueVars
  <1>3. CASE PostFull
    BY <1>2, <1>3 DEF PostFull
  <1>4. CASE TakeEvent
    BY <1>4, TakeEventInv
  <1> QED
    BY <1>1, <1>2, <1>3, <1>4 DEF QueueNext

LEMMA QueueInitInv == QueueInit => QueueInv /\ Waiting = << >>
  <1> SUFFICES ASSUME QueueInit PROVE QueueInv /\ Waiting = << >>
    OBVIOUS
  <1>1. QueueTypeOK
    BY QueueAssumption DEF QueueInit, QueueTypeOK, Slot
  <1>2. nevents = 0
    BY DEF QueueInit
  <1>3. WaitingAreMessages
    BY <1>2 DEF WaitingAreMessages
  <1>4. Waiting = << >>
    BY <1>2 DEF Waiting
  <1> QED
    BY <1>1, <1>3, <1>4 DEF QueueInv

-----------------------------------------------------------------------------
\* fevent and nevents never leave the ring, whatever is posted and taken.
THEOREM QueueTyping == QueueSpec => []QueueTypeOK
  <1>1. QueueInv => QueueTypeOK
    BY DEF QueueInv
  <1> QED
    BY <1>1, QueueInitInv, QueueNextInv, PTL DEF QueueSpec

\* do_event() only ever takes slots that process_post() filled.
THEOREM QueueSafe == QueueSpec => []WaitingAreMessages
  <1>1. QueueInv => WaitingAreMessages
    BY DEF QueueInv
  <1> QED
    BY <1>1, QueueInitInv, QueueNextInv, PTL DEF QueueSpec

\* The ring of process.c implements the bounded FIFO queue: every step of the
\* ring is a step of the abstract queue on the messages waiting in it.
THEOREM RingIsFifo == QueueSpec => FifoSpec
  <1>1. QueueInit => Fifo!Init
    BY QueueInitInv DEF Fifo!Init
  <1>2. QueueInv /\ [QueueNext]_queueVars => [Fifo!Next]_Waiting
    <2> SUFFICES ASSUME QueueInv, [QueueNext]_queueVars
                 PROVE  [Fifo!Next]_Waiting
      OBVIOUS
    <2>1. Waiting \in Seq(Message) /\ Len(Waiting) = nevents
      BY DEF Waiting, QueueInv, WaitingAreMessages, QueueTypeOK
    <2>2. ASSUME NEW m \in Message, PostOk(m) PROVE Fifo!Put(m)
      <3>1. Len(Waiting) < NUMEVENTS
        BY <2>1, <2>2, QueueAssumption
           DEF PostOk, QueueFull, QueueInv, QueueTypeOK
      <3> QED
        BY <3>1, <2>2, PostOkInv DEF Fifo!Put
    <2>3. CASE UNCHANGED queueVars
      BY <2>3 DEF queueVars, Waiting
    <2>4. CASE PostFull
      BY <2>4 DEF PostFull, queueVars, Waiting
    <2>5. CASE TakeEvent
      BY <2>5, TakeEventInv DEF Fifo!Get, Fifo!Next
    <2>6. ASSUME NEW m \in Message, PostOk(m) PROVE Fifo!Next
      BY <2>2, <2>6 DEF Fifo!Next
    <2> QED
      BY <2>3, <2>4, <2>5, <2>6 DEF QueueNext
  <1> QED
    BY <1>1, <1>2, QueueInitInv, QueueNextInv, PTL
       DEF QueueSpec, FifoSpec, Fifo!Spec

-----------------------------------------------------------------------------
MainLabels == {"boot", "run", "event"}

\* The labels of functions that hold a saved process_current.
SaveLabels == {"synch", "exit", "tell", "tellnext", "unlink", "context"}

\* The labels at which p, or the cursor q, is not the null pointer.
PLabels == {"call", "mark", "calling", "done", "exiting", "thread", "context",
            "exit", "tell", "tellnext", "unlink"}
QLabels == {"ready", "claim", "pollnext", "bcall", "bnext", "tellnext"}

GoodFrame ==
  {f \in Frame : /\ f.at \in PLabels => f.p \in Proc
                 /\ f.at \in QLabels => f.q \in Proc}

\* g may stand on f: the code of a thread is only left for a call, or a block,
\* that saved the code's own process, and nothing is called before
\* process_current is set.
Linked(f, g) ==
  /\ f.at \notin {"mark", "exit"}
  /\ f.at \in {"thread", "context"} => g.at \in SaveLabels /\ g.saved = f.p

Well(s) ==
  /\ s \in Seq(GoodFrame) /\ s # << >>
  /\ s[1].at \in MainLabels
  /\ \A i \in 1 .. Len(s) - 1 : Linked(s[i], s[i + 1])

\* What the executing function knows about process_current.
TopOK(f, current) ==
  /\ f.at \in {"mark", "thread", "context"} => current = f.p
  /\ f.at = "exit" => current = f.saved

StackInv == Well(stack) /\ TopOK(Top, process_current)

DataInv ==
  /\ QueueInv
  /\ process_list \in Pointer
  /\ next \in [Proc -> Pointer]
  /\ state \in [Proc -> State]
  /\ needspoll \in [Proc -> BOOLEAN]
  /\ process_current \in Pointer
  /\ poll_requested \in BOOLEAN

ProcInv == DataInv /\ StackInv

\* f may take the place of t at the top of the stack.
Continues(t, f) ==
  /\ t.at \in MainLabels => f.at \in MainLabels
  /\ t.at \in SaveLabels => f.at \in SaveLabels /\ f.saved = t.saved

-----------------------------------------------------------------------------
\* The top of a well-formed stack.
LEMMA TopOf ==
  ASSUME NEW s, Well(s)
  PROVE  /\ Len(s) \in Nat \ {0}
         /\ s[Len(s)] \in GoodFrame
         /\ \A i \in 1 .. Len(s) : s[i] \in GoodFrame
         /\ Len(s) = 1 => s[Len(s)].at \in MainLabels
BY EmptySeq DEF Well

\* A function that goes on to its next statement keeps the stack well formed.
LEMMA ReplaceWell ==
  ASSUME NEW s, Well(s), NEW f \in GoodFrame, Continues(s[Len(s)], f)
  PROVE  LET r == [s EXCEPT ![Len(s)] = f]
         IN  Well(r) /\ Len(r) = Len(s) /\ r[Len(r)] = f
<1> DEFINE r == [s EXCEPT ![Len(s)] = f]
<1>1. Len(s) \in Nat \ {0} /\ s \in Seq(GoodFrame)
  BY TopOf DEF Well
<1>2. /\ r \in Seq(GoodFrame) /\ Len(r) = Len(s)
      /\ \A j \in 1 .. Len(s) : r[j] = IF j = Len(s) THEN f ELSE s[j]
  BY <1>1, ExceptSeq
<1> HIDE DEF r
<1>3. r # << >>
  BY <1>1, <1>2, EmptySeq
<1>4. r[1].at \in MainLabels
  BY <1>1, <1>2 DEF Well, Continues
<1>5. ASSUME NEW i \in 1 .. Len(r) - 1 PROVE Linked(r[i], r[i + 1])
  <2>1. Linked(s[i], s[i + 1])
    BY <1>2, <1>5 DEF Well
  <2>2. r[i] = s[i]
    BY <1>1, <1>2, <1>5
  <2>3. CASE i + 1 = Len(s)
    BY <2>1, <2>2, <2>3, <1>1, <1>2 DEF Linked, Continues
  <2>4. CASE i + 1 # Len(s)
    BY <2>1, <2>2, <2>4, <1>1, <1>2, <1>5
  <2> QED
    BY <2>3, <2>4
<1>6. r[Len(r)] = f
  BY <1>1, <1>2
<1> QED
  BY <1>2, <1>3, <1>4, <1>5, <1>6 DEF Well, r

\* So does a call.
LEMMA PushWell ==
  ASSUME NEW s, Well(s), NEW f \in GoodFrame, Linked(s[Len(s)], f)
  PROVE  LET r == Append(s, f)
         IN  Well(r) /\ Len(r) = Len(s) + 1 /\ r[Len(r)] = f
<1> DEFINE r == Append(s, f)
<1>1. Len(s) \in Nat \ {0} /\ s \in Seq(GoodFrame)
  BY TopOf DEF Well
<1>2. /\ r \in Seq(GoodFrame) /\ Len(r) = Len(s) + 1
      /\ \A j \in 1 .. Len(s) : r[j] = s[j]
      /\ r[Len(s) + 1] = f
  BY <1>1
<1> HIDE DEF r
<1>3. r # << >>
  BY <1>1, <1>2, EmptySeq
<1>4. r[1].at \in MainLabels
  BY <1>1, <1>2 DEF Well
<1>5. ASSUME NEW i \in 1 .. Len(r) - 1 PROVE Linked(r[i], r[i + 1])
  <2>1. CASE i = Len(s)
    BY <2>1, <1>1, <1>2
  <2>2. CASE i # Len(s)
    <3>1. i \in 1 .. Len(s) - 1 /\ r[i] = s[i] /\ r[i + 1] = s[i + 1]
      BY <2>2, <1>1, <1>2, <1>5
    <3> QED
      BY <3>1 DEF Well
  <2> QED
    BY <2>1, <2>2
<1> QED
  BY <1>2, <1>3, <1>4, <1>5 DEF Well, r

\* A return uncovers the caller, to which the popped frame is linked.
LEMMA PopWell ==
  ASSUME NEW s, Well(s), s[Len(s)].at \notin MainLabels
  PROVE  LET r == SubSeq(s, 1, Len(s) - 1)
         IN  /\ Len(s) > 1
             /\ Well(r) /\ Len(r) = Len(s) - 1 /\ r[Len(r)] = s[Len(s) - 1]
             /\ Linked(s[Len(s) - 1], s[Len(s)])
<1> DEFINE r == SubSeq(s, 1, Len(s) - 1)
<1>1. Len(s) \in Nat \ {0} /\ s \in Seq(GoodFrame) /\ Len(s) > 1
  BY TopOf DEF Well
<1>2. /\ r \in Seq(GoodFrame) /\ Len(r) = Len(s) - 1
      /\ \A j \in 1 .. Len(s) - 1 : r[j] = s[j]
  <2>1. \A i \in 1 .. Len(s) - 1 : s[i] \in GoodFrame
    BY TopOf, <1>1
  <2> QED
    BY <2>1, <1>1, SubSeqProperties
<1> HIDE DEF r
<1>3. r # << >>
  BY <1>1, <1>2, EmptySeq
<1>4. r[1].at \in MainLabels
  BY <1>1, <1>2 DEF Well
<1>5. ASSUME NEW i \in 1 .. Len(r) - 1 PROVE Linked(r[i], r[i + 1])
  <2>1. i \in 1 .. Len(s) - 1 /\ r[i] = s[i] /\ r[i + 1] = s[i + 1]
    BY <1>1, <1>2, <1>5
  <2> QED
    BY <2>1 DEF Well
<1>6. Linked(s[Len(s) - 1], s[Len(s)])
  <2>1. Len(s) - 1 \in 1 .. Len(s) - 1 /\ (Len(s) - 1) + 1 = Len(s)
    BY <1>1
  <2> QED
    BY <2>1 DEF Well
<1>7. r[Len(r)] = s[Len(s) - 1]
  BY <1>1, <1>2
<1> QED
  BY <1>1, <1>2, <1>3, <1>4, <1>5, <1>6, <1>7 DEF Well, r

-----------------------------------------------------------------------------
\* The executing function goes on to another statement.
LEMMA GotoStep ==
  ASSUME StackInv, NEW f \in GoodFrame, Continues(Top, f),
         stack' = Replaced(f), TopOK(f, process_current')
  PROVE  StackInv'
BY ReplaceWell DEF StackInv, Replaced, Top

\* It calls another function.
LEMMA PushStep ==
  ASSUME StackInv, NEW f \in GoodFrame, NEW g \in GoodFrame,
         Continues(Top, f), Linked(f, g),
         stack' = Append(Replaced(f), g), TopOK(g, process_current')
  PROVE  StackInv'
<1>1. /\ Well(Replaced(f))
      /\ Replaced(f)[Len(Replaced(f))] = f
  BY ReplaceWell DEF StackInv, Replaced, Top
<1> QED
  BY <1>1, PushWell DEF StackInv, Top

\* It calls process_post_synch(), which calls another function.
LEMMA PushTwoStep ==
  ASSUME StackInv, NEW f \in GoodFrame, NEW g \in GoodFrame,
         NEW h \in GoodFrame,
         Continues(Top, f), Linked(f, g), Linked(g, h),
         stack' = Append(Append(Replaced(f), g), h),
         TopOK(h, process_current')
  PROVE  StackInv'
<1>1. /\ Well(Replaced(f))
      /\ Replaced(f)[Len(Replaced(f))] = f
  BY ReplaceWell DEF StackInv, Replaced, Top
<1> DEFINE r == Append(Replaced(f), g)
<1>2. Well(r) /\ r[Len(r)] = g
  BY <1>1, PushWell
<1> HIDE DEF r
<1>3. stack' = Append(r, h)
  BY DEF r
<1> QED
  BY <1>2, <1>3, PushWell DEF StackInv, Top

\* It returns, having restored process_current if it saved it.
LEMMA PopStep ==
  ASSUME StackInv, Top.at \notin MainLabels, stack' = Popped,
         Top.at \in SaveLabels => process_current' = Top.saved
  PROVE  StackInv'
<1>1. /\ Well(Popped) /\ Popped[Len(Popped)] = stack[Len(stack) - 1]
      /\ Linked(stack[Len(stack) - 1], Top)
  BY PopWell DEF StackInv, Popped, Top
<1>2. TopOK(stack[Len(stack) - 1], process_current')
  BY <1>1 DEF Linked, TopOK
<1> QED
  BY <1>1, <1>2 DEF StackInv, Top

\* The frames that calls push: do_poll(), process_post_synch(),
LEMMA PlainFrames ==
  ASSUME DataInv
  PROVE  /\ Blank \in GoodFrame /\ Blank.at = "boot"
         /\ [Blank EXCEPT !.at = "poll"] \in GoodFrame
         /\ [Blank EXCEPT !.at = "poll"].at = "poll"
         /\ SynchFrame \in GoodFrame /\ SynchFrame.at = "synch"
         /\ SynchFrame.saved = process_current
BY DEF DataInv, Blank, SynchFrame, GoodFrame, Frame, Pointer, Labels,
       EventNumbers, PLabels, QLabels

\* do_event()'s broadcast loop,
LEMMA BroadcastFrame ==
  ASSUME NEW q \in Pointer, NEW ev \in EventNumbers
  PROVE  LET f == [Blank EXCEPT !.at = "bpoll", !.q = q, !.ev = ev]
         IN  f \in GoodFrame /\ f.at = "bpoll"
BY DEF Blank, GoodFrame, Frame, Pointer, Labels, EventNumbers, PLabels, QLabels

\* call_process() and a process's thread,
LEMMA ProcessFrames ==
  ASSUME NEW p \in Proc, NEW ev \in EventNumbers
  PROVE  /\ CallFrame(p, ev) \in GoodFrame /\ CallFrame(p, ev).at = "call"
         /\ ThreadFrame(p, ev) \in GoodFrame
         /\ ThreadFrame(p, ev).at = "thread" /\ ThreadFrame(p, ev).p = p
BY ProcessAssumption
DEF Blank, CallFrame, ThreadFrame, GoodFrame, Frame, Pointer, Labels,
    EventNumbers, PLabels, QLabels

\* a PROCESS_CONTEXT block,
LEMMA ContextFrames ==
  ASSUME NEW p \in Proc, process_current \in Pointer, Top.ev \in EventNumbers
  PROVE  /\ ContextFrame(p) \in GoodFrame /\ ContextFrame(p).at = "context"
         /\ ContextFrame(p).p = p /\ ContextFrame(p).saved = process_current
         /\ ContextFrame(p).ev = Top.ev
BY ProcessAssumption
DEF Blank, ContextFrame, ThreadFrame, GoodFrame, Frame, Pointer, Labels,
    PLabels, QLabels

\* and exit_process().
LEMMA ExitFrames ==
  ASSUME DataInv, NEW p \in Proc, NEW from \in Pointer
  PROVE  /\ ExitFrame(p, from) \in GoodFrame
         /\ ExitFrame(p, from).at = "exit"
         /\ ExitFrame(p, from).saved = process_current
BY DEF DataInv, Blank, ExitFrame, GoodFrame, Frame, Pointer, Labels,
       EventNumbers, PLabels, QLabels

-----------------------------------------------------------------------------
\* The executing frame.
LEMMA TopFrame == StackInv => Top \in GoodFrame /\ Top \in Frame
BY TopOf DEF StackInv, Top, GoodFrame

\* The queue is not touched.
LEMMA QueueSame == QueueInv /\ UNCHANGED queueVars => QueueInv'
BY QueueNextInv

\* A step that changes at most the stack and process_current.
LEMMA ControlStep ==
  ASSUME DataInv, UNCHANGED << queueVars, procVars, pollVars >>,
         process_current' \in Pointer, StackInv'
  PROVE  ProcInv'
BY QueueSame DEF DataInv, ProcInv, procVars, pollVars

\* A step that also changes p->state.
LEMMA StateStep ==
  ASSUME DataInv, UNCHANGED << queueVars, process_list, next, pollVars >>,
         process_current' = process_current, StackInv',
         NEW p \in Pointer, NEW s \in State, state' = [state EXCEPT ![p] = s]
  PROVE  ProcInv'
BY QueueSame DEF DataInv, ProcInv, pollVars

\* process_start() keeps the invariant, whoever calls it.
LEMMA StartStep ==
  ASSUME ProcInv, NEW p \in Proc, NEW f \in GoodFrame, Continues(Top, f),
         f.at \in {"boot", "thread", "context"},
         f.at \in {"thread", "context"} => process_current = f.p,
         process_start(p, Replaced(f)),
         UNCHANGED << queueVars, pollVars, process_current >>
  PROVE  ProcInv'
<1> USE DEF ProcInv
<1>1. CASE p \in Listed
  <2>1. stack' = Replaced(f) /\ UNCHANGED procVars
    BY <1>1 DEF process_start
  <2>2. TopOK(f, process_current')
    BY DEF TopOK
  <2>3. StackInv'
    BY <2>1, <2>2, GotoStep
  <2> QED
    BY <2>1, <2>3, ControlStep DEF DataInv
<1>2. CASE p \notin Listed
  <2>1. /\ next' = [next EXCEPT ![p] = process_list]
        /\ process_list' = p
        /\ state' = [state EXCEPT ![p] = "RUNNING"]
        /\ stack' = Append(Append(Replaced(f), SynchFrame), CallFrame(p, "INIT"))
    BY <1>2 DEF process_start
  <2>2. /\ SynchFrame \in GoodFrame /\ SynchFrame.at = "synch"
        /\ SynchFrame.saved = process_current
        /\ CallFrame(p, "INIT") \in GoodFrame /\ CallFrame(p, "INIT").at = "call"
    BY PlainFrames, ProcessFrames DEF EventNumbers
  <2>3. Linked(f, SynchFrame) /\ Linked(SynchFrame, CallFrame(p, "INIT"))
    BY <2>2 DEF Linked, SaveLabels
  <2>4. TopOK(CallFrame(p, "INIT"), process_current')
    BY <2>2 DEF TopOK
  <2>5. StackInv'
    BY <2>1, <2>2, <2>3, <2>4, PushTwoStep
  <2>6. DataInv'
    BY <2>1, QueueSame DEF DataInv, Pointer, State, pollVars
  <2> QED
    BY <2>5, <2>6
<1> QED
  BY <1>1, <1>2

\* The steps of main() keep the invariant (process_run, do_event).
LEMMA MainStepInv == ProcInv /\ MainStep => ProcInv'
<1> SUFFICES ASSUME ProcInv, MainStep PROVE ProcInv'
  OBVIOUS
<1> USE DEF ProcInv
<1>0. Top \in GoodFrame /\ Top \in Frame
  BY TopFrame
<1>1. CASE BootStart
  <2> DEFINE p == Autostart[Top.left + 1]
             f == [Top EXCEPT !.left = @ + 1]
  <2>1. Top.at = "boot" /\ Top.left < Len(Autostart) /\ Top.left \in Nat
    BY <1>0, <1>1 DEF BootStart, At, Frame
  <2>2. p \in Proc
    BY <2>1, ProcessAssumption
  <2>3. f \in GoodFrame /\ f.at = "boot"
    BY <1>0, <2>1 DEF GoodFrame, Frame
  <2>4. Continues(Top, f)
    BY <2>1, <2>3 DEF Continues, MainLabels, SaveLabels
  <2>5. /\ process_start(p, Replaced(f))
        /\ UNCHANGED << queueVars, pollVars, process_current >>
    BY <1>1 DEF BootStart
  <2> HIDE DEF p, f
  <2> QED
    BY <2>2, <2>3, <2>4, <2>5, StartStep
<1>2. CASE BootDone \/ RunIdle
  <2> DEFINE f == [Top EXCEPT !.at = "run"]
  <2>1. f \in GoodFrame /\ f.at = "run"
    BY <1>0 DEF GoodFrame, Frame, Labels, PLabels, QLabels
  <2>2. Continues(Top, f) /\ TopOK(f, process_current') /\ stack' = Replaced(f)
    BY <1>2, <2>1
    DEF BootDone, RunIdle, At, Goto, Continues, TopOK, MainLabels, SaveLabels
  <2>3. StackInv'
    <3> HIDE DEF f
    <3> QED
      BY <2>1, <2>2, GotoStep
  <2> QED
    BY <1>2, <2>3, ControlStep DEF BootDone, RunIdle, DataInv
<1>3. CASE RunPoll
  <2> DEFINE f == [Top EXCEPT !.at = "event"]
             g == [Blank EXCEPT !.at = "poll"]
  <2>1. f \in GoodFrame /\ f.at = "event"
    BY <1>0 DEF GoodFrame, Frame, Labels, PLabels, QLabels
  <2>2. g \in GoodFrame /\ g.at = "poll"
    BY PlainFrames
  <2>3. Continues(Top, f) /\ Linked(f, g)
    BY <1>3, <2>1 DEF RunPoll, At, Continues, Linked, MainLabels, SaveLabels
  <2>4. TopOK(f, process_current') /\ TopOK(g, process_current')
    BY <2>1, <2>2 DEF TopOK
  <2>5. stack' = Replaced(f) \/ stack' = Append(Replaced(f), g)
    BY <1>3 DEF RunPoll, Goto
  <2>6. StackInv'
    <3> HIDE DEF f, g
    <3> QED
      BY <2>1, <2>2, <2>3, <2>4, <2>5, GotoStep, PushStep
  <2> QED
    BY <1>3, <2>6, ControlStep DEF RunPoll, DataInv
<1>4. CASE RunUnicast \/ RunBroadcast
  <2> DEFINE m == NextMessage
             f == [Top EXCEPT !.at = "run"]
  <2>1. f \in GoodFrame /\ f.at = "run"
    BY <1>0 DEF GoodFrame, Frame, Labels, PLabels, QLabels
  <2>2. Continues(Top, f)
    BY <1>4, <2>1
    DEF RunUnicast, RunBroadcast, At, Continues, MainLabels, SaveLabels
  <2>3. QueueInv' /\ m \in Message
    <3>1. QueueInv /\ TakeEvent
      BY <1>4 DEF RunUnicast, RunBroadcast, DataInv
    <3>2. /\ QueueInv' /\ m = Head(Waiting) /\ Waiting # << >>
          /\ Waiting \in Seq(Message)
      BY <3>1, TakeEventInv, WaitingIsSeq
    <3> QED
      BY <3>2
  <2>4. m.p \in Pointer /\ m.ev \in EventNumbers
    BY <2>3, ProcessAssumption DEF Pointer, EventNumbers
  <2> HIDE DEF m
  <2>5. CASE RunUnicast
    <3>1. /\ m.p \in Proc
          /\ stack' = Append(Replaced(f), CallFrame(m.p, m.ev))
          /\ state' = IF m.ev = "INIT" THEN [state EXCEPT ![m.p] = "RUNNING"]
                      ELSE state
          /\ UNCHANGED << process_list, next, pollVars, process_current >>
      BY <2>4, <2>5 DEF RunUnicast, Goto, Pointer, m
    <3>2. CallFrame(m.p, m.ev) \in GoodFrame /\ CallFrame(m.p, m.ev).at = "call"
      BY <2>4, <3>1, ProcessFrames
    <3>3. Linked(f, CallFrame(m.p, m.ev))
      BY <2>1 DEF Linked
    <3>4. TopOK(CallFrame(m.p, m.ev), process_current')
      BY <3>2 DEF TopOK
    <3>5. StackInv'
      <4> HIDE DEF f
      <4> QED
        BY <2>1, <2>2, <3>1, <3>2, <3>3, <3>4, PushStep
    <3>6. DataInv'
      BY <2>3, <3>1 DEF DataInv, State, pollVars
    <3> QED
      BY <3>5, <3>6
  <2>6. CASE RunBroadcast
    <3> DEFINE g == [Blank EXCEPT !.at = "bpoll", !.q = process_list, !.ev = m.ev]
    <3>1. /\ stack' = Append(Replaced(f), g)
          /\ UNCHANGED << procVars, pollVars, process_current >>
      BY <2>6 DEF RunBroadcast, Goto, m
    <3>2. g \in GoodFrame /\ g.at = "bpoll"
      BY <2>4, BroadcastFrame DEF DataInv
    <3>3. Linked(f, g)
      BY <2>1 DEF Linked
    <3>4. TopOK(g, process_current')
      BY <3>2 DEF TopOK
    <3>5. StackInv'
      <4> HIDE DEF f, g
      <4> QED
        BY <2>1, <2>2, <3>1, <3>2, <3>3, <3>4, PushStep
    <3>6. DataInv'
      BY <2>3, <3>1 DEF DataInv, procVars, pollVars
    <3> QED
      BY <3>5, <3>6
  <2> QED
    BY <1>4, <2>5, <2>6
<1> QED
  BY <1>1, <1>2, <1>3, <1>4 DEF MainStep

-----------------------------------------------------------------------------
\* The labels of the kernel's functions between calls: nothing is known of
\* process_current there.
Inner == Labels \ (MainLabels \cup {"mark", "thread", "context", "exit"})

\* From the top frame the function may go on to l.
MayGo(l) ==
  /\ l \in Inner
  /\ Top.at \notin MainLabels
  /\ Top.at \in SaveLabels => l \in SaveLabels
  /\ l \in PLabels => Top.p \in Proc

\* A kernel function goes on to l,
LEMMA GoStep ==
  ASSUME StackInv, NEW l, MayGo(l), l \in QLabels => Top.q \in Proc,
         stack' = Goto(l)
  PROVE  StackInv'
<1> DEFINE f == [Top EXCEPT !.at = l]
<1>1. f \in GoodFrame /\ f.at = l /\ f.saved = Top.saved
  BY TopFrame DEF MayGo, Inner, GoodFrame, Frame
<1>2. Continues(Top, f) /\ TopOK(f, process_current')
  BY <1>1 DEF MayGo, Inner, Continues, TopOK
<1>3. stack' = Replaced(f)
  BY DEF Goto
<1> HIDE DEF f
<1> QED
  BY <1>1, <1>2, <1>3, GotoStep

\* goes on to l with its loop cursor moved,
LEMMA CursorStep ==
  ASSUME StackInv, NEW l, MayGo(l), NEW q \in Pointer, l \in QLabels => q \in Proc,
         stack' = Replaced([Top EXCEPT !.at = l, !.q = q])
  PROVE  StackInv'
<1> DEFINE f == [Top EXCEPT !.at = l, !.q = q]
<1>1. f \in GoodFrame /\ f.at = l /\ f.saved = Top.saved
  BY TopFrame DEF MayGo, Inner, GoodFrame, Frame
<1>2. Continues(Top, f) /\ TopOK(f, process_current')
  BY <1>1 DEF MayGo, Inner, Continues, TopOK
<1>3. stack' = Replaced(f)
  OBVIOUS
<1> HIDE DEF f
<1> QED
  BY <1>1, <1>2, <1>3, GotoStep

\* or calls a function to return to l.
LEMMA GoCallStep ==
  ASSUME StackInv, NEW l, MayGo(l), l \in QLabels => Top.q \in Proc,
         NEW g \in GoodFrame, TopOK(g, process_current'),
         stack' = Append(Goto(l), g)
  PROVE  StackInv'
<1> DEFINE f == [Top EXCEPT !.at = l]
<1>1. f \in GoodFrame /\ f.at = l /\ f.saved = Top.saved
  BY TopFrame DEF MayGo, Inner, GoodFrame, Frame
<1>2. Continues(Top, f) /\ Linked(f, g)
  BY <1>1 DEF MayGo, Inner, Continues, Linked
<1>3. stack' = Append(Replaced(f), g)
  BY DEF Goto
<1> HIDE DEF f
<1> QED
  BY <1>1, <1>2, <1>3, PushStep

\* The broadcast loop keeps the invariant (do_event).
LEMMA EventStepInv == ProcInv /\ EventStep => ProcInv'
<1> SUFFICES ASSUME ProcInv, EventStep PROVE ProcInv'
  OBVIOUS
<1> USE DEF ProcInv
<1>0. Top \in GoodFrame /\ Top \in Frame
  BY TopFrame
<1>l. /\ "bpoll" \in Inner /\ "bcall" \in Inner /\ "bnext" \in Inner
      /\ {"bpoll", "bcall", "bnext"} \cap (MainLabels \cup SaveLabels \cup PLabels)
           = {}
      /\ "bpoll" \notin QLabels /\ "bcall" \in QLabels /\ "bnext" \in QLabels
  BY DEF Inner, Labels, MainLabels, SaveLabels, PLabels, QLabels
<1>1. CASE BroadcastPoll
  <2>1. Top.at = "bpoll" /\ UNCHANGED << queueVars, procVars, pollVars, process_current >>
    BY <1>1 DEF BroadcastPoll, At
  <2>2. CASE Top.q = NULL
    <3>1. stack' = Popped
      BY <1>1, <2>2 DEF BroadcastPoll
    <3> QED
      BY <1>l, <2>1, <3>1, PopStep, ControlStep DEF DataInv
  <2>3. CASE Top.q # NULL
    <3>1. Top.q \in Proc
      BY <1>0, <2>3 DEF Frame, Pointer
    <3>2. MayGo("bcall")
      BY <1>l, <2>1 DEF MayGo
    <3>3. \/ stack' = Goto("bcall")
          \/ stack' = Append(Goto("bcall"), [Blank EXCEPT !.at = "poll"])
      BY <1>1, <2>3 DEF BroadcastPoll
    <3>4. /\ [Blank EXCEPT !.at = "poll"] \in GoodFrame
          /\ TopOK([Blank EXCEPT !.at = "poll"], process_current')
      BY PlainFrames DEF TopOK
    <3>5. StackInv'
      BY <3>1, <3>2, <3>3, <3>4, GoStep, GoCallStep
    <3> QED
      BY <2>1, <3>5, ControlStep DEF DataInv
  <2> QED
    BY <2>2, <2>3
<1>2. CASE BroadcastCall
  <2>1. /\ Top.at = "bcall" /\ UNCHANGED << queueVars, procVars, pollVars, process_current >>
        /\ stack' = Append(Goto("bnext"), CallFrame(Top.q, Top.ev))
    BY <1>2 DEF BroadcastCall, At
  <2>2. Top.q \in Proc /\ Top.ev \in EventNumbers
    BY <1>0, <1>l, <2>1 DEF GoodFrame, Frame
  <2>3. MayGo("bnext")
    BY <1>l, <2>1 DEF MayGo
  <2>4. /\ CallFrame(Top.q, Top.ev) \in GoodFrame
        /\ TopOK(CallFrame(Top.q, Top.ev), process_current')
    BY <2>2, ProcessFrames DEF TopOK
  <2>5. StackInv'
    BY <2>1, <2>2, <2>3, <2>4, GoCallStep
  <2> QED
    BY <2>1, <2>5, ControlStep DEF DataInv
<1>3. CASE BroadcastNext
  <2>1. /\ Top.at = "bnext" /\ UNCHANGED << queueVars, procVars, pollVars, process_current >>
        /\ stack' = Replaced([Top EXCEPT !.at = "bpoll", !.q = next[Top.q]])
    BY <1>3 DEF BroadcastNext, At
  <2>2. next[Top.q] \in Pointer
    BY <1>0, <1>l, <2>1 DEF GoodFrame, DataInv
  <2>3. MayGo("bpoll")
    BY <1>l, <2>1 DEF MayGo
  <2>4. StackInv'
    BY <1>l, <2>1, <2>2, <2>3, CursorStep
  <2> QED
    BY <2>1, <2>4, ControlStep DEF DataInv
<1> QED
  BY <1>1, <1>2, <1>3 DEF EventStep

\* The steps of do_poll() keep the invariant.
LEMMA PollStepInv == ProcInv /\ PollStep => ProcInv'
<1> SUFFICES ASSUME ProcInv, PollStep PROVE ProcInv'
  OBVIOUS
<1> USE DEF ProcInv
<1>0. Top \in GoodFrame /\ Top \in Frame
  BY TopFrame
<1>l. /\ {"poll", "scan", "ready", "claim", "pollnext"} \subseteq Inner
      /\ {"poll", "scan", "ready", "claim", "pollnext"}
           \cap (MainLabels \cup SaveLabels \cup PLabels) = {}
      /\ "scan" \notin QLabels
      /\ {"ready", "claim", "pollnext"} \subseteq QLabels
  BY DEF Inner, Labels, MainLabels, SaveLabels, PLabels, QLabels
<1>g. ASSUME NEW l \in {"scan", "ready", "claim", "pollnext"},
             Top.at \in {"poll", "scan", "ready", "claim", "pollnext"}
      PROVE  MayGo(l)
  BY <1>l, <1>g DEF MayGo
<1>1. CASE PollBegin
  <2>1. /\ Top.at = "poll"
        /\ stack' = Replaced([Top EXCEPT !.at = "scan", !.q = process_list])
        /\ poll_requested' = FALSE
        /\ UNCHANGED << queueVars, procVars, needspoll, process_current >>
    BY <1>1 DEF PollBegin, At
  <2>2. StackInv'
    BY <1>l, <1>g, <2>1, CursorStep DEF DataInv
  <2>3. DataInv'
    BY <2>1, QueueSame DEF DataInv, procVars
  <2> QED
    BY <2>2, <2>3
<1>2. CASE PollScan
  <2>1. /\ Top.at = "scan"
        /\ UNCHANGED << queueVars, procVars, pollVars, process_current >>
    BY <1>2 DEF PollScan, At
  <2>2. CASE Top.q = NULL
    <3>1. stack' = Popped
      BY <1>2, <2>2 DEF PollScan
    <3> QED
      BY <1>l, <2>1, <3>1, PopStep, ControlStep DEF DataInv
  <2>3. CASE Top.q # NULL
    <3>1. Top.q \in Proc
      BY <1>0, <2>3 DEF Frame, Pointer
    <3>2. stack' = Goto("ready") \/ stack' = Goto("pollnext")
      BY <1>2, <2>3 DEF PollScan
    <3>3. MayGo("ready") /\ MayGo("pollnext")
      BY <1>g, <2>1
    <3>4. StackInv'
      BY <3>1, <3>2, <3>3, GoStep
    <3> QED
      BY <2>1, <3>4, ControlStep DEF DataInv
  <2> QED
    BY <2>2, <2>3
<1>3. CASE PollReady
  <2>1. /\ Top.at = "ready" /\ stack' = Goto("claim")
        /\ state' = [state EXCEPT ![Top.q] = "RUNNING"]
        /\ UNCHANGED << queueVars, process_list, next, pollVars, process_current >>
    BY <1>3 DEF PollReady, At
  <2>2. Top.q \in Proc /\ Top.q \in Pointer
    BY <1>0, <1>l, <2>1 DEF GoodFrame, Pointer
  <2>3. StackInv'
    BY <1>g, <2>1, <2>2, GoStep
  <2> QED
    BY <2>1, <2>2, <2>3, StateStep DEF State
<1>4. CASE PollClaim
  <2>1. /\ Top.at = "claim"
        /\ stack' = Append(Goto("pollnext"), CallFrame(Top.q, "POLL"))
        /\ needspoll' = [needspoll EXCEPT ![Top.q] = FALSE]
        /\ UNCHANGED << queueVars, procVars, poll_requested, process_current >>
    BY <1>4 DEF PollClaim, At
  <2>2. Top.q \in Proc
    BY <1>0, <1>l, <2>1 DEF GoodFrame
  <2>3. /\ CallFrame(Top.q, "POLL") \in GoodFrame
        /\ TopOK(CallFrame(Top.q, "POLL"), process_current')
    BY <2>2, ProcessFrames DEF TopOK, EventNumbers
  <2>4. StackInv'
    BY <1>g, <2>1, <2>2, <2>3, GoCallStep
  <2>5. needspoll' \in [Proc -> BOOLEAN]
    BY <2>1 DEF DataInv
  <2>6. DataInv'
    BY <2>1, <2>5, QueueSame DEF DataInv, procVars
  <2> QED
    BY <2>4, <2>6
<1>5. CASE PollNext
  <2>1. /\ Top.at = "pollnext"
        /\ stack' = Replaced([Top EXCEPT !.at = "scan", !.q = next[Top.q]])
        /\ UNCHANGED << queueVars, procVars, pollVars, process_current >>
    BY <1>5 DEF PollNext, At
  <2>2. next[Top.q] \in Pointer
    BY <1>0, <1>l, <2>1 DEF GoodFrame, DataInv
  <2>3. StackInv'
    BY <1>l, <1>g, <2>1, <2>2, CursorStep
  <2> QED
    BY <2>1, <2>3, ControlStep DEF DataInv
<1> QED
  BY <1>1, <1>2, <1>3, <1>4, <1>5 DEF PollStep

-----------------------------------------------------------------------------
\* The steps of call_process() and process_post_synch() keep the invariant.
LEMMA CallStepInv == ProcInv /\ CallStep => ProcInv'
<1> SUFFICES ASSUME ProcInv, CallStep PROVE ProcInv'
  OBVIOUS
<1> USE DEF ProcInv
<1>0. Top \in GoodFrame /\ Top \in Frame
  BY TopFrame
<1>l. /\ {"call", "mark", "calling", "done", "exiting"} \subseteq PLabels
      /\ {"call", "mark", "calling", "done", "exiting"}
           \cap (MainLabels \cup SaveLabels \cup QLabels) = {}
      /\ "calling" \in Inner
      /\ "synch" \in SaveLabels /\ "synch" \notin MainLabels
  BY DEF Inner, Labels, MainLabels, SaveLabels, PLabels, QLabels
<1>p. Top.at \in {"call", "mark", "calling", "done", "exiting"}
        => Top.p \in Proc /\ Top.p \in Pointer
  BY <1>0, <1>l DEF GoodFrame, Pointer
<1>1. CASE CallEnter
  <2>1. Top.at = "call" /\ UNCHANGED << queueVars, procVars, pollVars >>
    BY <1>1 DEF CallEnter, At
  <2>2. CASE state[Top.p] \in Callable
    <3> DEFINE f == [Top EXCEPT !.at = "mark"]
    <3>1. process_current' = Top.p /\ stack' = Replaced(f)
      BY <1>1, <2>2 DEF CallEnter, Goto
    <3>2. f \in GoodFrame /\ f.at = "mark" /\ f.p = Top.p
      BY <1>0, <1>p, <2>1 DEF GoodFrame, Frame, Labels, PLabels, QLabels
    <3>3. Continues(Top, f) /\ TopOK(f, process_current')
      BY <1>l, <2>1, <3>1, <3>2 DEF Continues, TopOK
    <3>4. StackInv'
      <4> HIDE DEF f
      <4> QED
        BY <3>1, <3>2, <3>3, GotoStep
    <3> QED
      BY <1>p, <2>1, <3>1, <3>4, ControlStep
  <2>3. CASE state[Top.p] \notin Callable
    <3>1. stack' = Popped /\ UNCHANGED process_current
      BY <1>1, <2>3 DEF CallEnter
    <3>2. StackInv'
      BY <1>l, <2>1, <3>1, PopStep
    <3> QED
      BY <2>1, <3>1, <3>2, ControlStep DEF DataInv
  <2> QED
    BY <2>2, <2>3
<1>2. CASE CallThread
  <2>1. /\ Top.at = "mark"
        /\ state' = [state EXCEPT ![Top.p] = "CALLED"]
        /\ stack' = Append(Goto("calling"), ThreadFrame(Top.p, Top.ev))
        /\ UNCHANGED << queueVars, process_list, next, pollVars, process_current >>
    BY <1>2 DEF CallThread, At
  <2>2. process_current = Top.p /\ Top.ev \in EventNumbers
    BY <1>0, <2>1 DEF StackInv, TopOK, Frame
  <2>3. /\ ThreadFrame(Top.p, Top.ev) \in GoodFrame
        /\ TopOK(ThreadFrame(Top.p, Top.ev), process_current')
    BY <1>p, <2>1, <2>2, ProcessFrames DEF TopOK
  <2>4. MayGo("calling")
    BY <1>l, <1>p, <2>1 DEF MayGo
  <2>5. StackInv'
    BY <1>l, <2>1, <2>3, <2>4, GoCallStep
  <2> QED
    BY <1>p, <2>1, <2>5, StateStep DEF State
<1>3. CASE CallDone
  <2>1. /\ Top.at = "done" /\ stack' = Popped
        /\ state' = [state EXCEPT ![Top.p] = "RUNNING"]
        /\ UNCHANGED << queueVars, process_list, next, pollVars, process_current >>
    BY <1>3 DEF CallDone, At
  <2>2. StackInv'
    BY <1>l, <2>1, PopStep
  <2> QED
    BY <1>p, <2>1, <2>2, StateStep DEF State
<1>4. CASE CallExit
  <2> DEFINE f == ExitFrame(Top.p, Top.p)
  <2>1. /\ Top.at = "exiting" /\ stack' = Replaced(f)
        /\ UNCHANGED << queueVars, procVars, pollVars, process_current >>
    BY <1>4 DEF CallExit, At
  <2>2. f \in GoodFrame /\ f.at = "exit" /\ f.saved = process_current
    BY <1>p, <2>1, ExitFrames
  <2>3. Continues(Top, f) /\ TopOK(f, process_current')
    BY <1>l, <2>1, <2>2 DEF Continues, TopOK
  <2>4. StackInv'
    <3> HIDE DEF f
    <3> QED
      BY <2>1, <2>2, <2>3, GotoStep
  <2> QED
    BY <2>1, <2>4, ControlStep DEF DataInv
<1>5. CASE SynchReturn
  <2>1. /\ Top.at = "synch" /\ stack' = Popped /\ process_current' = Top.saved
        /\ UNCHANGED << queueVars, procVars, pollVars >>
    BY <1>5 DEF SynchReturn, At
  <2>2. StackInv'
    BY <1>l, <2>1, PopStep
  <2> QED
    BY <1>0, <2>1, <2>2, ControlStep DEF Frame
<1> QED
  BY <1>1, <1>2, <1>3, <1>4, <1>5 DEF CallStep

\* The steps of exit_process() keep the invariant.
LEMMA ExitStepInv == ProcInv /\ ExitStep => ProcInv'
<1> SUFFICES ASSUME ProcInv, ExitStep PROVE ProcInv'
  OBVIOUS
<1> USE DEF ProcInv
<1>0. Top \in GoodFrame /\ Top \in Frame
  BY TopFrame
<1>l. /\ {"exit", "tell", "tellnext", "unlink"} \subseteq PLabels
      /\ {"exit", "tell", "tellnext", "unlink"} \subseteq SaveLabels
      /\ {"exit", "tell", "tellnext", "unlink"} \cap MainLabels = {}
      /\ {"tell", "tellnext", "unlink"} \subseteq Inner
      /\ "tell" \notin QLabels /\ "unlink" \notin QLabels
      /\ "tellnext" \in QLabels
  BY DEF Inner, Labels, MainLabels, SaveLabels, PLabels, QLabels
<1>p. Top.at \in {"exit", "tell", "tellnext", "unlink"}
        => Top.p \in Proc /\ Top.p \in Pointer
  BY <1>0, <1>l DEF GoodFrame, Pointer
<1>g. ASSUME NEW l \in {"tell", "tellnext", "unlink"},
             Top.at \in {"exit", "tell", "tellnext", "unlink"}
      PROVE  MayGo(l)
  BY <1>l, <1>p, <1>g DEF MayGo
<1>1. CASE ExitBegin
  <2>1. /\ Top.at = "exit"
        /\ UNCHANGED << queueVars, process_list, next, pollVars, process_current >>
    BY <1>1 DEF ExitBegin, At
  <2>2. process_current = Top.saved
    BY <2>1 DEF StackInv, TopOK
  <2>3. CASE stack' = Popped /\ UNCHANGED state
    <3>1. StackInv'
      BY <1>l, <2>1, <2>2, <2>3, PopStep
    <3> QED
      BY <2>1, <2>3, <3>1, ControlStep DEF DataInv, procVars
  <2>4. CASE /\ state' = [state EXCEPT ![Top.p] = "NONE"]
             /\ stack' = Replaced([Top EXCEPT !.at = "tell", !.q = process_list])
    <3>1. StackInv'
      BY <1>l, <1>g, <2>1, <2>4, CursorStep DEF DataInv
    <3> QED
      BY <1>p, <2>1, <2>4, <3>1, StateStep DEF State
  <2>5. CASE stack' = Goto("unlink") /\ UNCHANGED state
    <3>1. StackInv'
      BY <1>l, <1>g, <2>1, <2>5, GoStep
    <3> QED
      BY <2>1, <2>5, <3>1, ControlStep DEF DataInv, procVars
  <2> QED
    BY <1>1, <2>3, <2>4, <2>5 DEF ExitBegin
<1>2. CASE ExitTell
  <2>1. /\ Top.at = "tell" /\ Top.q # NULL
        /\ \/ stack' = Goto("tellnext")
           \/ stack' = Append(Goto("tellnext"), CallFrame(Top.q, "EXITED"))
        /\ UNCHANGED << queueVars, procVars, pollVars, process_current >>
    BY <1>2 DEF ExitTell, At
  <2>2. Top.q \in Proc
    BY <1>0, <2>1 DEF Frame, Pointer
  <2>3. /\ CallFrame(Top.q, "EXITED") \in GoodFrame
        /\ TopOK(CallFrame(Top.q, "EXITED"), process_current')
    BY <2>2, ProcessFrames DEF TopOK, EventNumbers
  <2>4. StackInv'
    BY <1>g, <2>1, <2>2, <2>3, GoStep, GoCallStep
  <2> QED
    BY <2>1, <2>4, ControlStep DEF DataInv
<1>3. CASE ExitTellNext
  <2>1. /\ Top.at = "tellnext"
        /\ stack' = Replaced([Top EXCEPT !.at = "tell", !.q = next[Top.q]])
        /\ UNCHANGED << queueVars, procVars, pollVars, process_current >>
    BY <1>3 DEF ExitTellNext, At
  <2>2. next[Top.q] \in Pointer
    BY <1>0, <1>l, <2>1 DEF GoodFrame, DataInv
  <2>3. StackInv'
    BY <1>l, <1>g, <2>1, <2>2, CursorStep
  <2> QED
    BY <2>1, <2>3, ControlStep DEF DataInv
<1>4. CASE ExitThread
  <2>1. Top.at = "tell" /\ UNCHANGED << queueVars, procVars, pollVars >>
    BY <1>4 DEF ExitThread, At
  <2>2. CASE Top.p # Top.from
    <3>1. /\ process_current' = Top.p
          /\ stack' = Append(Goto("unlink"), ThreadFrame(Top.p, "EXIT"))
      BY <1>4, <2>2 DEF ExitThread
    <3>2. /\ ThreadFrame(Top.p, "EXIT") \in GoodFrame
          /\ TopOK(ThreadFrame(Top.p, "EXIT"), process_current')
      BY <1>p, <2>1, <3>1, ProcessFrames DEF TopOK, EventNumbers
    <3>3. StackInv'
      BY <1>l, <1>g, <2>1, <3>1, <3>2, GoCallStep
    <3> QED
      BY <1>p, <2>1, <3>1, <3>3, ControlStep
  <2>3. CASE Top.p = Top.from
    <3>1. stack' = Goto("unlink") /\ UNCHANGED process_current
      BY <1>4, <2>3 DEF ExitThread
    <3>2. StackInv'
      BY <1>l, <1>g, <2>1, <3>1, GoStep
    <3> QED
      BY <2>1, <3>1, <3>2, ControlStep DEF DataInv
  <2> QED
    BY <2>2, <2>3
<1>5. CASE ExitUnlink
  <2>1. /\ Top.at = "unlink" /\ stack' = Popped /\ process_current' = Top.saved
        /\ UNCHANGED << queueVars, state, pollVars >>
    BY <1>5 DEF ExitUnlink, At
  <2>2. StackInv'
    BY <1>l, <2>1, PopStep
  <2>3. process_list' \in Pointer /\ next' \in [Proc -> Pointer]
    BY <1>5, <1>p, <2>1 DEF ExitUnlink, DataInv
  <2>4. DataInv'
    BY <1>0, <2>1, <2>3, QueueSame DEF DataInv, Frame, pollVars
  <2> QED
    BY <2>2, <2>4
<1> QED
  BY <1>1, <1>2, <1>3, <1>4, <1>5 DEF ExitStep

\* process_poll() keeps the types of the flags it sets.
LEMMA PollTypes ==
  ASSUME DataInv, NEW p \in Proc, process_poll(p)
  PROVE  needspoll' \in [Proc -> BOOLEAN] /\ poll_requested' \in BOOLEAN
<1>1. CASE state[p] \in {"RUNNING", "CALLED"}
  BY <1>1 DEF process_poll, DataInv
<1>2. CASE state[p] \notin {"RUNNING", "CALLED"}
  BY <1>2 DEF process_poll, DataInv, pollVars
<1> QED
  BY <1>1, <1>2

\* Whatever a thread calls, and its return, keep the invariant.
LEMMA ThreadStepInv == ProcInv /\ ThreadStep => ProcInv'
<1> SUFFICES ASSUME ProcInv, ThreadStep PROVE ProcInv'
  OBVIOUS
<1> USE DEF ProcInv
<1>0. Top \in GoodFrame /\ Top \in Frame /\ Top.at \in {"thread", "context"}
  BY TopFrame
  DEF ThreadStep, ThreadPost, ThreadPoll, ThreadSynch, ThreadStart, ThreadExit,
      ContextBegin, ContextEnd, ThreadReturn, MayCall, MayNest, Executing, At
<1>c. process_current = Top.p /\ process_current \in Pointer
  BY <1>0 DEF StackInv, TopOK, DataInv
<1> DEFINE f == [Top EXCEPT !.left = @ - 1]
<1>f. ASSUME Top.left > 0
      PROVE  /\ f \in GoodFrame /\ f.at \in {"thread", "context"} /\ f.p = Top.p
             /\ Continues(Top, f) /\ TopOK(f, process_current)
  <2>1. f \in GoodFrame /\ f.at = Top.at /\ f.p = Top.p /\ f.saved = Top.saved
    BY <1>0, <1>f DEF GoodFrame, Frame
  <2> QED
    BY <1>0, <1>c, <2>1 DEF Continues, TopOK, MainLabels, SaveLabels
<1>s. Spent = Replaced(f)
  BY DEF Spent
<1> HIDE DEF f
<1>1. ASSUME NEW m \in Message, ThreadPost(m) PROVE ProcInv'
  <2>1. /\ Top.left > 0 /\ process_post(m) /\ stack' = Replaced(f)
        /\ UNCHANGED << procVars, pollVars, process_current >>
    BY <1>1, <1>s DEF ThreadPost, MayCall
  <2>2. StackInv'
    BY <1>f, <2>1, GotoStep
  <2>3. QueueInv'
    BY <2>1, PostOkInv, QueueSame DEF process_post, PostFull, DataInv
  <2>4. DataInv'
    BY <2>1, <2>3 DEF DataInv, procVars, pollVars
  <2> QED
    BY <2>2, <2>4
<1>2. ASSUME NEW p \in Proc, ThreadPoll(p) PROVE ProcInv'
  <2>1. /\ Top.left > 0 /\ process_poll(p) /\ stack' = Replaced(f)
        /\ UNCHANGED << queueVars, procVars, process_current >>
    BY <1>2, <1>s DEF ThreadPoll, MayCall
  <2>2. StackInv'
    BY <1>f, <2>1, GotoStep
  <2>3. DataInv'
    BY <2>1, PollTypes, QueueSame DEF DataInv, procVars
  <2> QED
    BY <2>2, <2>3
<1>3. ASSUME NEW p \in Proc, ThreadSynch(p) PROVE ProcInv'
  <2>1. /\ Top.left > 0
        /\ stack' = Append(Append(Replaced(f), SynchFrame), CallFrame(p, "MSG"))
        /\ UNCHANGED << queueVars, procVars, pollVars, process_current >>
    BY <1>3, <1>s DEF ThreadSynch, MayNest, MayCall
  <2>2. /\ SynchFrame \in GoodFrame /\ SynchFrame.at = "synch"
        /\ SynchFrame.saved = process_current
        /\ CallFrame(p, "MSG") \in GoodFrame /\ CallFrame(p, "MSG").at = "call"
    BY PlainFrames, ProcessFrames DEF EventNumbers
  <2>3. Linked(f, SynchFrame) /\ Linked(SynchFrame, CallFrame(p, "MSG"))
    BY <1>c, <1>f, <2>1, <2>2 DEF Linked, SaveLabels
  <2>4. TopOK(CallFrame(p, "MSG"), process_current')
    BY <2>2 DEF TopOK
  <2>5. StackInv'
    BY <1>f, <2>1, <2>2, <2>3, <2>4, PushTwoStep
  <2> QED
    BY <2>1, <2>5, ControlStep DEF DataInv
<1>4. ASSUME NEW p \in Proc, ThreadStart(p) PROVE ProcInv'
  <2>1. /\ Top.left > 0 /\ process_start(p, Replaced(f))
        /\ UNCHANGED << queueVars, pollVars, process_current >>
    BY <1>4, <1>s DEF ThreadStart, MayNest, MayCall
  <2> QED
    BY <1>c, <1>f, <2>1, StartStep
<1>5. ASSUME NEW p \in Proc, ThreadExit(p) PROVE ProcInv'
  <2> DEFINE g == ExitFrame(p, process_current)
  <2>1. /\ Top.left > 0 /\ stack' = Append(Replaced(f), g)
        /\ UNCHANGED << queueVars, procVars, pollVars, process_current >>
    BY <1>5, <1>s DEF ThreadExit, MayNest, MayCall
  <2>2. g \in GoodFrame /\ g.at = "exit" /\ g.saved = process_current
    BY <1>c, ExitFrames
  <2>3. Linked(f, g) /\ TopOK(g, process_current')
    BY <1>c, <1>f, <2>1, <2>2 DEF Linked, TopOK, SaveLabels
  <2>4. StackInv'
    <3> HIDE DEF g
    <3> QED
      BY <1>f, <2>1, <2>2, <2>3, PushStep
  <2> QED
    BY <2>1, <2>4, ControlStep DEF DataInv
<1>7. ASSUME NEW p \in Proc, ContextBegin(p) PROVE ProcInv'
  <2> DEFINE g == ContextFrame(p)
  <2>1. /\ Top.left > 0 /\ stack' = Append(Replaced(f), g) /\ process_current' = p
        /\ UNCHANGED << queueVars, procVars, pollVars >>
    BY <1>7, <1>s DEF ContextBegin, MayNest, MayCall
  <2>2. g \in GoodFrame /\ g.at = "context" /\ g.saved = process_current /\ g.p = p
    BY <1>0, <1>c, ContextFrames DEF Frame
  <2>3. Linked(f, g) /\ TopOK(g, process_current')
    BY <1>c, <1>f, <2>1, <2>2 DEF Linked, TopOK, SaveLabels
  <2>4. StackInv'
    <3> HIDE DEF g
    <3> QED
      BY <1>f, <2>1, <2>2, <2>3, PushStep
  <2> QED
    BY <2>1, <2>4, ControlStep DEF DataInv, Pointer
<1>8. CASE ContextEnd
  <2>1. /\ Top.at = "context" /\ stack' = Popped /\ process_current' = Top.saved
        /\ UNCHANGED << queueVars, procVars, pollVars >>
    BY <1>8 DEF ContextEnd, At
  <2>2. StackInv'
    BY <2>1, PopStep DEF MainLabels
  <2> QED
    BY <1>0, <2>1, <2>2, ControlStep DEF Frame
<1>6. ASSUME NEW ended \in BOOLEAN, ThreadReturn(ended) PROVE ProcInv'
  <2> DEFINE r == Popped
             caller == stack[Len(stack) - 1]
             l == IF caller.at # "calling" THEN caller.at
                  ELSE IF ended \/ Top.ev = "EXIT" THEN "exiting" ELSE "done"
             g == [caller EXCEPT !.at = l]
  <2>1. /\ stack' = [r EXCEPT ![Len(stack) - 1] = g] /\ Top.at = "thread"
        /\ UNCHANGED << queueVars, procVars, pollVars, process_current >>
    BY <1>6 DEF ThreadReturn, At
  <2>2. /\ Well(r) /\ Len(r) = Len(stack) - 1 /\ r[Len(r)] = caller
        /\ Linked(caller, Top)
    BY <1>0, PopWell DEF StackInv, Popped, Top, MainLabels
  <2>3. caller \in GoodFrame
    BY <2>2, TopOf
  <2>4. caller.at \notin {"mark", "exit", "thread", "context"}
    BY <2>1, <2>2 DEF Linked, SaveLabels
  <2>5. g \in GoodFrame /\ g.at = l /\ g.saved = caller.saved
    <3>1. l \in Labels /\ (l \in PLabels => caller.p \in Proc)
                       /\ (l \in QLabels => caller.q \in Proc)
      BY <2>3 DEF GoodFrame, Frame, Labels, PLabels, QLabels
    <3> HIDE DEF l, caller
    <3> QED
      BY <2>3, <3>1 DEF GoodFrame, Frame
  <2>6. Continues(caller, g) /\ TopOK(g, process_current')
    BY <2>4, <2>5 DEF Continues, TopOK, MainLabels, SaveLabels
  <2>7. StackInv'
    <3> HIDE DEF r, caller, g
    <3>0. stack' = [r EXCEPT ![Len(r)] = g] /\ Continues(r[Len(r)], g)
      BY <2>1, <2>2, <2>6
    <3>1. Well(stack') /\ stack'[Len(stack')] = g
      <4>1. Well(r) /\ g \in GoodFrame
        BY <2>2, <2>5
      <4> QED
        BY <3>0, <4>1, ReplaceWell
    <3> QED
      BY <2>6, <3>1 DEF StackInv, Top
  <2> QED
    BY <2>1, <2>7, ControlStep DEF DataInv
<1> QED
  BY <1>1, <1>2, <1>3, <1>4, <1>5, <1>6, <1>7, <1>8 DEF ThreadStep

-----------------------------------------------------------------------------
\* The state at the end of process_init() satisfies the invariant.
LEMMA ProcessInitInv == Init => ProcInv
<1> SUFFICES ASSUME Init PROVE ProcInv
  OBVIOUS
<1>1. DataInv
  <2>1. QueueInv
    BY QueueInitInv DEF Init
  <2>2. needspoll \in [Proc -> BOOLEAN] /\ poll_requested \in BOOLEAN
    BY DEF Init
  <2> QED
    BY <2>1, <2>2 DEF Init, DataInv, Pointer, State
<1>2. Blank \in GoodFrame /\ Blank.at = "boot"
  BY <1>1, PlainFrames
<1>3. stack = << Blank >>
  BY DEF Init
<1>4. Well(stack) /\ Top.at = "boot"
  BY <1>2, <1>3 DEF Well, Top, MainLabels
<1> QED
  BY <1>1, <1>4 DEF ProcInv, StackInv, TopOK

\* Every step of the kernel, of a thread or of an interrupt keeps it.
LEMMA ProcessNextInv == ProcInv /\ [Next]_vars => ProcInv'
<1> SUFFICES ASSUME ProcInv, [Next]_vars PROVE ProcInv'
  OBVIOUS
<1>1. ASSUME NEW p \in Pollable, InterruptPoll(p) PROVE ProcInv'
  <2>1. /\ p \in Proc /\ process_poll(p)
        /\ UNCHANGED << queueVars, procVars, process_current, stack >>
    BY <1>1, ProcessAssumption DEF InterruptPoll
  <2>2. DataInv'
    BY <2>1, PollTypes, QueueSame DEF ProcInv, DataInv, procVars
  <2> QED
    BY <2>1, <2>2 DEF ProcInv, StackInv, Top
<1>2. CASE UNCHANGED vars
  <2>1. DataInv'
    BY <1>2, QueueSame DEF ProcInv, DataInv, vars, procVars, pollVars
  <2> QED
    BY <1>2, <2>1 DEF ProcInv, StackInv, Top, vars
<1> QED
  BY <1>1, <1>2, MainStepInv, EventStepInv, PollStepInv, CallStepInv,
     ExitStepInv, ThreadStepInv DEF Next, KernelStep

\* The kernel's variables and every frame of its call stack keep their types:
\* no null pointer is followed by a loop cursor, no slot without a message is
\* dispatched and the stack never underflows, for any number of processes,
\* queue slots and nested calls (process.c).
THEOREM ProcessTyping == Spec => []ProcessTypeOK
<1>1. ProcInv => ProcessTypeOK
  <2> SUFFICES ASSUME ProcInv PROVE ProcessTypeOK
    OBVIOUS
  <2>1. stack \in Seq(Frame) /\ stack # << >>
    <3>1. stack \in Seq(GoodFrame) /\ stack # << >> /\ GoodFrame \subseteq Frame
      BY DEF ProcInv, StackInv, Well, GoodFrame
    <3> QED
      BY <3>1, SeqMonotonic
  <2> QED
    BY <2>1 DEF ProcInv, DataInv, QueueInv, ProcessTypeOK
<1> QED
  BY <1>1, ProcessInitInv, ProcessNextInv, PTL DEF Spec

\* PROCESS_CURRENT() in a thread is always the thread's own process, and in a
\* PROCESS_CONTEXT block the block's, however blocks and calls to
\* process_post_synch(), process_start() and process_exit() nest (call_process,
\* process_post_synch, exit_process).
THEOREM CurrentProcess == Spec => []CurrentIsRunner
<1>1. ProcInv => CurrentIsRunner
  BY DEF ProcInv, StackInv, TopOK, CurrentIsRunner, Executing
<1> QED
  BY <1>1, ProcessInitInv, ProcessNextInv, PTL DEF Spec
=============================================================================
