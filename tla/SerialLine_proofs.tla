-------------------------- MODULE SerialLine_proofs --------------------------
(***************************************************************************)
(* Proofs about the byte ring of ringbuf.c and the serial line that is     *)
(* read through it, for every size of the ring, list of processes and      *)
(* length of lines.                                                        *)
(*                                                                         *)
(* The ring is type correct, reads only cells that were written, returns   *)
(* the oldest byte although put_ptr moves under ringbuf_get(), and         *)
(* implements a bounded FIFO queue of Size - 1 bytes.  The arguments       *)
(* follow the two pointers: Elements is the run of cells from get_ptr up   *)
(* to put_ptr.                                                             *)
(*                                                                         *)
(* What the listeners of the serial line find in buf is the beginning of a *)
(* line that was sent, and all of them hear the same lines in the same     *)
(* order.  The invariant follows the bytes from the interrupt through the  *)
(* ring and buf to the listeners, and the events that keep buf still.      *)
(***************************************************************************)
EXTENDS SerialLine, SequenceTheorems, TLAPS

\* The remainder of a number below, at most one modulus above, or at most one
\* modulus below the range of the remainders.
LEMMA ModSmall ==
  ASSUME NEW a \in Nat, NEW n \in Nat \ {0}, a < n
  PROVE  a % n = a
  BY SMT

LEMMA ModWrap ==
  ASSUME NEW a \in Nat, NEW n \in Nat \ {0}, n <= a, a < 2 * n
  PROVE  a % n = a - n
  BY SMT

LEMMA ModNegative ==
  ASSUME NEW a \in Int, NEW n \in Nat \ {0}, a < 0, 0 <= a + n
  PROVE  a % n = a + n
  BY SMT

LEMMA SizePositive == Size \in Nat \ {0}
  BY RingbufAssumption

\* The difference of the pointers, as a case distinction.
LEMMA Difference ==
  ASSUME NEW p \in Cell, NEW g \in Cell
  PROVE  /\ (p - g) % Size = IF g <= p THEN p - g ELSE p - g + Size
         /\ (p - g) % Size \in Cell
  <1>1. /\ p \in Nat /\ g \in Nat /\ p - g \in Int /\ p < Size /\ g < Size
        /\ Size \in Nat \ {0}
    BY SizePositive DEF Cell
  <1>2. CASE g <= p
    <2>1. p - g \in Nat /\ p - g < Size
      BY <1>1, <1>2
    <2>2. (p - g) % Size = p - g
      BY <1>1, <2>1, ModSmall
    <2> QED
      BY <1>1, <1>2, <2>1, <2>2 DEF Cell
  <1>3. CASE ~(g <= p)
    <2>1. p - g < 0 /\ 0 <= (p - g) + Size
      BY <1>1, <1>3
    <2>2. (p - g) % Size = (p - g) + Size
      BY <1>1, <2>1, ModNegative
    <2> QED
      BY <1>1, <1>3, <2>1, <2>2 DEF Cell
  <1> QED
    BY <1>2, <1>3

\* The cell k places behind a cell.
LEMMA Place ==
  ASSUME NEW g \in Cell, NEW k \in 0 .. Size
  PROVE  /\ (g + k) % Size = IF g + k < Size THEN g + k ELSE g + k - Size
         /\ (g + k) % Size \in Cell
  <1>1. /\ g \in Nat /\ k \in Nat /\ g + k \in Nat /\ g + k < 2 * Size
        /\ Size \in Nat \ {0}
    BY SizePositive DEF Cell
  <1>2. CASE g + k < Size
    <2>1. (g + k) % Size = g + k
      BY <1>1, <1>2, ModSmall
    <2> QED
      BY <1>1, <1>2, <2>1 DEF Cell
  <1>3. CASE ~(g + k < Size)
    <2>1. Size <= g + k
      BY <1>1, <1>3
    <2>2. (g + k) % Size = (g + k) - Size
      BY <1>1, <2>1, ModWrap
    <2> QED
      BY <1>1, <1>3, <2>1, <2>2 DEF Cell
  <1> QED
    BY <1>2, <1>3

-----------------------------------------------------------------------------
\* The inductive invariant: types, written cells, and the byte being fetched.
RingInv == RingTypeOK /\ ElementsAreBytes /\ GetsOldest

LEMMA ElementsIsSeq ==
  ASSUME RingInv
  PROVE  /\ ringbuf_elements \in 0 .. Size - 1
         /\ Elements \in Seq(Byte)
         /\ Len(Elements) = ringbuf_elements
  <1>1. ringbuf_elements \in 0 .. Size - 1
    BY Difference DEF RingInv, RingTypeOK, ringbuf_elements, Cell
  <1> QED
    BY <1>1, SizePositive DEF RingInv, ElementsAreBytes, Elements

LEMMA ElementsIsSeqNext ==
  ASSUME RingTypeOK', ElementsAreBytes'
  PROVE  /\ ringbuf_elements' \in 0 .. Size - 1
         /\ Elements' \in Seq(Byte)
         /\ Len(Elements') = ringbuf_elements'
  <1>1. ringbuf_elements' \in 0 .. Size - 1
    BY Difference DEF RingTypeOK, ringbuf_elements, Cell
  <1> QED
    BY <1>1, SizePositive DEF ElementsAreBytes, Elements

\* ringbuf_put() appends to what the ring holds.
LEMMA PutOkInv ==
  ASSUME RingInv, NEW b \in Byte, PutOk(b)
  PROVE  RingInv' /\ Elements' = Append(Elements, b)
  <1> DEFINE n == ringbuf_elements
  <1>1. /\ put_ptr \in Cell /\ get_ptr \in Cell /\ n \in 0 .. Size - 1
        /\ n # Size - 1 /\ Size \in Nat \ {0}
        /\ data \in [Cell -> Byte \cup {NoByte}]
    BY ElementsIsSeq, SizePositive DEF RingInv, RingTypeOK, PutOk, Full
  <1>2. /\ data' = [data EXCEPT ![put_ptr] = b]
        /\ put_ptr' = (put_ptr + 1) % Size
        /\ get_ptr' = get_ptr /\ get_pc' = get_pc /\ c' = c
    BY DEF PutOk
  <1>3. put_ptr' = IF put_ptr + 1 < Size THEN put_ptr + 1 ELSE 0
    <2>1. put_ptr' = IF put_ptr + 1 < Size THEN put_ptr + 1 ELSE put_ptr + 1 - Size
      BY <1>1, <1>2, Place
    <2> QED
      BY <1>1, <2>1 DEF Cell
  <1>4. RingTypeOK'
    BY <1>1, <1>2, <1>3 DEF RingInv, RingTypeOK, Cell
  <1>5. n = IF get_ptr <= put_ptr THEN put_ptr - get_ptr ELSE put_ptr - get_ptr + Size
    BY <1>1, Difference DEF ringbuf_elements
  <1>6. ringbuf_elements' = n + 1
    <2>1. ringbuf_elements' = IF get_ptr <= put_ptr' THEN put_ptr' - get_ptr
                                                   ELSE put_ptr' - get_ptr + Size
      BY <1>1, <1>2, <1>4, Difference DEF ringbuf_elements, RingTypeOK
    <2> QED
      BY <1>1, <1>3, <1>5, <2>1 DEF Cell
  <1>7. (get_ptr + n) % Size = put_ptr
    <2>1. (get_ptr + n) % Size = IF get_ptr + n < Size THEN get_ptr + n
                                                      ELSE get_ptr + n - Size
      BY <1>1, Place
    <2> HIDE DEF n
    <2> QED
      BY <1>1, <1>5, <2>1 DEF Cell
  <1>8. ASSUME NEW i \in 1 .. n
        PROVE  (get_ptr + (i - 1)) % Size \in Cell \ {put_ptr}
    <2>1. i - 1 \in 0 .. Size
      BY <1>1
    <2>2. /\ (get_ptr + (i - 1)) % Size =
               IF get_ptr + (i - 1) < Size THEN get_ptr + (i - 1)
                                           ELSE get_ptr + (i - 1) - Size
          /\ (get_ptr + (i - 1)) % Size \in Cell
      BY <1>1, <2>1, Place
    <2> HIDE DEF n
    <2> QED
      BY <1>1, <1>5, <2>2 DEF Cell
  <1> HIDE DEF n
  <1>9. Elements = [i \in 1 .. n |-> data[(get_ptr + (i - 1)) % Size]]
    BY DEF Elements, n
  <1>10. Elements' = [i \in 1 .. n + 1 |-> data'[(get_ptr + (i - 1)) % Size]]
    BY <1>2, <1>6 DEF Elements
  <1>11. ASSUME NEW i \in 1 .. n PROVE Elements'[i] = Elements[i]
    BY <1>1, <1>2, <1>8, <1>9, <1>10
  <1>12. Elements'[n + 1] = b
    <2>1. n + 1 \in 1 .. n + 1 /\ (n + 1) - 1 = n
      BY <1>1
    <2> QED
      BY <2>1, <1>1, <1>2, <1>7, <1>10
  <1>13. Elements \in Seq(Byte) /\ Len(Elements) = n
    BY ElementsIsSeq DEF n
  <1>14. ElementsAreBytes'
    <2>1. ASSUME NEW i \in 1 .. n + 1 PROVE Elements'[i] \in Byte
      <3>1. CASE i = n + 1
        BY <3>1, <1>12
      <3>2. CASE i # n + 1
        BY <3>2, <1>1, <1>11, <1>13
      <3> QED
        BY <3>1, <3>2
    <2> QED
      BY <2>1, <1>6 DEF ElementsAreBytes
  <1>15. Elements' = Append(Elements, b)
    <2>1. Elements' \in Seq(Byte) /\ Len(Elements') = n + 1
      BY <1>4, <1>6, <1>14, ElementsIsSeqNext
    <2>2. /\ Append(Elements, b) \in Seq(Byte)
          /\ Len(Append(Elements, b)) = n + 1
          /\ \A i \in 1 .. n : Append(Elements, b)[i] = Elements[i]
          /\ Append(Elements, b)[n + 1] = b
      BY <1>13, AppendProperties
    <2>3. ASSUME NEW i \in 1 .. n + 1
          PROVE  Elements'[i] = Append(Elements, b)[i]
      BY <1>1, <1>11, <1>12, <2>2
    <2> QED
      BY <2>1, <2>2, <2>3, SeqEqual
  <1>16. GetsOldest'
    <2>1. ringbuf_elements' > 0
      BY <1>1, <1>6
    <2>2. get_pc = "advance" => n > 0 /\ c = Elements[1]
      BY DEF RingInv, GetsOldest, n
    <2>3. get_pc' = "advance" => c' = Elements'[1]
      BY <1>1, <1>2, <1>11, <2>2
    <2> QED
      BY <2>1, <2>3 DEF GetsOldest
  <1> QED
    BY <1>4, <1>14, <1>15, <1>16 DEF RingInv

\* The first statements of ringbuf_get() change nothing in the ring.
LEMMA GetBeginInv ==
  ASSUME RingInv, GetTest \/ GetRead
  PROVE  RingInv' /\ Elements' = Elements
  <1>1. /\ data' = data /\ put_ptr' = put_ptr /\ get_ptr' = get_ptr
        /\ get_pc' \in {"read", "advance"}
        /\ ringbuf_elements > 0
    BY DEF GetTest, GetRead, RingInv, GetsOldest
  <1>2. Elements' = Elements /\ ringbuf_elements' = ringbuf_elements
    BY <1>1 DEF Elements, ringbuf_elements
  <1>3. get_pc' = "advance" => c' = data[get_ptr]
    BY DEF GetTest, GetRead
  <1>4. Elements[1] = data[get_ptr] /\ data[get_ptr] \in Byte
    <2>1. 1 \in 1 .. ringbuf_elements
      BY <1>1, ElementsIsSeq
    <2>2. get_ptr + (1 - 1) = get_ptr /\ get_ptr % Size = get_ptr
      BY ModSmall, SizePositive DEF RingInv, RingTypeOK, Cell
    <2>3. Elements[1] = data[get_ptr]
      BY <2>1, <2>2 DEF Elements
    <2> QED
      BY <2>1, <2>3 DEF RingInv, ElementsAreBytes
  <1>5. RingTypeOK'
    <2>1. c' = c \/ c' = data[get_ptr]
      BY DEF GetTest, GetRead
    <2> QED
      BY <1>1, <1>4, <2>1 DEF RingInv, RingTypeOK
  <1>6. ElementsAreBytes' /\ GetsOldest'
    BY <1>1, <1>2, <1>3, <1>4 DEF RingInv, ElementsAreBytes, GetsOldest
  <1> QED
    BY <1>2, <1>5, <1>6 DEF RingInv

\* The end of ringbuf_get() takes the first element, which it returns.
LEMMA GetAdvanceInv ==
  ASSUME RingInv, GetAdvance
  PROVE  /\ RingInv'
         /\ Elements # << >>
         /\ c = Head(Elements)
         /\ Elements' = Tail(Elements)
  <1> DEFINE n == ringbuf_elements
  <1>1. /\ put_ptr \in Cell /\ get_ptr \in Cell /\ n \in 1 .. Size - 1
        /\ Size \in Nat \ {0}
        /\ c = Elements[1]
    BY ElementsIsSeq, SizePositive DEF RingInv, RingTypeOK, GetsOldest, GetAdvance
  <1>2. /\ data' = data /\ put_ptr' = put_ptr /\ c' = c /\ get_pc' = "idle"
        /\ get_ptr' = (get_ptr + 1) % Size
    BY DEF GetAdvance
  <1>3. get_ptr' = IF get_ptr + 1 < Size THEN get_ptr + 1 ELSE 0
    <2>1. get_ptr' = IF get_ptr + 1 < Size THEN get_ptr + 1 ELSE get_ptr + 1 - Size
      BY <1>1, <1>2, Place
    <2> QED
      BY <1>1, <2>1 DEF Cell
  <1>4. RingTypeOK'
    BY <1>1, <1>2, <1>3 DEF RingInv, RingTypeOK, Cell
  <1>5. n = IF get_ptr <= put_ptr THEN put_ptr - get_ptr ELSE put_ptr - get_ptr + Size
    BY <1>1, Difference DEF ringbuf_elements
  <1>6. ringbuf_elements' = n - 1
    <2>1. ringbuf_elements' = IF get_ptr' <= put_ptr THEN put_ptr - get_ptr'
                                                   ELSE put_ptr - get_ptr' + Size
      BY <1>1, <1>2, <1>4, Difference DEF ringbuf_elements, RingTypeOK
    <2> QED
      BY <1>1, <1>3, <1>5, <2>1 DEF Cell
  <1>7. Elements \in Seq(Byte) /\ Len(Elements) = n
    BY ElementsIsSeq
  <1> HIDE DEF n
  <1>8. ASSUME NEW i \in 1 .. n - 1
        PROVE  (get_ptr' + (i - 1)) % Size = (get_ptr + ((i + 1) - 1)) % Size
    <2>1. i - 1 \in 0 .. Size /\ i \in 0 .. Size /\ (i + 1) - 1 = i
      BY <1>1
    <2>2. (get_ptr' + (i - 1)) % Size =
             IF get_ptr' + (i - 1) < Size THEN get_ptr' + (i - 1)
                                          ELSE get_ptr' + (i - 1) - Size
      BY <1>4, <2>1, Place DEF RingTypeOK
    <2>3. (get_ptr + i) % Size =
             IF get_ptr + i < Size THEN get_ptr + i ELSE get_ptr + i - Size
      BY <1>1, <2>1, Place
    <2> QED
      BY <1>1, <1>3, <2>1, <2>2, <2>3 DEF Cell
  <1>9. ASSUME NEW i \in 1 .. n - 1 PROVE Elements'[i] = Elements[i + 1]
    <2>1. Elements' = [j \in 1 .. n - 1 |-> data[(get_ptr' + (j - 1)) % Size]]
      BY <1>2, <1>6 DEF Elements
    <2>2. i + 1 \in 1 .. n
      BY <1>1
    <2>3. Elements[i + 1] = data[(get_ptr + ((i + 1) - 1)) % Size]
      BY <2>2 DEF Elements, n
    <2> QED
      BY <2>1, <2>3, <1>8
  <1>10. ElementsAreBytes'
    <2>1. ASSUME NEW i \in 1 .. n - 1 PROVE Elements'[i] \in Byte
      BY <1>1, <1>7, <1>9
    <2> QED
      BY <2>1, <1>6 DEF ElementsAreBytes
  <1>11. Elements # << >> /\ c = Head(Elements)
    BY <1>1, <1>7
  <1>12. Elements' = Tail(Elements)
    <2>1. Elements' \in Seq(Byte) /\ Len(Elements') = n - 1
      BY <1>4, <1>6, <1>10, ElementsIsSeqNext
    <2>2. /\ Tail(Elements) \in Seq(Byte)
          /\ Len(Tail(Elements)) = n - 1
          /\ \A i \in 1 .. n - 1 : Tail(Elements)[i] = Elements[i + 1]
      BY <1>7, <1>11, HeadTailProperties
    <2> QED
      BY <1>9, <2>1, <2>2, SeqEqual
  <1>13. GetsOldest'
    BY <1>2 DEF GetsOldest
  <1> QED
    BY <1>4, <1>10, <1>11, <1>12, <1>13 DEF RingInv

LEMMA RingInitInv == ringbuf_init => RingInv /\ Elements = << >>
  <1> SUFFICES ASSUME ringbuf_init PROVE RingInv /\ Elements = << >>
    OBVIOUS
  <1>1. 0 \in Cell
    BY SizePositive DEF Cell
  <1>2. RingTypeOK
    BY <1>1 DEF ringbuf_init, RingTypeOK
  <1>3. ringbuf_elements = 0
    BY <1>1, Difference DEF ringbuf_init, ringbuf_elements
  <1>4. Elements = << >> /\ ElementsAreBytes
    BY <1>3 DEF Elements, ElementsAreBytes
  <1>5. GetsOldest
    BY DEF ringbuf_init, GetsOldest
  <1> QED
    BY <1>2, <1>4, <1>5 DEF RingInv

LEMMA RingStutter ==
  ASSUME RingInv, UNCHANGED ringVars
  PROVE  RingInv' /\ Elements' = Elements
  BY DEF RingInv, RingTypeOK, ElementsAreBytes, GetsOldest, Elements,
         ringbuf_elements, ringVars

LEMMA RingNextInv == RingInv /\ [RingNext]_ringVars => RingInv'
  <1> SUFFICES ASSUME RingInv, [RingNext]_ringVars PROVE RingInv'
    OBVIOUS
  <1>1. ASSUME NEW b \in Byte, PutOk(b) PROVE RingInv'
    BY <1>1, PutOkInv
  <1>2. CASE PutFull \/ GetNothing \/ UNCHANGED ringVars
    BY <1>2, RingStutter DEF PutFull, GetNothing
  <1>3. CASE GetTest \/ GetRead
    BY <1>3, GetBeginInv
  <1>4. CASE GetAdvance
    BY <1>4, GetAdvanceInv
  <1> QED
    BY <1>1, <1>2, <1>3, <1>4 DEF RingNext

-----------------------------------------------------------------------------
\* The pointers stay inside the array and ringbuf_get() finds only written cells.
THEOREM RingTyping == RingSpec => []RingTypeOK
  <1>1. RingInv => RingTypeOK
    BY DEF RingInv
  <1> QED
    BY <1>1, RingInitInv, RingNextInv, PTL DEF RingSpec

\* ringbuf_get() returns the oldest byte, whatever the interrupt puts meanwhile.
THEOREM RingGetsOldest == RingSpec => [](ElementsAreBytes /\ GetsOldest)
  <1>1. RingInv => ElementsAreBytes /\ GetsOldest
    BY DEF RingInv
  <1> QED
    BY <1>1, RingInitInv, RingNextInv, PTL DEF RingSpec

\* A step of the ring is a step of the abstract queue, or none.
LEMMA RingStepIsFifoStep ==
  RingInv /\ [RingNext]_ringVars => [Fifo!Next]_Elements
  <1> SUFFICES ASSUME RingInv, [RingNext]_ringVars
               PROVE  [Fifo!Next]_Elements
    OBVIOUS
  <1>1. ASSUME NEW b \in Byte, PutOk(b) PROVE Fifo!Next
    <2>1. Len(Elements) < Size - 1
      BY <1>1, ElementsIsSeq, SizePositive DEF PutOk, Full
    <2> QED
      BY <1>1, <2>1, PutOkInv DEF Fifo!Put, Fifo!Next
  <1>2. CASE PutFull \/ GetNothing \/ UNCHANGED ringVars
    BY <1>2, RingStutter DEF PutFull, GetNothing
  <1>3. CASE GetTest \/ GetRead
    BY <1>3, GetBeginInv
  <1>4. CASE GetAdvance
    BY <1>4, GetAdvanceInv DEF Fifo!Get, Fifo!Next
  <1> QED
    BY <1>1, <1>2, <1>3, <1>4 DEF RingNext

\* The ring of ringbuf.c, shared by an interrupt and a process without a lock,
\* implements the bounded FIFO queue.
THEOREM RingbufIsFifo == RingSpec => RingFifoSpec
  <1>1. ringbuf_init => Fifo!Init
    BY RingInitInv DEF Fifo!Init
  <1> QED
    BY <1>1, RingInitInv, RingNextInv, RingStepIsFifoStep, PTL
       DEF RingSpec, RingFifoSpec, Fifo!Spec

-----------------------------------------------------------------------------
Char == (1 .. MaxLines) \X (1 .. MaxLineLen)

\* y may follow x in the stream of bytes that goes through the ring, where NoByte
\* stands for its beginning.
Link(x, y) ==
  \/ y = END
  \/ y \in Char /\ x \in Char /\ y = << x[1], x[2] + 1 >>
  \/ y \in Char /\ x \in {END, NoByte} /\ y[2] = 1

\* The byte put last, and the bytes put but not yet stored, in their order: each
\* may follow the one before, and what the interrupt puts next may follow too.
Latest == IF Elements = << >> THEN c ELSE Elements[Len(Elements)]

StreamInv ==
  /\ \A j \in 1 .. Len(Elements) - 1 : Link(Elements[j], Elements[j + 1])
  /\ (get_pc # "advance" /\ Elements # << >>) => Link(c, Elements[1])
  /\ ~overflow => IF col = 0 THEN Latest \in {END, NoByte}
                             ELSE Latest = << line, col >>

\* c holds the byte that serial_line_process is about to store.
Fetched == pc = "got" \/ get_pc = "advance"

\* The characters of buf, without the terminator.
Stored == IF wait = "any" THEN ptr ELSE ptr - 1

AtMost(m, n) == IF m < n THEN m ELSE n

FillInv ==
  /\ \A i \in 0 .. Stored - 1 : buf[i] \in Char /\ buf[i] = << buf[0][1], i + 1 >>
  /\ wait = "CONTINUE" => ptr > 0 /\ buf[ptr - 1] = NUL /\ c = END
  /\ (wait = "any" /\ ~Fetched /\ c \notin Char) => ptr = 0
  /\ c \in Char =>
       /\ ptr = AtMost(IF Fetched THEN c[2] - 1 ELSE c[2], Size - 1)
       /\ ptr > 0 => buf[0][1] = c[1]

\* The event of a line is in the queue before the CONTINUE behind it.
TurnInv ==
  /\ wait = "any" =>
       receiver = 0 /\ \A i \in DOMAIN queue : queue[i] = "other"
  /\ wait = "CONTINUE" =>
       /\ \E i \in DOMAIN queue : queue[i] = "CONTINUE"
       /\ receiver # 0 => \A i \in DOMAIN queue : queue[i] # "line"
  /\ \A i, j \in DOMAIN queue :
       /\ queue[i] = "CONTINUE" /\ queue[j] = "CONTINUE" => i = j
       /\ queue[i] = "line" /\ queue[j] = "line" => i = j
       /\ queue[i] = "line" /\ queue[j] = "CONTINUE" => i < j

\* The receivers before the next one have heard one line more than the others.
HeardInv ==
  /\ heard \in [App -> Seq(Seq(Char))]
  /\ \A p \in App : \A k \in DOMAIN heard[p] :
       \E n \in 1 .. MaxLines : Prefix(heard[p][k], n)
  /\ \A i, j \in DOMAIN List : List[i] \in App /\ List[j] \in App =>
       /\ (i < receiver <=> j < receiver) => heard[List[i]] = heard[List[j]]
       /\ i < receiver /\ ~(j < receiver)
            => heard[List[i]] = Append(heard[List[j]], String)

\* Every line p has heard has a number below n.
HeardBelow(p, n) ==
  \A k \in DOMAIN heard[p] : heard[p][k] # << >> => heard[p][k][1][1] < n

\* All that was heard and is stored has.
Below(n) ==
  /\ \A p \in App : HeardBelow(p, n)
  /\ Stored > 0 => buf[0][1] < n

\* List[i] has yet to hear of the line in buf.
Fresh(i) ==
  \/ wait = "any" \/ \E j \in DOMAIN queue : queue[j] = "line"
  \/ 0 < receiver /\ receiver <= i

SortedInv ==
  \A p \in App : \A k, m \in DOMAIN heard[p] :
    (k < m /\ heard[p][k] # << >> /\ heard[p][m] # << >>)
      => heard[p][k][1][1] < heard[p][m][1][1]

FreshInv ==
  \A i \in DOMAIN List :
    List[i] \in App /\ Fresh(i) /\ Stored > 0 => HeardBelow(List[i], buf[0][1])

\* The first character of a line is above all that went before it.
First(x) == x \in Char /\ x[2] = 1

AheadInv ==
  /\ \A j \in 1 .. Len(Elements) : First(Elements[j]) =>
       /\ Below(Elements[j][1])
       /\ \A i \in 1 .. j - 1 : Elements[i] \in Char => Elements[i][1] < Elements[j][1]
       /\ pc = "got" /\ c \in Char => c[1] < Elements[j][1]
  /\ pc = "got" /\ First(c) => Below(c[1])

\* The number of every character so far is below that of the next line to begin.
NextLine == IF col = 0 THEN line ELSE line + 1

NumberInv ==
  /\ Below(NextLine)
  /\ c \in Char => c[1] < NextLine
  /\ \A j \in 1 .. Len(Elements) : Elements[j] \in Char => Elements[j][1] < NextLine

OrderInv == SortedInv /\ FreshInv /\ AheadInv /\ NumberInv

HeldInv == StreamInv /\ FillInv /\ TurnInv /\ HeardInv /\ OrderInv

\* What holds also after a line was broadcast without a CONTINUE behind it.
ControlInv ==
  /\ RingInv
  /\ SerialTypeOK
  /\ line \in 1 .. MaxLines + 1 /\ col \in 0 .. MaxLineLen
  /\ get_pc # "idle" => pc = "get"
  /\ pc # "kernel" => wait = "any"
  /\ wait = "any" => ptr < Size
  /\ pc = "got" => c \in Byte

SerialInv == ControlInv /\ (held => HeldInv)

-----------------------------------------------------------------------------
LEMMA Bytes ==
  /\ Byte = Char \cup {END} /\ END \notin Char /\ NUL \notin Char
  /\ NoByte \notin Char /\ NoByte # END
  /\ Size \in Nat /\ Size > 0 /\ MaxLines \in Nat /\ MaxLines > 0
  /\ MaxLineLen \in Nat /\ NUMEVENTS \in Nat
<1>1. MaxLines \in Nat /\ MaxLines > 0 /\ MaxLineLen \in Nat /\ NUMEVENTS \in Nat
  BY SerialAssumption
<1>2. Size \in Nat /\ Size > 0
  BY SizePositive
<1>3. Byte = Char \cup {END} /\ END \notin Char /\ NUL \notin Byte
  BY SerialAssumption DEF Char
<1> QED
  BY <1>1, <1>2, <1>3, RingbufAssumption

LEMMA Chars ==
  ASSUME NEW x \in Char
  PROVE  x = << x[1], x[2] >> /\ x[1] \in 1 .. MaxLines /\ x[2] \in 1 .. MaxLineLen
  BY DEF Char

LEMMA Places ==
  /\ List \in Seq(App \cup {"serial"}) /\ "serial" \notin App /\ Len(List) > 0
  /\ \A p \in App : \E i \in DOMAIN List : List[i] = p
  /\ \A i, j \in DOMAIN List : List[i] = List[j] => i = j
<1>1. /\ List \in Seq(App \cup {"serial"}) /\ "serial" \notin App
      /\ \A p \in App \cup {"serial"} : \E i \in DOMAIN List : List[i] = p
      /\ \A i, j \in DOMAIN List : List[i] = List[j] => i = j
  BY SerialAssumption
<1>2. PICK i \in DOMAIN List : List[i] = "serial"
  BY <1>1
<1>3. DOMAIN List = 1 .. Len(List) /\ Len(List) \in Nat
  BY <1>1
<1> QED
  BY <1>1, <1>2, <1>3

\* The steps of the ring and what they leave of the stream of bytes in it.
LEMMA ElementsTyped ==
  ASSUME RingInv
  PROVE  /\ Elements \in Seq(Byte) /\ Len(Elements) = ringbuf_elements
         /\ DOMAIN Elements = 1 .. Len(Elements) /\ Len(Elements) \in Nat
         /\ \A j \in 1 .. Len(Elements) : Elements[j] \in Byte
         /\ get_pc # "idle" => Elements # << >>
         /\ get_pc = "advance" => c = Elements[1]
<1>1. Elements \in Seq(Byte) /\ Len(Elements) = ringbuf_elements
  BY ElementsIsSeq
<1>2. get_pc # "idle" => Len(Elements) > 0
  BY <1>1 DEF RingInv, GetsOldest
<1>3. get_pc = "advance" => c = Elements[1]
  BY DEF RingInv, GetsOldest
<1> QED
  BY <1>1, <1>2, <1>3

\* Latest for another value of the sequence.
LEMMA LatestAppend ==
  ASSUME NEW s \in Seq(Byte), NEW x \in Byte
  PROVE  /\ Append(s, x) # << >> /\ Len(Append(s, x)) = Len(s) + 1
         /\ Append(s, x)[Len(s) + 1] = x
         /\ \A j \in 1 .. Len(s) : Append(s, x)[j] = s[j]
<1>1. /\ Append(s, x) \in Seq(Byte) /\ Len(Append(s, x)) = Len(s) + 1
      /\ \A j \in 1 .. Len(s) : Append(s, x)[j] = s[j]
      /\ Append(s, x)[Len(s) + 1] = x
  BY AppendProperties
<1> QED
  BY <1>1

LEMMA StreamPut ==
  ASSUME ControlInv, StreamInv, NEW x \in Byte, PutOk(x), Link(Latest, x),
         Elements' = Append(Elements, x)
  PROVE  /\ \A j \in 1 .. Len(Elements') - 1 : Link(Elements'[j], Elements'[j + 1])
         /\ (get_pc' # "advance" /\ Elements' # << >>) => Link(c', Elements'[1])
         /\ Latest' = x
<1> DEFINE n == Len(Elements)
<1>1. /\ Elements \in Seq(Byte) /\ n \in Nat /\ (Elements = << >> <=> n = 0)
      /\ get_pc = "advance" => Elements # << >>
  BY ElementsTyped DEF ControlInv
<1>2. /\ Elements' # << >> /\ Len(Elements') = n + 1 /\ Elements'[n + 1] = x
      /\ \A j \in 1 .. n : Elements'[j] = Elements[j]
  BY <1>1, LatestAppend
<1>3. c' = c /\ get_pc' = get_pc
  BY DEF PutOk
<1>4. Latest' = x
  BY <1>2 DEF Latest
<1>5. Latest = IF n = 0 THEN c ELSE Elements[n]
  BY <1>1 DEF Latest
<1> HIDE DEF n
<1>6. ASSUME NEW j \in 1 .. n PROVE Link(Elements'[j], Elements'[j + 1])
  <2>1. CASE j = n
    <3>1. Elements'[j] = Elements[n] /\ Elements'[j + 1] = x /\ n # 0
      BY <1>1, <1>2, <2>1
    <3> QED
      BY <3>1, <1>5
  <2>2. CASE j # n
    <3>1. j \in 1 .. n - 1 /\ j + 1 \in 1 .. n
      BY <1>1, <2>2
    <3>2. Link(Elements[j], Elements[j + 1])
      BY <3>1 DEF StreamInv, n
    <3> QED
      BY <3>1, <3>2, <1>2
  <2> QED
    BY <2>1, <2>2
<1>7. get_pc' # "advance" => Link(c', Elements'[1])
  <2>1. CASE n = 0
    BY <2>1, <1>2, <1>3, <1>5
  <2>2. CASE n # 0
    <3>1. Elements'[1] = Elements[1] /\ Elements # << >>
      BY <1>1, <1>2, <2>2
    <3> QED
      BY <3>1, <1>3 DEF StreamInv
  <2> QED
    BY <2>1, <2>2
<1> QED
  BY <1>1, <1>2, <1>4, <1>6, <1>7

\* The part of the state that the interrupt leaves alone.
deliveryVars == << c, get_pc, pc, wait, buf, ptr, heard, queue, receiver >>

LEMMA DeliverySame ==
  ASSUME UNCHANGED deliveryVars, FillInv, TurnInv, HeardInv
  PROVE  /\ FillInv' /\ TurnInv' /\ HeardInv'
         /\ \A n : Below(n)' <=> Below(n)
         /\ \A p, n : HeardBelow(p, n)' <=> HeardBelow(p, n)
         /\ \A i : Fresh(i)' <=> Fresh(i)
         /\ Stored' = Stored
<1>1. /\ c' = c /\ get_pc' = get_pc /\ pc' = pc /\ wait' = wait /\ buf' = buf
      /\ ptr' = ptr /\ heard' = heard /\ queue' = queue /\ receiver' = receiver
  BY DEF deliveryVars
<1>2. FillInv' /\ Stored' = Stored
  BY <1>1 DEF FillInv, Stored, Fetched
<1>3. TurnInv'
  BY <1>1 DEF TurnInv
<1>4. HeardInv'
  <2>1. String' = String
    BY <1>1 DEF String
  <2> QED
    BY <1>1, <2>1 DEF HeardInv
<1>5. \A p, n : HeardBelow(p, n)' <=> HeardBelow(p, n)
  BY <1>1 DEF HeardBelow
<1>6. \A n : Below(n)' <=> Below(n)
  BY <1>1, <1>2, <1>5 DEF Below
<1>7. \A i : Fresh(i)' <=> Fresh(i)
  BY <1>1 DEF Fresh
<1> QED
  BY <1>2, <1>3, <1>4, <1>5, <1>6, <1>7

LEMMA NumbersTyped ==
  ASSUME ControlInv, HeardInv, FillInv
  PROVE  /\ \A p \in App : \A k \in DOMAIN heard[p] :
              heard[p][k] # << >> => heard[p][k][1][1] \in Int
         /\ Stored > 0 => buf[0] \in Char /\ buf[0][1] \in Int
<1>1. ASSUME NEW p \in App, NEW k \in DOMAIN heard[p], heard[p][k] # << >>
      PROVE  heard[p][k][1][1] \in Int
  <2>1. heard[p][k] \in Seq(Char)
    BY DEF HeardInv
  <2>2. heard[p][k][1] \in Char
    BY <1>1, <2>1
  <2> QED
    BY <2>2, Chars
<1>2. ASSUME Stored > 0 PROVE buf[0] \in Char /\ buf[0][1] \in Int
  <2>1. 0 \in 0 .. Stored - 1
    BY <1>2 DEF Stored, ControlInv, SerialTypeOK
  <2>2. buf[0] \in Char
    BY <2>1 DEF FillInv
  <2> QED
    BY <2>2, Chars
<1> QED
  BY <1>1, <1>2

LEMMA BelowMore ==
  ASSUME ControlInv, HeardInv, FillInv, NEW m \in Int, NEW n \in Int, m <= n, Below(m)
  PROVE  Below(n)
  BY NumbersTyped DEF Below, HeardBelow

-----------------------------------------------------------------------------
\* A byte that is put goes behind all that went before.
LEMMA PutOrder ==
  ASSUME ControlInv, HeldInv, NEW x \in Byte, PutOk(x), UNCHANGED deliveryVars,
         Elements' = Append(Elements, x),
         NextLine' \in Int, NextLine <= NextLine', NextLine \in Int,
         x \in Char => x[1] < NextLine',
         First(x) => NextLine = x[1]
  PROVE  OrderInv'
<1> DEFINE n == Len(Elements)
<1>1. /\ Elements \in Seq(Byte) /\ n \in Nat
      /\ Len(Elements') = n + 1 /\ Elements'[n + 1] = x
      /\ \A j \in 1 .. n : Elements'[j] = Elements[j]
  BY ElementsTyped, LatestAppend DEF ControlInv
<1>2. /\ \A m : Below(m)' <=> Below(m)
      /\ \A p, m : HeardBelow(p, m)' <=> HeardBelow(p, m)
      /\ \A i : Fresh(i)' <=> Fresh(i)
      /\ Stored' = Stored
  BY DeliverySame DEF HeldInv
<1>3. buf' = buf /\ heard' = heard /\ pc' = pc /\ c' = c
  BY DEF deliveryVars
<1>4. SortedInv'
  BY <1>3 DEF HeldInv, OrderInv, SortedInv
<1>5. FreshInv'
  BY <1>2, <1>3 DEF HeldInv, OrderInv, FreshInv
<1>6. /\ Below(NextLine) /\ (c \in Char => c[1] < NextLine)
      /\ \A j \in 1 .. n : Elements[j] \in Char => Elements[j][1] < NextLine
  BY DEF HeldInv, OrderInv, NumberInv
<1>7. \A j \in 1 .. n + 1 : j = n + 1 \/ j \in 1 .. n
  BY <1>1
<1>8. AheadInv'
  <2>1. ASSUME NEW j \in 1 .. n, First(Elements[j])
        PROVE  /\ Below(Elements[j][1])
               /\ \A i \in 1 .. j - 1 : Elements'[i] \in Char => Elements'[i][1] < Elements[j][1]
               /\ pc = "got" /\ c \in Char => c[1] < Elements[j][1]
    <3>1. \A i \in 1 .. j - 1 : i \in 1 .. n
      BY <1>1
    <3> QED
      BY <1>1, <2>1, <3>1 DEF HeldInv, OrderInv, AheadInv
  <2>2. ASSUME First(x)
        PROVE  /\ Below(x[1])
               /\ \A i \in 1 .. n : Elements'[i] \in Char => Elements'[i][1] < x[1]
               /\ pc = "got" /\ c \in Char => c[1] < x[1]
    BY <1>1, <1>6, <2>2
  <2>3. pc' = "got" /\ First(c') => Below(c'[1])
    BY <1>3 DEF HeldInv, OrderInv, AheadInv
  <2>4. (n + 1) - 1 = n
    BY <1>1
  <2> HIDE DEF n
  <2> QED
    BY <1>1, <1>2, <1>3, <1>7, <2>1, <2>2, <2>3, <2>4 DEF AheadInv
<1>9. NumberInv'
  <2>1. Below(NextLine')
    BY <1>6, BelowMore DEF HeldInv
  <2>2. c \in Char => c[1] < NextLine'
    BY <1>6, Chars
  <2>3. \A j \in 1 .. n : Elements[j] \in Char => Elements[j][1] < NextLine'
    BY <1>6, Chars
  <2> HIDE DEF n
  <2> QED
    BY <1>1, <1>2, <1>3, <1>7, <2>1, <2>2, <2>3 DEF NumberInv
<1> QED
  BY <1>4, <1>5, <1>8, <1>9 DEF OrderInv

LEMMA LineTyped ==
  ASSUME ControlInv
  PROVE  NextLine \in Int /\ line \in Nat /\ line > 0 /\ col \in Nat /\ col <= MaxLineLen
  BY Bytes DEF ControlInv, NextLine

\* The ring keeps its bytes when one is refused.
LEMMA RefusedOrder ==
  ASSUME ControlInv, HeldInv, UNCHANGED ringVars, UNCHANGED deliveryVars,
         NextLine' \in Int, NextLine <= NextLine'
  PROVE  /\ OrderInv' /\ Elements' = Elements /\ Latest' = Latest
         /\ \A j \in 1 .. Len(Elements') - 1 : Link(Elements'[j], Elements'[j + 1])
         /\ (get_pc' # "advance" /\ Elements' # << >>) => Link(c', Elements'[1])
<1>1. Elements' = Elements
  BY RingStutter DEF ControlInv
<1>2. /\ \A m : Below(m)' <=> Below(m)
      /\ \A p, m : HeardBelow(p, m)' <=> HeardBelow(p, m)
      /\ \A i : Fresh(i)' <=> Fresh(i)
      /\ Stored' = Stored
  BY DeliverySame DEF HeldInv
<1>3. /\ buf' = buf /\ heard' = heard /\ pc' = pc /\ c' = c /\ get_pc' = get_pc
  BY DEF deliveryVars
<1>4. SortedInv' /\ FreshInv'
  BY <1>2, <1>3 DEF HeldInv, OrderInv, SortedInv, FreshInv
<1>5. AheadInv'
  BY <1>1, <1>2, <1>3 DEF HeldInv, OrderInv, AheadInv
<1>6. NumberInv'
  <2>1. NextLine \in Int
    BY LineTyped
  <2>2. Below(NextLine')
    BY <2>1, BelowMore DEF HeldInv, OrderInv, NumberInv
  <2>3. c \in Char => c[1] < NextLine'
    BY <2>1, Chars DEF HeldInv, OrderInv, NumberInv
  <2>4. \A j \in 1 .. Len(Elements) : Elements[j] \in Char => Elements[j][1] < NextLine'
    BY <2>1, Chars DEF HeldInv, OrderInv, NumberInv
  <2> QED
    BY <1>1, <1>2, <1>3, <2>2, <2>3, <2>4 DEF NumberInv
<1>7. Latest' = Latest
  BY <1>1, <1>3 DEF Latest
<1> QED
  BY <1>1, <1>3, <1>4, <1>5, <1>6, <1>7 DEF OrderInv, HeldInv, StreamInv

LEMMA ReceiveByte ==
  ASSUME NEW x, Receive(x)
  PROVE  /\ \/ PutOk(x) /\ overflow' = FALSE /\ (overflow => x = END)
            \/ UNCHANGED ringVars /\ overflow' = TRUE
         /\ c' = c /\ get_pc' = get_pc
<1> QED
  BY DEF Receive, PutFull, PutOk, ringVars

\* serial_line_input_byte() while lines are whole.
LEMMA InputHeld ==
  ASSUME ControlInv, HeldInv, InputChar \/ InputEnd
  PROVE  HeldInv'
<1>1. UNCHANGED deliveryVars
  <2>1. c' = c /\ get_pc' = get_pc
    BY ReceiveByte DEF InputChar, InputEnd
  <2> QED
    BY <2>1 DEF InputChar, InputEnd, lineVars, deliveryVars
<1>2. FillInv' /\ TurnInv' /\ HeardInv'
  BY <1>1, DeliverySame DEF HeldInv
<1>3. /\ NextLine \in Int /\ line \in Nat /\ line > 0 /\ col \in Nat /\ line \in 1 .. MaxLines + 1
      /\ MaxLines \in Nat /\ MaxLineLen \in Nat
  BY LineTyped, Bytes DEF ControlInv
<1>4. CASE InputChar
  <2> DEFINE x == << line, col + 1 >>
  <2>1. line' = line /\ col' = col + 1 /\ Receive(x) /\ line <= MaxLines /\ col < MaxLineLen
    BY <1>4 DEF InputChar
  <2>2. x \in Char /\ x \in Byte /\ x # END
    BY <1>3, <2>1, Bytes DEF Char
  <2>3. NextLine' = line + 1 /\ NextLine = IF col = 0 THEN line ELSE line + 1
    BY <1>3, <2>1 DEF NextLine
  <2>4. CASE PutOk(x) /\ overflow' = FALSE /\ ~overflow
    <3>1. Elements' = Append(Elements, x)
      BY <2>2, <2>4, PutOkInv DEF ControlInv
    <3>2. Link(Latest, x)
      <4>1. CASE col = 0
        <5>1. Latest \in {END, NoByte}
          BY <2>4, <4>1 DEF HeldInv, StreamInv
        <5> QED
          BY <2>2, <4>1, <5>1 DEF Link
      <4>2. CASE col # 0
        <5>1. Latest = << line, col >>
          BY <2>4, <4>2 DEF HeldInv, StreamInv
        <5>2. Latest \in Char
          BY <1>3, <2>1, <4>2, <5>1 DEF Char
        <5> QED
          BY <2>2, <5>1, <5>2 DEF Link
      <4> QED
        BY <4>1, <4>2
    <3>3. /\ \A j \in 1 .. Len(Elements') - 1 : Link(Elements'[j], Elements'[j + 1])
          /\ (get_pc' # "advance" /\ Elements' # << >>) => Link(c', Elements'[1])
          /\ Latest' = x
      BY <2>2, <2>4, <3>1, <3>2, StreamPut DEF HeldInv
    <3>4. StreamInv'
      <4>1. col' # 0
        BY <1>3, <2>1
      <4> QED
        BY <2>1, <3>3, <4>1 DEF StreamInv
    <3>5. OrderInv'
      <4>1. First(x) => NextLine = x[1]
        BY <1>3, <2>3 DEF First
      <4>2. NextLine' \in Int /\ NextLine <= NextLine' /\ x[1] < NextLine'
        BY <1>3, <2>3
      <4> HIDE DEF x
      <4> QED
        BY <1>1, <1>3, <2>2, <2>4, <3>1, <4>1, <4>2, PutOrder
    <3> QED
      BY <1>2, <3>4, <3>5 DEF HeldInv
  <2>5. CASE UNCHANGED ringVars /\ overflow' = TRUE
    <3>1. NextLine' \in Int /\ NextLine <= NextLine'
      BY <1>3, <2>3
    <3>2. /\ OrderInv'
          /\ \A j \in 1 .. Len(Elements') - 1 : Link(Elements'[j], Elements'[j + 1])
          /\ (get_pc' # "advance" /\ Elements' # << >>) => Link(c', Elements'[1])
      BY <1>1, <2>5, <3>1, RefusedOrder
    <3>3. StreamInv'
      BY <2>5, <3>2 DEF StreamInv
    <3> QED
      BY <1>2, <3>2, <3>3 DEF HeldInv
  <2> HIDE DEF x
  <2>6. \/ PutOk(x) /\ overflow' = FALSE /\ (overflow => x = END)
        \/ UNCHANGED ringVars /\ overflow' = TRUE
    BY <2>1, ReceiveByte
  <2> QED
    BY <2>2, <2>4, <2>5, <2>6
<1>5. CASE InputEnd
  <2>1. line' = line + 1 /\ col' = 0 /\ Receive(END)
    BY <1>5 DEF InputEnd
  <2>2. END \in Byte /\ END \notin Char
    BY Bytes
  <2>3. NextLine' \in Int /\ NextLine <= NextLine'
    BY <1>3, <2>1 DEF NextLine
  <2>4. CASE PutOk(END) /\ overflow' = FALSE
    <3>1. Elements' = Append(Elements, END)
      BY <2>2, <2>4, PutOkInv DEF ControlInv
    <3>2. Link(Latest, END)
      BY DEF Link
    <3>3. /\ \A j \in 1 .. Len(Elements') - 1 : Link(Elements'[j], Elements'[j + 1])
          /\ (get_pc' # "advance" /\ Elements' # << >>) => Link(c', Elements'[1])
          /\ Latest' = END
      BY <2>2, <2>4, <3>1, <3>2, StreamPut DEF HeldInv
    <3>4. StreamInv'
      BY <2>1, <3>3 DEF StreamInv
    <3>5. OrderInv'
      BY <1>1, <1>3, <2>2, <2>3, <2>4, <3>1, PutOrder DEF First
    <3> QED
      BY <1>2, <3>4, <3>5 DEF HeldInv
  <2>5. CASE UNCHANGED ringVars /\ overflow' = TRUE
    <3>1. /\ OrderInv'
          /\ \A j \in 1 .. Len(Elements') - 1 : Link(Elements'[j], Elements'[j + 1])
          /\ (get_pc' # "advance" /\ Elements' # << >>) => Link(c', Elements'[1])
      BY <1>1, <2>5, <2>3, RefusedOrder
    <3>2. StreamInv'
      BY <2>5, <3>1 DEF StreamInv
    <3> QED
      BY <1>2, <3>1, <3>2 DEF HeldInv
  <2> QED
    BY <2>1, <2>4, <2>5, ReceiveByte
<1> QED
  BY <1>4, <1>5

\* ringbuf_get() before it takes the byte.
LEMMA GetBeginHeld ==
  ASSUME ControlInv, HeldInv, ThreadGet, GetTest \/ GetNothing \/ GetRead
  PROVE  HeldInv'
<1>1. Elements' = Elements
  BY GetBeginInv, RingStutter DEF ControlInv, GetNothing
<1>2. /\ UNCHANGED << wait, buf, ptr, heard, queue, receiver, overflow, line, col >>
      /\ pc = "get" /\ pc' # "got"
  BY DEF ThreadGet, kernelVars, lineVars, inputVars, GetTest, GetNothing, GetRead,
         GetAdvance
<1>3. Stored' = Stored /\ NextLine' = NextLine
  BY <1>2 DEF Stored, NextLine
<1>4. TurnInv' /\ HeardInv'
  <2>1. String' = String
    BY <1>2 DEF String
  <2> QED
    BY <1>2, <2>1 DEF HeldInv, TurnInv, HeardInv
<1>5. /\ \A p, m : HeardBelow(p, m)' <=> HeardBelow(p, m)
      /\ \A i : Fresh(i)' <=> Fresh(i)
  BY <1>2 DEF HeardBelow, Fresh
<1>6. \A m : Below(m)' <=> Below(m)
  BY <1>2, <1>3, <1>5 DEF Below
<1>7. SortedInv' /\ FreshInv' /\ AheadInv'
  BY <1>1, <1>2, <1>3, <1>5, <1>6 DEF HeldInv, OrderInv, SortedInv, FreshInv, AheadInv
<1>8. ASSUME c' = c, get_pc' # "advance", get_pc # "advance" PROVE HeldInv'
  <2>1. Latest' = Latest
    BY <1>1, <1>8 DEF Latest
  <2>2. StreamInv'
    BY <1>1, <1>2, <1>8, <2>1 DEF HeldInv, StreamInv
  <2>3. Fetched' <=> Fetched
    BY <1>2, <1>8 DEF Fetched, ThreadGet
  <2>4. FillInv'
    BY <1>2, <1>3, <1>8, <2>3 DEF HeldInv, FillInv
  <2>5. NumberInv'
    BY <1>1, <1>3, <1>6, <1>8 DEF HeldInv, OrderInv, NumberInv
  <2> QED
    BY <1>4, <1>7, <2>2, <2>4, <2>5 DEF HeldInv, OrderInv
<1>9. CASE GetTest
  BY <1>9, <1>8 DEF GetTest
<1>10. CASE GetNothing
  BY <1>10, <1>8 DEF GetNothing, ringVars
<1>11. CASE GetRead
  <2>1. /\ Elements \in Seq(Byte) /\ Elements # << >> /\ Len(Elements) \in Nat
        /\ RingInv'
    BY <1>11, ElementsTyped, GetBeginInv DEF ControlInv, GetRead
  <2>2. get_pc' = "advance" /\ get_pc = "read"
    BY <1>11 DEF GetRead
  <2>3. c' = Elements[1] /\ Len(Elements) > 0 /\ c' \in Byte
    BY <1>1, <2>1, <2>2, ElementsTyped, ElementsIsSeqNext DEF RingInv, GetsOldest
  <2>4. Link(c, c')
    BY <2>1, <2>2, <2>3 DEF HeldInv, StreamInv
  <2>5. StreamInv'
    <3>1. Latest' = Latest
      BY <1>1, <2>1 DEF Latest
    <3> QED
      BY <1>1, <1>2, <2>2, <3>1 DEF HeldInv, StreamInv
  <2>6. FillInv'
    <3>1. wait = "any" /\ ~Fetched /\ Fetched'
      BY <1>2, <2>2 DEF ControlInv, Fetched
    <3>2. /\ c \notin Char => ptr = 0
          /\ c \in Char => ptr = AtMost(c[2], Size - 1) /\ (ptr > 0 => buf[0][1] = c[1])
      BY <3>1 DEF HeldInv, FillInv
    <3>3. ASSUME c' \in Char
          PROVE  ptr = AtMost(c'[2] - 1, Size - 1) /\ (ptr > 0 => buf[0][1] = c'[1])
      <4>1. CASE c \in Char /\ c' = << c[1], c[2] + 1 >>
        <5>1. c'[2] - 1 = c[2] /\ c'[1] = c[1]
          BY <4>1, Chars
        <5> QED
          BY <3>2, <4>1, <5>1
      <4>2. CASE c \in {END, NoByte} /\ c'[2] = 1
        <5>1. ptr = 0
          BY <3>2, <4>2, Bytes
        <5>2. AtMost(0, Size - 1) = 0
          BY Bytes DEF AtMost
        <5> QED
          BY <4>2, <5>1, <5>2
      <4> QED
        BY <2>4, <3>3, <4>1, <4>2, Bytes DEF Link
    <3>4. \A i \in 0 .. Stored' - 1 : buf[i] \in Char /\ buf[i] = << buf[0][1], i + 1 >>
      BY <1>3 DEF HeldInv, FillInv
    <3> QED
      BY <1>2, <3>1, <3>3, <3>4 DEF FillInv
  <2>7. NumberInv'
    <3>1. 1 \in 1 .. Len(Elements)
      BY <2>1, <2>3
    <3>2. c' \in Char => c'[1] < NextLine
      BY <2>3, <3>1 DEF HeldInv, OrderInv, NumberInv
    <3> QED
      BY <1>1, <1>3, <1>6, <3>2 DEF HeldInv, OrderInv, NumberInv
  <2> QED
    BY <1>4, <1>7, <2>5, <2>6, <2>7 DEF HeldInv, OrderInv
<1> QED
  BY <1>9, <1>10, <1>11

\* ringbuf_get() takes the byte.
LEMMA GetAdvanceHeld ==
  ASSUME ControlInv, HeldInv, ThreadGet, GetAdvance
  PROVE  HeldInv'
<1> DEFINE n == Len(Elements)
<1>1. /\ c = Head(Elements) /\ Elements' = Tail(Elements) /\ Elements # << >>
  BY GetAdvanceInv DEF ControlInv
<1>2. /\ UNCHANGED << wait, buf, ptr, heard, queue, receiver, overflow, line, col >>
      /\ pc = "get" /\ get_pc = "advance" /\ get_pc' = "idle" /\ pc' = "got" /\ c' = c
  BY DEF ThreadGet, kernelVars, lineVars, inputVars, GetTest, GetNothing, GetRead,
         GetAdvance
<1>3. Stored' = Stored /\ NextLine' = NextLine /\ (Fetched' <=> Fetched)
  BY <1>2 DEF Stored, NextLine, Fetched
<1>4. TurnInv' /\ HeardInv'
  <2>1. String' = String
    BY <1>2 DEF String
  <2> QED
    BY <1>2, <2>1 DEF HeldInv, TurnInv, HeardInv
<1>5. /\ \A p, m : HeardBelow(p, m)' <=> HeardBelow(p, m)
      /\ \A i : Fresh(i)' <=> Fresh(i)
  BY <1>2 DEF HeardBelow, Fresh
<1>6. \A m : Below(m)' <=> Below(m)
  BY <1>2, <1>3, <1>5 DEF Below
<1>7. SortedInv' /\ FreshInv'
  BY <1>2, <1>3, <1>5, <1>6 DEF HeldInv, OrderInv, SortedInv, FreshInv
<1>8. FillInv'
  BY <1>2, <1>3 DEF HeldInv, FillInv
<1>9. /\ Elements \in Seq(Byte) /\ n \in Nat /\ n > 0 /\ c = Elements[1]
  <2>1. Elements \in Seq(Byte)
    BY ElementsTyped DEF ControlInv
  <2> QED
    BY <1>1, <2>1
<1>10. /\ Elements' \in Seq(Byte) /\ Len(Elements') = n - 1
       /\ (Elements' = << >> <=> n = 1)
       /\ \A j \in 1 .. n - 1 : Elements'[j] = Elements[j + 1]
  <2>1. /\ Elements' \in Seq(Byte) /\ Len(Elements') = n - 1
        /\ \A j \in 1 .. n - 1 : Elements'[j] = Elements[j + 1]
    BY <1>1, <1>9, HeadTailProperties
  <2> QED
    BY <2>1, <1>9
<1>11. /\ \A j \in 1 .. n - 1 : Link(Elements[j], Elements[j + 1])
       /\ ~overflow => IF col = 0 THEN Latest \in {END, NoByte}
                                  ELSE Latest = << line, col >>
       /\ Latest = Elements[n]
       /\ Latest' = IF n = 1 THEN c ELSE Elements'[n - 1]
  BY <1>1, <1>2, <1>10 DEF HeldInv, StreamInv, Latest
<1>12. /\ \A j \in 1 .. n : Elements[j] \in Char => Elements[j][1] < NextLine
       /\ \A j \in 1 .. n : First(Elements[j]) =>
            /\ Below(Elements[j][1])
            /\ \A i \in 1 .. j - 1 : Elements[i] \in Char => Elements[i][1] < Elements[j][1]
  BY DEF HeldInv, OrderInv, NumberInv, AheadInv
<1> HIDE DEF n
<1>13. StreamInv'
  <2>1. ASSUME NEW j \in 1 .. (n - 1) - 1 PROVE Link(Elements'[j], Elements'[j + 1])
    <3>1. j \in 1 .. n - 1 /\ j + 1 \in 1 .. n - 1
      BY <1>9
    <3> QED
      BY <1>10, <1>11, <3>1
  <2>2. ASSUME Elements' # << >> PROVE Link(c', Elements'[1])
    <3>1. 1 \in 1 .. n - 1 /\ Elements'[1] = Elements[1 + 1]
      BY <1>9, <1>10, <2>2
    <3> QED
      BY <1>2, <1>9, <1>11, <3>1
  <2>3. Latest' = Latest
    <3>1. CASE n = 1
      BY <1>9, <1>11, <3>1
    <3>2. CASE n # 1
      <4>1. n - 1 \in 1 .. n - 1 /\ (n - 1) + 1 = n
        BY <1>9, <3>2
      <4> QED
        BY <1>10, <1>11, <3>2, <4>1
    <3> QED
      BY <3>1, <3>2
  <2> QED
    BY <1>2, <1>10, <1>11, <2>1, <2>2, <2>3 DEF StreamInv
<1>14. AheadInv'
  <2>1. ASSUME NEW j \in 1 .. n - 1, First(Elements'[j])
        PROVE  /\ Below(Elements'[j][1])
               /\ \A i \in 1 .. j - 1 : Elements'[i] \in Char => Elements'[i][1] < Elements'[j][1]
               /\ c \in Char => c[1] < Elements'[j][1]
    <3>1. j + 1 \in 1 .. n /\ (j + 1) - 1 = j /\ 1 \in 1 .. j /\ Elements'[j] = Elements[j + 1]
      BY <1>9, <1>10
    <3>2. \A i \in 1 .. j - 1 : i + 1 \in 1 .. j /\ i \in 1 .. n - 1
      BY <1>9
    <3>3. /\ Below(Elements[j + 1][1])
          /\ \A i \in 1 .. j : Elements[i] \in Char => Elements[i][1] < Elements[j + 1][1]
      BY <1>12, <2>1, <3>1
    <3> QED
      BY <1>9, <1>10, <3>1, <3>2, <3>3
  <2>2. ASSUME First(c) PROVE Below(c[1])
    <3>1. 1 \in 1 .. n
      BY <1>9
    <3> QED
      BY <1>9, <1>12, <2>2, <3>1
  <2> QED
    BY <1>2, <1>6, <1>10, <2>1, <2>2 DEF AheadInv
<1>15. NumberInv'
  <2>1. \A j \in 1 .. n - 1 : j + 1 \in 1 .. n
    BY <1>9
  <2>2. \A j \in 1 .. n - 1 : Elements'[j] \in Char => Elements'[j][1] < NextLine
    BY <1>10, <1>12, <2>1
  <2> QED
    BY <1>2, <1>3, <1>6, <1>10, <2>2 DEF HeldInv, OrderInv, NumberInv
<1> QED
  BY <1>4, <1>7, <1>8, <1>13, <1>14, <1>15 DEF HeldInv, OrderInv

\* The steps of the kernel and of the process that leave the ring alone.
LEMMA RingAlone ==
  ASSUME ControlInv, HeldInv, UNCHANGED ringVars, UNCHANGED inputVars
  PROVE  /\ StreamInv' /\ Elements' = Elements /\ NextLine' = NextLine
         /\ c' = c /\ get_pc' = get_pc
<1>1. Elements' = Elements
  BY RingStutter DEF ControlInv
<1>2. /\ c' = c /\ get_pc' = get_pc /\ overflow' = overflow /\ line' = line /\ col' = col
  BY DEF ringVars, inputVars
<1>3. Latest' = Latest
  BY <1>1, <1>2 DEF Latest
<1>4. StreamInv'
  BY <1>1, <1>2, <1>3 DEF HeldInv, StreamInv
<1>5. NextLine' = NextLine
  BY <1>2 DEF NextLine
<1> QED
  BY <1>1, <1>2, <1>4, <1>5

\* What is ahead stays ahead of what was stored and heard, if nothing more was.
LEMMA AheadSame ==
  ASSUME HeldInv, pc' # "got", Elements' = Elements, NextLine' = NextLine, c' = c,
         \A j \in 1 .. Len(Elements) : First(Elements[j]) /\ Below(Elements[j][1])
                                         => Below(Elements[j][1])',
         Below(NextLine) => Below(NextLine)'
  PROVE  AheadInv' /\ NumberInv'
<1>1. AheadInv'
  BY DEF HeldInv, OrderInv, AheadInv
<1>2. NumberInv'
  BY DEF HeldInv, OrderInv, NumberInv
<1> QED
  BY <1>1, <1>2

\* A step of the kernel in which nobody hears anything and buf stays.
LEMMA QuietHeld ==
  ASSUME ControlInv, HeldInv, UNCHANGED ringVars, UNCHANGED inputVars,
         buf' = buf, heard' = heard, wait' = wait, ptr' = ptr,
         pc = "kernel", pc' # "got", TurnInv',
         \A i \in DOMAIN List : Fresh(i)' => Fresh(i),
         \A i \in DOMAIN List : i < receiver' <=> i < receiver
  PROVE  HeldInv'
<1>1. /\ StreamInv' /\ Elements' = Elements /\ NextLine' = NextLine
      /\ c' = c /\ get_pc' = get_pc
  BY RingAlone
<1>2. Stored' = Stored /\ ~Fetched /\ ~Fetched' /\ String' = String
  BY <1>1 DEF Stored, Fetched, String, ControlInv
<1>3. FillInv'
  BY <1>1, <1>2 DEF HeldInv, FillInv
<1>4. HeardInv'
  BY <1>2 DEF HeldInv, HeardInv
<1>5. /\ \A p, m : HeardBelow(p, m)' <=> HeardBelow(p, m)
  BY DEF HeardBelow
<1>6. \A m : Below(m)' <=> Below(m)
  BY <1>2, <1>5 DEF Below
<1>7. SortedInv' /\ FreshInv'
  BY <1>2, <1>5 DEF HeldInv, OrderInv, SortedInv, FreshInv
<1>8. AheadInv' /\ NumberInv'
  BY <1>1, <1>6, AheadSame
<1> QED
  BY <1>1, <1>3, <1>4, <1>7, <1>8 DEF HeldInv, OrderInv

LEMMA QueueTyped ==
  ASSUME ControlInv
  PROVE  /\ queue \in Seq({"line", "CONTINUE", "other"}) /\ Len(queue) \in Nat
         /\ DOMAIN queue = 1 .. Len(queue) /\ Len(queue) <= NUMEVENTS
         /\ receiver \in Nat /\ receiver <= Len(List)
         /\ \A i \in DOMAIN List : i \in Nat /\ i > 0
         /\ ptr \in Nat /\ ptr <= Size
<1>1. queue \in Seq({"line", "CONTINUE", "other"}) /\ Len(queue) <= NUMEVENTS
  BY DEF ControlInv, SerialTypeOK
<1>2. receiver \in 0 .. Len(List) /\ ptr \in 0 .. Size
  BY DEF ControlInv, SerialTypeOK
<1>3. DOMAIN List = 1 .. Len(List) /\ Len(List) \in Nat
  BY Places
<1> QED
  BY <1>1, <1>2, <1>3, Bytes

\* What is left of a queue, and what it becomes with one event more.
LEMMA QueueTail ==
  ASSUME ControlInv, queue # << >>
  PROVE  /\ DOMAIN Tail(queue) = 1 .. Len(queue) - 1 /\ 1 \in DOMAIN queue
         /\ Tail(queue) \in Seq({"line", "CONTINUE", "other"})
         /\ Len(Tail(queue)) <= NUMEVENTS /\ Head(queue) = queue[1]
         /\ \A i \in DOMAIN Tail(queue) : Tail(queue)[i] = queue[i + 1] /\ i + 1 \in DOMAIN queue
         /\ \A i \in DOMAIN queue : i = 1 \/ i - 1 \in DOMAIN Tail(queue)
<1>1. /\ queue \in Seq({"line", "CONTINUE", "other"}) /\ Len(queue) \in Nat
      /\ DOMAIN queue = 1 .. Len(queue) /\ Len(queue) <= NUMEVENTS /\ NUMEVENTS \in Nat
  BY QueueTyped, Bytes
<1>2. /\ Tail(queue) \in Seq({"line", "CONTINUE", "other"})
      /\ Len(Tail(queue)) = Len(queue) - 1
      /\ \A i \in 1 .. Len(queue) - 1 : Tail(queue)[i] = queue[i + 1]
      /\ Len(queue) > 0 /\ Head(queue) = queue[1]
  BY <1>1, HeadTailProperties
<1>3. DOMAIN Tail(queue) = 1 .. Len(queue) - 1
  BY <1>2
<1> QED
  BY <1>1, <1>2, <1>3

LEMMA QueueAppend ==
  ASSUME NEW q \in Seq({"line", "CONTINUE", "other"}), NEW e \in {"line", "CONTINUE", "other"}
  PROVE  /\ Append(q, e) \in Seq({"line", "CONTINUE", "other"})
         /\ Len(Append(q, e)) = Len(q) + 1 /\ Len(q) \in Nat
         /\ DOMAIN q = 1 .. Len(q)
         /\ DOMAIN Append(q, e) = 1 .. Len(q) + 1
         /\ Append(q, e)[Len(q) + 1] = e
         /\ \A i \in DOMAIN q : Append(q, e)[i] = q[i]
<1>1. /\ Append(q, e) \in Seq({"line", "CONTINUE", "other"})
      /\ Len(Append(q, e)) = Len(q) + 1
      /\ \A i \in 1 .. Len(q) : Append(q, e)[i] = q[i]
      /\ Append(q, e)[Len(q) + 1] = e
  BY AppendProperties
<1> QED
  BY <1>1

LEMMA PollHeld ==
  ASSUME ControlInv, HeldInv, KernelPoll
  PROVE  HeldInv'
<1>1. /\ UNCHANGED ringVars /\ UNCHANGED inputVars /\ buf' = buf /\ heard' = heard
      /\ queue' = queue /\ receiver' = receiver /\ pc = "kernel"
  BY DEF KernelPoll
<1>2. wait' = wait /\ ptr' = ptr /\ pc' # "got"
  BY DEF KernelPoll, Call, ControlInv, SerialTypeOK
<1>3. TurnInv'
  BY <1>1, <1>2 DEF HeldInv, TurnInv
<1>4. \A i \in DOMAIN List : Fresh(i)' => Fresh(i)
  BY <1>1, <1>2 DEF Fresh
<1> QED
  BY <1>1, <1>2, <1>3, <1>4, QuietHeld

LEMMA PostHeld ==
  ASSUME ControlInv, HeldInv, OtherPost
  PROVE  HeldInv'
<1>1. /\ UNCHANGED ringVars /\ UNCHANGED inputVars /\ buf' = buf /\ heard' = heard
      /\ receiver' = receiver /\ pc = "kernel" /\ wait' = wait /\ ptr' = ptr /\ pc' # "got"
  BY DEF OtherPost, lineVars
<1>2. queue' = queue \/ queue' = Append(queue, "other")
  BY DEF OtherPost
<1>3. /\ DOMAIN Append(queue, "other") = 1 .. Len(queue) + 1 /\ DOMAIN queue = 1 .. Len(queue)
      /\ Append(queue, "other")[Len(queue) + 1] = "other" /\ Len(queue) \in Nat
      /\ \A i \in DOMAIN queue : Append(queue, "other")[i] = queue[i]
  BY QueueTyped, QueueAppend
<1>4. /\ \A i \in DOMAIN queue' : queue'[i] = "other" \/ (i \in DOMAIN queue /\ queue'[i] = queue[i])
      /\ \A i \in DOMAIN queue : i \in DOMAIN queue' /\ queue'[i] = queue[i]
  BY <1>2, <1>3
<1>5. TurnInv'
  BY <1>1, <1>4 DEF HeldInv, TurnInv
<1>6. \A i \in DOMAIN List : Fresh(i)' => Fresh(i)
  BY <1>1, <1>4 DEF Fresh
<1> QED
  BY <1>1, <1>5, <1>6, QuietHeld

LEMMA BroadcastHeld ==
  ASSUME ControlInv, HeldInv, KernelBroadcast
  PROVE  HeldInv'
<1>1. /\ UNCHANGED ringVars /\ UNCHANGED inputVars /\ buf' = buf /\ heard' = heard
      /\ receiver' = 1 /\ receiver = 0 /\ pc = "kernel" /\ wait' = wait /\ ptr' = ptr
      /\ pc' = pc /\ queue # << >> /\ Head(queue) = "line" /\ queue' = Tail(queue)
  BY DEF KernelBroadcast, lineVars
<1>2. /\ 1 \in DOMAIN queue /\ queue[1] = "line"
      /\ \A i \in DOMAIN queue' : queue'[i] = queue[i + 1] /\ i + 1 \in DOMAIN queue /\ i \in Nat /\ i > 0
      /\ \A i \in DOMAIN queue : i \in Nat /\ (i = 1 \/ (i - 1 \in DOMAIN queue' /\ queue'[i - 1] = queue[i]))
  <2>1. /\ 1 \in DOMAIN queue /\ queue[1] = "line"
        /\ \A i \in DOMAIN queue' : queue'[i] = queue[i + 1] /\ i + 1 \in DOMAIN queue
        /\ \A i \in DOMAIN queue : i = 1 \/ i - 1 \in DOMAIN queue'
        /\ DOMAIN queue' = 1 .. Len(queue) - 1 /\ DOMAIN queue = 1 .. Len(queue)
        /\ Len(queue) \in Nat
    BY <1>1, QueueTail, QueueTyped
  <2>2. ASSUME NEW i \in DOMAIN queue, i # 1 PROVE queue'[i - 1] = queue[i]
    <3>1. i - 1 \in DOMAIN queue' /\ (i - 1) + 1 = i
      BY <2>1, <2>2
    <3> QED
      BY <2>1, <3>1
  <2> QED
    BY <2>1, <2>2
<1>3. wait = "CONTINUE"
  BY <1>2 DEF HeldInv, TurnInv, ControlInv, SerialTypeOK
<1>4. TurnInv'
  <2>1. \E i \in DOMAIN queue' : queue'[i] = "CONTINUE"
    <3>1. PICK i \in DOMAIN queue : queue[i] = "CONTINUE"
      BY <1>3 DEF HeldInv, TurnInv
    <3> QED
      BY <1>2, <3>1
  <2>2. \A i \in DOMAIN queue' : queue'[i] # "line"
    <3>1. SUFFICES ASSUME NEW i \in DOMAIN queue', queue'[i] = "line" PROVE FALSE
      OBVIOUS
    <3>2. i + 1 \in DOMAIN queue /\ queue[i + 1] = "line" /\ i + 1 # 1
      BY <1>2, <3>1
    <3> QED
      BY <1>2, <3>2 DEF HeldInv, TurnInv
  <2>3. ASSUME NEW i \in DOMAIN queue', NEW j \in DOMAIN queue',
               queue'[i] = "CONTINUE", queue'[j] = "CONTINUE"
        PROVE  i = j
    <3>1. i + 1 = j + 1
      BY <1>2, <2>3 DEF HeldInv, TurnInv
    <3> QED
      BY <1>2, <3>1
  <2> QED
    BY <1>1, <1>3, <2>1, <2>2, <2>3 DEF TurnInv
<1>5. \A i \in DOMAIN List : Fresh(i)' => Fresh(i)
  BY <1>2 DEF Fresh
<1>6. \A i \in DOMAIN List : i < receiver' <=> i < receiver
  BY <1>1, QueueTyped
<1> QED
  BY <1>1, <1>4, <1>5, <1>6, QuietHeld

\* The process goes on: the line has been heard, or could not be posted, and buf
\* is filled from its beginning again.
LEMMA AnewHeld ==
  ASSUME ControlInv, HeldInv, UNCHANGED ringVars, UNCHANGED inputVars,
         heard' = heard, wait' = "any", ptr' = 0, pc' = "get", c = END, get_pc = "idle",
         receiver = 0, receiver' = 0, \A i \in DOMAIN queue' : queue'[i] = "other"
  PROVE  HeldInv'
<1>1. /\ StreamInv' /\ Elements' = Elements /\ NextLine' = NextLine
      /\ c' = c /\ get_pc' = get_pc
  BY RingAlone
<1>2. Stored' = 0 /\ ~Fetched'
  BY <1>1 DEF Stored, Fetched
<1>3. FillInv'
  <2>1. c' \notin Char
    BY <1>1, Bytes
  <2>2. \A i \in 0 .. Stored' - 1 : FALSE
    BY <1>2
  <2> QED
    BY <2>1, <2>2 DEF FillInv
<1>4. TurnInv'
  BY DEF TurnInv
<1>5. HeardInv'
  <2>1. \A i \in DOMAIN List : ~(i < 0)
    BY QueueTyped
  <2> QED
    BY <2>1 DEF HeldInv, HeardInv
<1>6. /\ \A p, m : HeardBelow(p, m)' <=> HeardBelow(p, m)
  BY DEF HeardBelow
<1>7. \A m : Below(m) => Below(m)'
  BY <1>2, <1>6 DEF Below
<1>8. SortedInv' /\ FreshInv'
  BY <1>2, <1>6 DEF HeldInv, OrderInv, SortedInv, FreshInv
<1>9. AheadInv' /\ NumberInv'
  BY <1>1, <1>7, AheadSame
<1> QED
  BY <1>1, <1>3, <1>4, <1>5, <1>8, <1>9 DEF HeldInv, OrderInv

LEMMA EventHeld ==
  ASSUME ControlInv, HeldInv, KernelEvent
  PROVE  HeldInv'
<1>1. /\ UNCHANGED ringVars /\ UNCHANGED inputVars /\ buf' = buf /\ heard' = heard
      /\ receiver' = 0 /\ receiver = 0 /\ pc = "kernel" /\ get_pc = "idle"
      /\ queue # << >> /\ Head(queue) # "line" /\ queue' = Tail(queue)
  BY DEF KernelEvent, ControlInv
<1>2. /\ 1 \in DOMAIN queue /\ Head(queue) = queue[1]
      /\ \A i \in DOMAIN queue' : queue'[i] = queue[i + 1] /\ i + 1 \in DOMAIN queue /\ i \in Nat /\ i > 0
      /\ \A i \in DOMAIN queue : i \in Nat /\ queue[i] \in {"line", "CONTINUE", "other"}
           /\ (i = 1 \/ (i - 1 \in DOMAIN queue' /\ queue'[i - 1] = queue[i]))
  <2>1. /\ 1 \in DOMAIN queue /\ Head(queue) = queue[1]
        /\ \A i \in DOMAIN queue' : queue'[i] = queue[i + 1] /\ i + 1 \in DOMAIN queue
        /\ \A i \in DOMAIN queue : i = 1 \/ i - 1 \in DOMAIN queue'
        /\ DOMAIN queue' = 1 .. Len(queue) - 1 /\ DOMAIN queue = 1 .. Len(queue)
        /\ Len(queue) \in Nat /\ queue \in Seq({"line", "CONTINUE", "other"})
    BY <1>1, QueueTail, QueueTyped
  <2>2. ASSUME NEW i \in DOMAIN queue, i # 1 PROVE queue'[i - 1] = queue[i]
    <3>1. i - 1 \in DOMAIN queue' /\ (i - 1) + 1 = i
      BY <2>1, <2>2
    <3> QED
      BY <2>1, <3>1
  <2> QED
    BY <2>1, <2>2
<1>3. CASE Head(queue) # "CONTINUE"
  <2>1. pc' = pc /\ wait' = wait /\ ptr' = ptr
    BY <1>3 DEF KernelEvent
  <2>2. TurnInv'
    <3>1. wait = "any" => \A i \in DOMAIN queue' : queue'[i] = "other"
      BY <1>2 DEF HeldInv, TurnInv
    <3>2. wait = "CONTINUE" => \E i \in DOMAIN queue' : queue'[i] = "CONTINUE"
      <4>1. SUFFICES ASSUME wait = "CONTINUE"
                     PROVE  \E i \in DOMAIN queue' : queue'[i] = "CONTINUE"
        OBVIOUS
      <4>2. PICK i \in DOMAIN queue : queue[i] = "CONTINUE"
        BY <4>1 DEF HeldInv, TurnInv
      <4> QED
        BY <1>2, <1>3, <4>2
    <3>3. ASSUME NEW i \in DOMAIN queue', NEW j \in DOMAIN queue'
          PROVE  /\ queue'[i] = "CONTINUE" /\ queue'[j] = "CONTINUE" => i = j
                 /\ queue'[i] = "line" /\ queue'[j] = "line" => i = j
                 /\ queue'[i] = "line" /\ queue'[j] = "CONTINUE" => i < j
      <4>1. /\ queue[i + 1] = "CONTINUE" /\ queue[j + 1] = "CONTINUE" => i + 1 = j + 1
            /\ queue[i + 1] = "line" /\ queue[j + 1] = "line" => i + 1 = j + 1
            /\ queue[i + 1] = "line" /\ queue[j + 1] = "CONTINUE" => i + 1 < j + 1
        BY <1>2 DEF HeldInv, TurnInv
      <4> QED
        BY <1>2, <4>1
    <3> QED
      BY <1>1, <2>1, <3>1, <3>2, <3>3 DEF TurnInv
  <2>3. \A i \in DOMAIN List : Fresh(i)' => Fresh(i)
    BY <1>1, <1>2, <2>1 DEF Fresh
  <2> QED
    BY <1>1, <2>1, <2>2, <2>3, QuietHeld
<1>4. CASE Head(queue) = "CONTINUE"
  <2>1. queue[1] = "CONTINUE"
    BY <1>2, <1>4
  <2>2. wait = "CONTINUE"
    BY <1>2, <2>1 DEF HeldInv, TurnInv, ControlInv, SerialTypeOK
  <2>3. pc' = "get" /\ wait' = "any" /\ ptr' = 0
    BY <1>4, <2>2 DEF KernelEvent, Call
  <2>4. c = END
    BY <2>2 DEF HeldInv, FillInv
  <2>5. \A i \in DOMAIN queue' : queue'[i] = "other"
    <3>1. SUFFICES ASSUME NEW i \in DOMAIN queue', queue'[i] # "other" PROVE FALSE
      OBVIOUS
    <3>2. /\ i + 1 \in DOMAIN queue /\ i \in Nat /\ i > 0
          /\ queue[i + 1] = "line" \/ queue[i + 1] = "CONTINUE"
      BY <1>2, <3>1
    <3>3. CASE queue[i + 1] = "CONTINUE"
      <4>1. i + 1 = 1
        BY <1>2, <2>1, <3>2, <3>3 DEF HeldInv, TurnInv
      <4> QED
        BY <3>2, <4>1
    <3>4. CASE queue[i + 1] = "line"
      <4>1. i + 1 < 1
        BY <1>2, <2>1, <3>2, <3>4 DEF HeldInv, TurnInv
      <4> QED
        BY <3>2, <4>1
    <3> QED
      BY <3>2, <3>3, <3>4
  <2> QED
    BY <1>1, <2>3, <2>4, <2>5, AnewHeld
<1> QED
  BY <1>3, <1>4

\* What a listener finds in buf while the process holds still.
LEMMA StringHeld ==
  ASSUME ControlInv, HeldInv, wait = "CONTINUE"
  PROVE  /\ String \in Seq(Char) /\ Len(String) = Stored
         /\ \E n \in 1 .. MaxLines : Prefix(String, n)
         /\ (String # << >> <=> Stored > 0)
         /\ Stored > 0 => String[1] = buf[0]
<1>1. /\ Stored = ptr - 1 /\ ptr \in Nat /\ 0 < ptr /\ ptr <= Size /\ buf[ptr - 1] = NUL
      /\ \A i \in 0 .. Stored - 1 : buf[i] \in Char /\ buf[i] = << buf[0][1], i + 1 >>
      /\ Size \in Nat
  BY QueueTyped, Bytes DEF Stored, HeldInv, FillInv
<1> DEFINE stop == CHOOSE i \in Cell : /\ buf[i] = NUL
                                       /\ \A j \in 0 .. i - 1 : buf[j] # NUL
<1>2. Stored \in Nat /\ Stored \in Cell /\ buf[Stored] = NUL
  BY <1>1 DEF Cell
<1>3. \A j \in 0 .. Stored - 1 : buf[j] # NUL
  BY <1>1, Bytes
<1>4. stop \in Cell /\ buf[stop] = NUL /\ \A j \in 0 .. stop - 1 : buf[j] # NUL
  BY <1>2, <1>3
<1>5. stop = Stored
  <2> HIDE DEF stop
  <2>1. stop \in Nat
    BY <1>1, <1>4 DEF Cell
  <2>2. stop < Stored => stop \in 0 .. Stored - 1
    BY <1>2, <2>1
  <2>3. Stored < stop => Stored \in 0 .. stop - 1
    BY <1>2, <2>1
  <2> QED
    BY <1>2, <1>3, <1>4, <2>1, <2>2, <2>3
<1>6. String = [i \in 1 .. Stored |-> buf[i - 1]]
  BY <1>5 DEF String
<1>7. ASSUME NEW i \in 1 .. Stored
      PROVE  String[i] \in Char /\ String[i] = << buf[0][1], i >> /\ String[i] = buf[i - 1]
  <2>1. i - 1 \in 0 .. Stored - 1 /\ (i - 1) + 1 = i
    BY <1>2
  <2> QED
    BY <1>1, <1>6, <2>1
<1>8. String \in Seq(Char) /\ Len(String) = Stored
  <2>1. DOMAIN String = 1 .. Stored /\ String = [i \in 1 .. Stored |-> String[i]]
    BY <1>6
  <2>2. String \in [1 .. Stored -> Char]
    BY <1>7, <2>1
  <2> QED
    BY <1>2, <2>2
<1>9. Prefix(String, buf[0][1])
  BY <1>2, <1>6, <1>7, <1>8 DEF Prefix
<1>10. CASE Stored = 0
  <2>1. Prefix(String, 1)
    BY <1>6, <1>8, <1>10 DEF Prefix
  <2>2. 1 \in 1 .. MaxLines
    BY Bytes
  <2> QED
    BY <1>8, <1>10, <2>1, <2>2
<1>11. CASE Stored > 0
  <2>1. 1 \in 1 .. Stored /\ 1 - 1 = 0
    BY <1>2, <1>11
  <2>2. String[1] = buf[0] /\ buf[0] \in Char
    BY <1>7, <2>1
  <2>3. buf[0][1] \in 1 .. MaxLines
    BY <2>2, Chars
  <2> QED
    BY <1>8, <1>9, <1>11, <2>2, <2>3
<1> QED
  BY <1>2, <1>10, <1>11

LEMMA DeliverHeld ==
  ASSUME ControlInv, HeldInv, KernelDeliver
  PROVE  HeldInv'
<1> DEFINE r == receiver
           q == List[r]
<1>1. /\ UNCHANGED ringVars /\ UNCHANGED inputVars /\ buf' = buf /\ queue' = queue
      /\ receiver' = (IF r = Len(List) THEN 0 ELSE r + 1) /\ pc = "kernel" /\ r # 0
  BY DEF KernelDeliver
<1>2. wait = "CONTINUE" /\ \A j \in DOMAIN queue : queue[j] # "line"
  BY <1>1 DEF HeldInv, TurnInv, ControlInv, SerialTypeOK
<1>3. wait' = wait /\ ptr' = ptr /\ pc' = pc
  BY <1>2 DEF KernelDeliver, Call
<1>4. /\ r \in 1 .. Len(List) /\ Len(List) \in Nat /\ DOMAIN List = 1 .. Len(List)
      /\ \A i \in DOMAIN List : i \in Nat /\ i > 0
      /\ \A i \in DOMAIN List : List[i] \in App \cup {"serial"}
      /\ "serial" \notin App
      /\ \A i, j \in DOMAIN List : List[i] = List[j] => i = j
  BY <1>1, QueueTyped, Places
<1>5. \/ q = "serial" /\ heard' = heard
      \/ q \in App /\ heard' = [heard EXCEPT ![q] = Append(@, String)]
  BY <1>4 DEF KernelDeliver
<1>6. /\ StreamInv' /\ Elements' = Elements /\ NextLine' = NextLine
      /\ c' = c /\ get_pc' = get_pc
  BY <1>1, RingAlone
<1>7. Stored' = Stored /\ ~Fetched /\ ~Fetched' /\ String' = String
  BY <1>1, <1>3, <1>6 DEF Stored, Fetched, String, ControlInv
<1>8. FillInv'
  BY <1>1, <1>3, <1>6, <1>7 DEF HeldInv, FillInv
<1>9. TurnInv'
  BY <1>1, <1>2, <1>3 DEF HeldInv, TurnInv
<1>10. /\ String \in Seq(Char)
       /\ \E n \in 1 .. MaxLines : Prefix(String, n)
       /\ (String # << >> <=> Stored > 0)
       /\ Stored > 0 => String[1] = buf[0]
  BY <1>2, StringHeld
<1>4a. /\ r \in Nat /\ r > 0 /\ r <= Len(List) /\ Len(List) \in Nat
       /\ \A i \in DOMAIN List : i \in Nat /\ i > 0 /\ i <= Len(List)
  BY <1>4
<1>11. \A i \in DOMAIN List : /\ (i < receiver' <=> (r # Len(List) /\ i <= r))
                              /\ (i <= r <=> i < r \/ i = r)
                              /\ 0 < receiver' /\ receiver' <= i => r < i
  <2>1. SUFFICES ASSUME NEW i \in DOMAIN List
                 PROVE  /\ (i < receiver' <=> (r # Len(List) /\ i <= r))
                        /\ (i <= r <=> i < r \/ i = r)
                        /\ 0 < receiver' /\ receiver' <= i => r < i
    OBVIOUS
  <2>2. i \in Nat /\ i > 0 /\ i <= Len(List)
    BY <1>4a
  <2> HIDE DEF r
  <2>3. CASE r = Len(List)
    BY <1>1, <1>4a, <2>2, <2>3
  <2>4. CASE r # Len(List)
    BY <1>1, <1>4a, <2>2, <2>4
  <2> QED
    BY <2>3, <2>4
<1>12. /\ heard \in [App -> Seq(Seq(Char))]
       /\ \A p \in App : \A k \in DOMAIN heard[p] :
            \E n \in 1 .. MaxLines : Prefix(heard[p][k], n)
       /\ \A i, j \in DOMAIN List : List[i] \in App /\ List[j] \in App =>
            /\ (i < r <=> j < r) => heard[List[i]] = heard[List[j]]
            /\ i < r /\ ~(j < r) => heard[List[i]] = Append(heard[List[j]], String)
  BY DEF HeldInv, HeardInv
<1>13. CASE q = "serial"
  <2>1. heard' = heard
    BY <1>4, <1>5, <1>13
  <2>2. \A i \in DOMAIN List : List[i] \in App => i # r
    BY <1>4, <1>13
  <2>3. HeardInv'
    <3>1. \A i, j \in DOMAIN List : List[i] \in App /\ List[j] \in App =>
            /\ (i < receiver' <=> j < receiver') => heard[List[i]] = heard[List[j]]
            /\ i < receiver' /\ ~(j < receiver')
                 => heard[List[i]] = Append(heard[List[j]], String)
      <4>1. CASE r # Len(List)
        BY <1>11, <1>12, <2>2, <4>1
      <4>2. CASE r = Len(List)
        <5>1. \A i \in DOMAIN List : List[i] \in App => i < r
          BY <1>4, <2>2, <4>2
        <5> QED
          BY <1>11, <1>12, <4>2, <5>1
      <4> QED
        BY <4>1, <4>2
    <3> QED
      BY <1>7, <1>12, <2>1, <3>1 DEF HeardInv
  <2>4. \A p, m : HeardBelow(p, m)' <=> HeardBelow(p, m)
    BY <2>1 DEF HeardBelow
  <2>5. \A m : Below(m)' <=> Below(m)
    BY <1>1, <1>7, <2>4 DEF Below
  <2>6. SortedInv'
    BY <2>1 DEF HeldInv, OrderInv, SortedInv
  <2>7. \A i \in DOMAIN List : Fresh(i)' => Fresh(i)
    <3>1. SUFFICES ASSUME NEW i \in DOMAIN List, Fresh(i)' PROVE Fresh(i)
      OBVIOUS
    <3>2. 0 < receiver' /\ receiver' <= i
      BY <1>1, <1>2, <1>3, <3>1 DEF Fresh
    <3>3. r < i
      BY <1>11, <3>2
    <3>4. 0 < receiver /\ receiver <= i
      BY <1>4a, <3>3
    <3> QED
      BY <3>4 DEF Fresh
  <2>8. FreshInv'
    BY <1>1, <1>7, <2>4, <2>7 DEF HeldInv, OrderInv, FreshInv
  <2>9. AheadInv' /\ NumberInv'
    BY <1>1, <1>3, <1>6, <2>5, AheadSame
  <2> QED
    BY <1>6, <1>8, <1>9, <2>3, <2>6, <2>8, <2>9 DEF HeldInv, OrderInv
<1>14. CASE q \in App
  <2> DEFINE h == heard[q]
             n == Len(h)
  <2>1. heard' = [heard EXCEPT ![q] = Append(h, String)]
    BY <1>4, <1>5, <1>14
  <2>2. h \in Seq(Seq(Char)) /\ n \in Nat /\ DOMAIN h = 1 .. n
    BY <1>12, <1>14
  <2>3. /\ heard'[q] = Append(h, String)
        /\ \A p \in App : p # q => heard'[p] = heard[p]
        /\ heard' \in [App -> Seq(Seq(Char))]
    BY <1>10, <1>12, <1>14, <2>1, <2>2
  <2> HIDE DEF h
  <2>4. /\ DOMAIN Append(h, String) = 1 .. n + 1
        /\ Append(h, String)[n + 1] = String
        /\ \A k \in 1 .. n : Append(h, String)[k] = h[k]
    <3>1. /\ Len(Append(h, String)) = n + 1 /\ Append(h, String) \in Seq(Seq(Char))
          /\ Append(h, String)[n + 1] = String
          /\ \A k \in 1 .. n : Append(h, String)[k] = h[k]
      BY <1>10, <2>2, AppendProperties
    <3> QED
      BY <3>1, <2>2
  <2>5. \A k \in 1 .. n + 1 : k = n + 1 \/ k \in 1 .. n
    BY <2>2
  <2>6. \A i \in DOMAIN List : List[i] \in App =>
          /\ i # r => heard'[List[i]] = heard[List[i]]
          /\ i <= r => heard'[List[i]] = Append(h, String)
    <3>1. SUFFICES ASSUME NEW i \in DOMAIN List, List[i] \in App
                   PROVE  /\ i # r => heard'[List[i]] = heard[List[i]]
                          /\ i <= r => heard'[List[i]] = Append(h, String)
      OBVIOUS
    <3>2. i # r => heard'[List[i]] = heard[List[i]]
      BY <1>4, <2>3, <3>1
    <3>3. ~(r < r)
      BY <1>4
    <3>4. i < r => heard[List[i]] = Append(heard[q], String)
      BY <1>4, <1>12, <1>14, <3>1, <3>3
    <3>5. i < r => i # r
      BY <1>4
    <3> QED
      BY <1>11, <2>3, <3>2, <3>4, <3>5 DEF h
  <2>7. HeardInv'
    <3>1. ASSUME NEW i \in DOMAIN List, NEW j \in DOMAIN List, List[i] \in App, List[j] \in App
          PROVE  /\ (i < receiver' <=> j < receiver') => heard'[List[i]] = heard'[List[j]]
                 /\ i < receiver' /\ ~(j < receiver')
                      => heard'[List[i]] = Append(heard'[List[j]], String)
      <4>1. CASE r = Len(List)
        <5>1. i <= r /\ j <= r
          BY <1>4a, <4>1
        <5> QED
          BY <1>11, <2>6, <3>1, <4>1, <5>1
      <4>2. CASE r # Len(List) /\ i <= r /\ j <= r
        BY <1>11, <2>6, <3>1, <4>2
      <4>3. CASE r # Len(List) /\ ~(i <= r) /\ ~(j <= r)
        <5>1. ~(i < r) /\ ~(j < r) /\ i # r /\ j # r
          BY <1>11, <1>4a, <4>3
        <5> QED
          BY <1>11, <1>12, <2>6, <3>1, <4>3, <5>1
      <4>4. CASE r # Len(List) /\ i <= r /\ ~(j <= r)
        <5>1. ~(j < r) /\ j # r /\ ~(r < r)
          BY <1>11, <1>4a, <4>4
        <5>2. heard[q] = heard[List[j]]
          BY <1>4, <1>12, <1>14, <3>1, <5>1
        <5> QED
          BY <1>11, <2>6, <3>1, <4>4, <5>1, <5>2 DEF h
      <4>5. CASE r # Len(List) /\ ~(i <= r) /\ j <= r
        BY <1>11, <4>5
      <4> QED
        BY <4>1, <4>2, <4>3, <4>4, <4>5
    <3>2. ASSUME NEW p \in App, NEW k \in DOMAIN heard'[p]
          PROVE  \E m \in 1 .. MaxLines : Prefix(heard'[p][k], m)
      <4>1. CASE p # q
        BY <1>12, <2>3, <3>2, <4>1
      <4>2. CASE p = q
        <5>1. k \in 1 .. n + 1 /\ heard'[p][k] = Append(h, String)[k]
          BY <2>3, <2>4, <3>2, <4>2
        <5>2. CASE k = n + 1
          BY <1>10, <2>4, <5>1, <5>2
        <5>3. CASE k \in 1 .. n
          <6>1. heard'[p][k] = heard[q][k] /\ k \in DOMAIN heard[q]
            BY <2>2, <2>4, <5>1, <5>3 DEF h
          <6> QED
            BY <1>12, <1>14, <6>1
        <5> QED
          BY <2>5, <5>1, <5>2, <5>3
      <4> QED
        BY <4>1, <4>2
    <3> QED
      BY <1>7, <2>3, <3>1, <3>2 DEF HeardInv
  <2>8. \A m : Below(m) => Below(m)'
    <3>1. SUFFICES ASSUME NEW m, Below(m) PROVE Below(m)'
      OBVIOUS
    <3>2. Stored > 0 => buf[0][1] < m
      BY <3>1 DEF Below
    <3>3. ASSUME NEW p \in App, NEW k \in DOMAIN heard'[p], heard'[p][k] # << >>
          PROVE  heard'[p][k][1][1] < m
      <4>1. CASE p # q
        BY <2>3, <3>1, <3>3, <4>1 DEF Below, HeardBelow
      <4>2. CASE p = q /\ k = n + 1
        BY <1>10, <2>3, <2>4, <3>2, <3>3, <4>2
      <4>3. CASE p = q /\ k \in 1 .. n
        BY <1>14, <2>2, <2>3, <2>4, <3>1, <3>3, <4>3 DEF Below, HeardBelow, h
      <4> QED
        BY <2>3, <2>4, <2>5, <3>3, <4>1, <4>2, <4>3
    <3> QED
      BY <1>1, <1>7, <3>2, <3>3 DEF Below, HeardBelow
  <2>9. Stored > 0 => HeardBelow(q, buf[0][1])
    BY <1>4, <1>14 DEF HeldInv, OrderInv, FreshInv, Fresh
  <2>10. SortedInv'
    <3>1. ASSUME NEW p \in App, NEW k \in DOMAIN heard'[p], NEW m \in DOMAIN heard'[p],
                 k < m, heard'[p][k] # << >>, heard'[p][m] # << >>
          PROVE  heard'[p][k][1][1] < heard'[p][m][1][1]
      <4>1. CASE p # q
        BY <2>3, <3>1, <4>1 DEF HeldInv, OrderInv, SortedInv
      <4>2. CASE p = q
        <5>1. k \in 1 .. n /\ (m = n + 1 \/ m \in 1 .. n)
          BY <2>2, <2>3, <2>4, <3>1, <4>2
        <5>2. CASE m \in 1 .. n
          BY <1>14, <2>2, <2>3, <2>4, <3>1, <4>2, <5>1, <5>2
          DEF HeldInv, OrderInv, SortedInv, h
        <5>3. CASE m = n + 1
          BY <1>10, <2>2, <2>3, <2>4, <2>9, <3>1, <4>2, <5>1, <5>3 DEF HeardBelow, h
        <5> QED
          BY <5>1, <5>2, <5>3
      <4> QED
        BY <4>1, <4>2
    <3> QED
      BY <3>1 DEF SortedInv
  <2>11. FreshInv'
    <3>1. ASSUME NEW i \in DOMAIN List, List[i] \in App, Fresh(i)', Stored > 0
          PROVE  HeardBelow(List[i], buf[0][1])'
      <4>1. Fresh(i) /\ i # r
        <5>1. 0 < receiver' /\ receiver' <= i
          BY <1>1, <1>2, <1>3, <3>1 DEF Fresh
        <5>2. r < i
          BY <1>11, <5>1
        <5>3. 0 < receiver /\ receiver <= i /\ i # r
          BY <1>4a, <5>2
        <5> QED
          BY <5>3 DEF Fresh
      <4>2. heard'[List[i]] = heard[List[i]]
        BY <2>6, <3>1, <4>1
      <4>3. HeardBelow(List[i], buf[0][1])
        BY <3>1, <4>1 DEF HeldInv, OrderInv, FreshInv
      <4> QED
        BY <1>1, <4>2, <4>3 DEF HeardBelow
    <3> QED
      BY <1>7, <3>1 DEF FreshInv
  <2>12. AheadInv' /\ NumberInv'
    BY <1>1, <1>3, <1>6, <2>8, AheadSame
  <2> QED
    BY <1>6, <1>8, <1>9, <2>7, <2>10, <2>11, <2>12 DEF HeldInv, OrderInv
<1> QED
  BY <1>5, <1>13, <1>14

\* serial_line_process stores a character, or drops it at the end of buf.
LEMMA StoreHeld ==
  ASSUME ControlInv, HeldInv, ThreadStore
  PROVE  HeldInv'
<1>1. /\ UNCHANGED ringVars /\ UNCHANGED inputVars /\ queue' = queue /\ receiver' = receiver
      /\ wait' = wait /\ heard' = heard /\ pc = "got" /\ pc' = "get" /\ c # END
  BY DEF ThreadStore, kernelVars
<1>2. wait = "any" /\ c \in Char /\ get_pc = "idle"
  BY <1>1, Bytes DEF ControlInv, RingInv, RingTypeOK
<1>3. receiver = 0 /\ TurnInv'
  BY <1>1, <1>2 DEF HeldInv, TurnInv
<1>4. /\ StreamInv' /\ Elements' = Elements /\ NextLine' = NextLine
      /\ c' = c /\ get_pc' = get_pc
  BY <1>1, RingAlone
<1>5. /\ ptr \in Nat /\ ptr < Size /\ Size \in Nat
      /\ buf \in [0 .. Size - 1 -> Byte \cup {NUL}]
      /\ c[1] \in Nat /\ c[2] \in Nat /\ c[2] > 0 /\ c = << c[1], c[2] >>
  <2>1. ptr \in Nat /\ Size \in Nat
    BY QueueTyped, Bytes
  <2>2. ptr < Size /\ buf \in [0 .. Size - 1 -> Byte \cup {NUL}]
    BY <1>2 DEF ControlInv, SerialTypeOK, Cell
  <2>3. c = << c[1], c[2] >> /\ c[1] \in 1 .. MaxLines /\ c[2] \in 1 .. MaxLineLen
    BY <1>2, Chars
  <2> QED
    BY <2>1, <2>2, <2>3
<1>6. /\ ptr = AtMost(c[2] - 1, Size - 1) /\ (ptr > 0 => buf[0][1] = c[1])
      /\ \A i \in 0 .. ptr - 1 : buf[i] \in Char /\ buf[i] = << buf[0][1], i + 1 >>
      /\ Stored = ptr /\ Stored' = ptr'
  BY <1>1, <1>2 DEF HeldInv, FillInv, Fetched, Stored
<1>7. /\ ptr' = AtMost(c[2], Size - 1)
      /\ ptr' > 0 => buf'[0][1] = c[1] /\ (c[2] > 1 => ptr > 0 /\ buf[0][1] = c[1])
      /\ \A i \in 0 .. ptr' - 1 : buf'[i] \in Char /\ buf'[i] = << buf'[0][1], i + 1 >>
  <2>1. CASE ptr < Size - 1
    <3>1. buf' = [buf EXCEPT ![ptr] = c] /\ ptr' = ptr + 1
      BY <2>1 DEF ThreadStore
    <3>2. ptr = c[2] - 1 /\ ptr' = AtMost(c[2], Size - 1)
      BY <1>5, <1>6, <2>1, <3>1 DEF AtMost
    <3>3. buf'[ptr] = c /\ \A i \in 0 .. ptr - 1 : buf'[i] = buf[i]
      BY <1>5, <3>1
    <3>4. buf'[0][1] = c[1]
      <4>1. CASE ptr = 0
        BY <3>3, <4>1
      <4>2. CASE ptr # 0
        <5>1. 0 \in 0 .. ptr - 1 /\ ptr > 0
          BY <1>5, <4>2
        <5> QED
          BY <1>6, <3>3, <5>1
      <4> QED
        BY <4>1, <4>2
    <3>5. ASSUME NEW i \in 0 .. ptr' - 1
          PROVE  buf'[i] \in Char /\ buf'[i] = << c[1], i + 1 >>
      <4>1. CASE i = ptr
        <5>1. buf'[i] = c /\ i + 1 = c[2]
          BY <1>5, <3>2, <3>3, <4>1
        <5> QED
          BY <1>2, <1>5, <5>1
      <4>2. CASE i # ptr
        <5>1. i \in 0 .. ptr - 1 /\ ptr > 0
          BY <1>5, <3>1, <4>2
        <5> QED
          BY <1>6, <3>3, <5>1
      <4> QED
        BY <4>1, <4>2
    <3>6. c[2] > 1 => ptr > 0
      BY <1>5, <3>2
    <3> QED
      BY <1>6, <3>2, <3>4, <3>5, <3>6
  <2>2. CASE ~(ptr < Size - 1)
    <3>1. buf' = buf /\ ptr' = ptr
      BY <2>2 DEF ThreadStore
    <3>2. ptr = Size - 1 /\ ptr' = AtMost(c[2], Size - 1)
      BY <1>5, <1>6, <2>2, <3>1 DEF AtMost
    <3> QED
      BY <1>6, <3>1, <3>2
  <2> QED
    BY <2>1, <2>2
<1>8. ~Fetched'
  BY <1>1, <1>2, <1>4 DEF Fetched
<1>9. FillInv'
  BY <1>1, <1>2, <1>4, <1>6, <1>7, <1>8 DEF FillInv
<1>10. HeardInv'
  <2>1. \A i \in DOMAIN List : ~(i < 0)
    BY QueueTyped
  <2> QED
    BY <1>1, <1>3, <2>1 DEF HeldInv, HeardInv
<1>11. \A p, m : HeardBelow(p, m)' <=> HeardBelow(p, m)
  BY <1>1 DEF HeardBelow
<1>12. ASSUME NEW m, Below(m), c[1] < m PROVE Below(m)'
  BY <1>6, <1>7, <1>11, <1>12 DEF Below
<1>13. SortedInv'
  BY <1>1 DEF HeldInv, OrderInv, SortedInv
<1>14. FreshInv'
  <2>1. ASSUME NEW i \in DOMAIN List, List[i] \in App, ptr' > 0
        PROVE  HeardBelow(List[i], c[1])
    <3>1. CASE c[2] = 1
      <4>1. Below(c[1])
        BY <1>1, <1>2, <3>1 DEF HeldInv, OrderInv, AheadInv, First
      <4> QED
        BY <2>1, <4>1 DEF Below
    <3>2. CASE c[2] > 1
      <4>1. Stored > 0 /\ Fresh(i)
        BY <1>2, <1>6, <1>7, <2>1, <3>2 DEF Fresh
      <4> QED
        BY <1>7, <2>1, <3>2, <4>1 DEF HeldInv, OrderInv, FreshInv
    <3> QED
      BY <1>5, <3>1, <3>2
  <2> QED
    BY <1>6, <1>7, <1>11, <2>1 DEF FreshInv
<1>15. /\ \A j \in 1 .. Len(Elements) : First(Elements[j]) => c[1] < Elements[j][1]
       /\ c[1] < NextLine
  BY <1>1, <1>2 DEF HeldInv, OrderInv, AheadInv, NumberInv
<1>16. AheadInv' /\ NumberInv'
  BY <1>1, <1>4, <1>12, <1>15, AheadSame
<1> QED
  BY <1>3, <1>4, <1>9, <1>10, <1>13, <1>14, <1>16 DEF HeldInv, OrderInv

\* serial_line_process ends a line.
LEMMA LineHeld ==
  ASSUME ControlInv, HeldInv, ThreadLine, held'
  PROVE  HeldInv'
<1>1. /\ UNCHANGED ringVars /\ UNCHANGED inputVars /\ receiver' = receiver
      /\ heard' = heard /\ pc = "got" /\ c = END /\ buf' = [buf EXCEPT ![ptr] = NUL]
      /\ queue' = Posted(Posted(queue, "line"), "CONTINUE")
  BY DEF ThreadLine
<1>2. wait = "any" /\ get_pc = "idle" /\ c \notin Char
  BY <1>1, Bytes DEF ControlInv, RingInv, RingTypeOK
<1>3. receiver = 0 /\ \A i \in DOMAIN queue : queue[i] = "other"
  BY <1>2 DEF HeldInv, TurnInv
<1>4. /\ queue \in Seq({"line", "CONTINUE", "other"}) /\ Len(queue) \in Nat
      /\ DOMAIN queue = 1 .. Len(queue) /\ Len(queue) <= NUMEVENTS /\ NUMEVENTS \in Nat
      /\ ptr \in Nat /\ ptr < Size /\ Size \in Nat
      /\ buf \in [0 .. Size - 1 -> Byte \cup {NUL}]
  <2>1. ptr < Size /\ buf \in [0 .. Size - 1 -> Byte \cup {NUL}]
    BY <1>2 DEF ControlInv, SerialTypeOK, Cell
  <2> QED
    BY <2>1, QueueTyped, Bytes
<1>5. CASE Len(Posted(queue, "line")) < NUMEVENTS
  <2> DEFINE n == Len(queue)
             q == Append(queue, "line")
  <2>1. wait' = "CONTINUE" /\ pc' = "kernel" /\ ptr' = ptr + 1
    BY <1>5 DEF ThreadLine
  <2>2. Posted(queue, "line") = q /\ Posted(q, "CONTINUE") = Append(q, "CONTINUE")
    <3>1. Len(queue) < NUMEVENTS
      BY <1>5 DEF Posted
    <3>2. Posted(queue, "line") = q
      BY <3>1 DEF Posted
    <3> HIDE DEF q
    <3> QED
      BY <1>5, <3>2 DEF Posted
  <2>3. /\ queue' = Append(q, "CONTINUE") /\ q \in Seq({"line", "CONTINUE", "other"})
        /\ Len(q) = n + 1 /\ DOMAIN q = 1 .. n + 1 /\ q[n + 1] = "line"
        /\ \A i \in 1 .. n : q[i] = "other"
    BY <1>1, <1>3, <1>4, <2>2, QueueAppend
  <2> HIDE DEF q
  <2>4. /\ DOMAIN queue' = 1 .. (n + 1) + 1 /\ queue'[(n + 1) + 1] = "CONTINUE"
        /\ \A i \in 1 .. n + 1 : queue'[i] = q[i]
    BY <2>3, QueueAppend
  <2> HIDE DEF n
  <2>5. /\ \A i \in 1 .. (n + 1) + 1 : i = n + 2 \/ i = n + 1 \/ i \in 1 .. n
        /\ \A i \in 1 .. n : i \in 1 .. n + 1
        /\ n + 1 \in 1 .. n + 1 /\ (n + 1) + 1 = n + 2 /\ n + 1 < n + 2
        /\ n + 2 \in 1 .. (n + 1) + 1
    BY <1>4 DEF n
  <2>6. /\ \A i \in DOMAIN queue' : /\ queue'[i] = "CONTINUE" => i = n + 2
                                    /\ queue'[i] = "line" => i = n + 1
        /\ n + 2 \in DOMAIN queue' /\ queue'[n + 2] = "CONTINUE"
    BY <2>3, <2>4, <2>5
  <2>7. TurnInv'
    BY <1>1, <1>3, <2>1, <2>5, <2>6 DEF TurnInv
  <2>8. /\ StreamInv' /\ Elements' = Elements /\ NextLine' = NextLine
        /\ c' = c /\ get_pc' = get_pc
    BY <1>1, RingAlone
  <2>9. /\ Stored = ptr /\ Stored' = ptr
    BY <1>2, <1>4, <2>1 DEF Stored
  <2>10. /\ buf'[ptr] = NUL /\ \A i \in 0 .. ptr - 1 : buf'[i] = buf[i]
         /\ ptr > 0 => 0 \in 0 .. ptr - 1
    BY <1>1, <1>4
  <2>11. FillInv'
    <3>1. \A i \in 0 .. Stored' - 1 : buf'[i] \in Char /\ buf'[i] = << buf'[0][1], i + 1 >>
      <4>1. SUFFICES ASSUME NEW i \in 0 .. ptr - 1
                     PROVE  buf'[i] \in Char /\ buf'[i] = << buf'[0][1], i + 1 >>
        BY <2>9
      <4>2. ptr > 0
        BY <1>4
      <4>3. buf[i] \in Char /\ buf[i] = << buf[0][1], i + 1 >>
        BY <2>9 DEF HeldInv, FillInv
      <4> QED
        BY <2>10, <4>2, <4>3
    <3>2. ptr' > 0 /\ buf'[ptr' - 1] = NUL
      BY <1>4, <2>1, <2>10
    <3> QED
      BY <1>1, <1>2, <2>1, <2>8, <3>1, <3>2 DEF FillInv
  <2>12. HeardInv'
    <3>1. \A i \in DOMAIN List : ~(i < 0)
      BY QueueTyped
    <3> QED
      BY <1>1, <1>3, <3>1 DEF HeldInv, HeardInv
  <2>13. \A p, m : HeardBelow(p, m)' <=> HeardBelow(p, m)
    BY <1>1 DEF HeardBelow
  <2>14. Stored > 0 => buf'[0] = buf[0]
    BY <2>9, <2>10
  <2>15. \A m : Below(m) => Below(m)'
    BY <2>9, <2>13, <2>14 DEF Below
  <2>16. SortedInv'
    BY <1>1 DEF HeldInv, OrderInv, SortedInv
  <2>17. FreshInv'
    <3>1. \A i : Fresh(i)
      BY <1>2 DEF Fresh
    <3> QED
      BY <2>9, <2>13, <2>14, <3>1 DEF HeldInv, OrderInv, FreshInv
  <2>18. AheadInv' /\ NumberInv'
    BY <2>1, <2>8, <2>15, AheadSame
  <2> QED
    BY <2>7, <2>8, <2>11, <2>12, <2>16, <2>17, <2>18 DEF HeldInv, OrderInv
<1>6. CASE ~(Len(Posted(queue, "line")) < NUMEVENTS)
  <2>1. wait' = "any" /\ pc' = "get" /\ ptr' = 0 /\ Len(queue) = NUMEVENTS
    BY <1>2, <1>6 DEF ThreadLine
  <2>2. queue' = queue
    BY <1>1, <1>4, <2>1 DEF Posted
  <2> QED
    BY <1>1, <1>2, <1>3, <2>1, <2>2, AnewHeld
<1> QED
  BY <1>5, <1>6

-----------------------------------------------------------------------------
\* The steps of the ring, and those that leave it alone.
LEMMA ControlNext ==
  ASSUME ControlInv, [Next]_vars
  PROVE  ControlInv'
<1>1. RingInv /\ SerialTypeOK
  BY DEF ControlInv
<1>2. CASE InputChar \/ InputEnd
  <2>1. PICK x \in Byte : Receive(x)
    <3>1. InputChar => << line, col + 1 >> \in Byte
      BY Bytes DEF InputChar, ControlInv, Char
    <3> QED
      BY <1>2, <3>1, Bytes DEF InputChar, InputEnd
  <2>2. RingInv' /\ c' = c /\ get_pc' = get_pc /\ overflow' \in BOOLEAN
    BY <1>1, <2>1, ReceiveByte, PutOkInv, RingStutter
  <2>3. UNCHANGED << pc, wait, buf, ptr, queue, receiver, held >> /\ poll' = TRUE
    BY <1>2 DEF InputChar, InputEnd, Wake, lineVars
  <2>4. line' \in 1 .. MaxLines + 1 /\ col' \in 0 .. MaxLineLen
    BY <1>2, Bytes DEF InputChar, InputEnd, ControlInv
  <2>5. SerialTypeOK'
    BY <1>1, <2>2, <2>3 DEF SerialTypeOK, RingInv
  <2> QED
    BY <2>2, <2>3, <2>4, <2>5 DEF ControlInv
<1>3. CASE UNCHANGED ringVars /\ UNCHANGED inputVars
  <2>1. RingInv' /\ c' = c /\ get_pc' = get_pc
    BY <1>1, <1>3, RingStutter DEF ringVars
  <2>2. UNCHANGED << overflow, line, col >>
    BY <1>3 DEF inputVars
  <2>3. /\ overflow \in BOOLEAN /\ poll \in BOOLEAN /\ held \in BOOLEAN
        /\ pc \in {"kernel", "get", "got"} /\ wait \in {"any", "CONTINUE"}
        /\ buf \in [Cell -> Byte \cup {NUL}]
        /\ get_pc # "idle" => pc = "get"
        /\ pc # "kernel" => wait = "any"
        /\ wait = "any" => ptr < Size
        /\ pc = "got" => c \in Byte
        /\ line \in 1 .. MaxLines + 1 /\ col \in 0 .. MaxLineLen
    BY DEF ControlInv, SerialTypeOK
  <2>4. /\ queue \in Seq({"line", "CONTINUE", "other"}) /\ Len(queue) <= NUMEVENTS
        /\ receiver \in Nat /\ receiver <= Len(List) /\ ptr \in Nat /\ ptr <= Size
        /\ Len(List) \in Nat /\ Len(List) > 0 /\ Size \in Nat /\ Size > 0
    BY QueueTyped, Places, Bytes
  <2>5. SUFFICES
          /\ poll' \in BOOLEAN /\ held' \in BOOLEAN
          /\ pc' \in {"kernel", "get", "got"} /\ wait' \in {"any", "CONTINUE"}
          /\ buf' \in [Cell -> Byte \cup {NUL}]
          /\ ptr' \in Nat /\ ptr' <= Size
          /\ queue' \in Seq({"line", "CONTINUE", "other"}) /\ Len(queue') <= NUMEVENTS
          /\ receiver' \in Nat /\ receiver' <= Len(List)
          /\ get_pc # "idle" => pc' = "get"
          /\ pc' # "kernel" => wait' = "any"
          /\ wait' = "any" => ptr' < Size
          /\ pc' = "got" => pc = "got"
    <3>1. ptr' \in 0 .. Size /\ receiver' \in 0 .. Len(List)
      BY <2>4, <2>5
    <3>2. SerialTypeOK'
      BY <2>1, <2>2, <2>3, <2>5, <3>1 DEF SerialTypeOK, RingInv
    <3> QED
      BY <2>1, <2>2, <2>3, <2>5, <3>2 DEF ControlInv
  <2>6. ASSUME NEW ev, Call(ev), pc = "kernel"
        PROVE  /\ pc' \in {"kernel", "get"} /\ wait' \in {"any", "CONTINUE"}
               /\ ptr' \in Nat /\ ptr' <= Size
               /\ pc' # "kernel" => wait' = "any"
               /\ wait' = "any" => ptr' < Size
    BY <2>3, <2>4, <2>6 DEF Call
  <2>7. CASE KernelPoll
    BY <2>3, <2>4, <2>6, <2>7 DEF KernelPoll
  <2>8. CASE KernelEvent
    <3>1. /\ queue # << >> /\ queue' = Tail(queue) /\ pc = "kernel"
          /\ UNCHANGED << poll, held, buf, receiver >>
          /\ Call("CONTINUE") \/ UNCHANGED << pc, wait, ptr >>
      BY <2>8 DEF KernelEvent
    <3>2. queue' \in Seq({"line", "CONTINUE", "other"}) /\ Len(queue') <= NUMEVENTS
      BY <3>1, QueueTail
    <3> QED
      BY <2>3, <2>4, <2>6, <3>1, <3>2
  <2>9. CASE KernelBroadcast
    <3>1. /\ queue # << >> /\ queue' = Tail(queue) /\ receiver' = 1
          /\ UNCHANGED << pc, wait, ptr, poll, held, buf >>
      BY <2>9 DEF KernelBroadcast, lineVars
    <3>2. queue' \in Seq({"line", "CONTINUE", "other"}) /\ Len(queue') <= NUMEVENTS
      BY <3>1, QueueTail
    <3> QED
      BY <2>3, <2>4, <3>1, <3>2
  <2>10. CASE KernelDeliver
    <3>1. /\ receiver' = (IF receiver = Len(List) THEN 0 ELSE receiver + 1)
          /\ pc = "kernel" /\ UNCHANGED << queue, poll, held, buf >>
          /\ Call("line") \/ UNCHANGED << pc, wait, ptr >>
      BY <2>10 DEF KernelDeliver
    <3>2. receiver' \in Nat /\ receiver' <= Len(List)
      BY <2>4, <3>1
    <3> QED
      BY <2>3, <2>4, <2>6, <3>1, <3>2
  <2>11. CASE OtherPost
    <3>1. /\ queue' = IF Len(queue) < NUMEVENTS THEN Append(queue, "other") ELSE queue
          /\ UNCHANGED << pc, wait, ptr, poll, held, buf, receiver >>
      BY <2>11 DEF OtherPost, lineVars
    <3>2. queue' \in Seq({"line", "CONTINUE", "other"}) /\ Len(queue') <= NUMEVENTS
      BY <2>4, <3>1, QueueAppend, Bytes
    <3> QED
      BY <2>3, <2>4, <3>1, <3>2
  <2>12. CASE ThreadStore
    <3>1. /\ UNCHANGED << queue, poll, held, receiver, wait >> /\ pc = "got" /\ pc' = "get"
          /\ \/ ptr < Size - 1 /\ buf' = [buf EXCEPT ![ptr] = c] /\ ptr' = ptr + 1
             \/ buf' = buf /\ ptr' = ptr
      BY <2>12 DEF ThreadStore, kernelVars
    <3>2. buf' \in [Cell -> Byte \cup {NUL}]
      BY <2>3, <3>1
    <3>3. ptr' \in Nat /\ ptr' < Size
      BY <2>3, <2>4, <3>1
    <3> QED
      BY <2>3, <2>4, <3>1, <3>2, <3>3
  <2>13. CASE ThreadLine
    <3>1. /\ UNCHANGED << poll, receiver >> /\ pc = "got" /\ get_pc = "idle"
          /\ buf' = [buf EXCEPT ![ptr] = NUL]
          /\ queue' = Posted(Posted(queue, "line"), "CONTINUE")
          /\ \/ wait' = "CONTINUE" /\ pc' = "kernel" /\ ptr' = ptr + 1 /\ held' = held
             \/ wait' = wait /\ pc' = "get" /\ ptr' = 0 /\ held' \in BOOLEAN
      <4>1. get_pc = "idle" /\ wait = "any"
        BY <2>3, <2>13 DEF ThreadLine
      <4> QED
        BY <2>3, <2>13, <4>1 DEF ThreadLine
    <3>2. buf' \in [Cell -> Byte \cup {NUL}]
      BY <2>3, <3>1
    <3>3. ASSUME NEW q \in Seq({"line", "CONTINUE", "other"}), Len(q) <= NUMEVENTS,
                 NEW e \in {"line", "CONTINUE"}
          PROVE  /\ Posted(q, e) \in Seq({"line", "CONTINUE", "other"})
                 /\ Len(Posted(q, e)) <= NUMEVENTS
      BY <3>3, QueueAppend, Bytes DEF Posted
    <3>4. /\ Posted(queue, "line") \in Seq({"line", "CONTINUE", "other"})
          /\ Len(Posted(queue, "line")) <= NUMEVENTS
      BY <2>4, <3>3
    <3>5. queue' \in Seq({"line", "CONTINUE", "other"}) /\ Len(queue') <= NUMEVENTS
      BY <3>1, <3>3, <3>4
    <3>6. ptr' \in Nat /\ ptr' <= Size /\ (wait' = "any" => ptr' < Size)
      BY <2>3, <2>4, <3>1
    <3> QED
      BY <2>3, <2>4, <3>1, <3>2, <3>5, <3>6
  <2>14. CASE UNCHANGED vars
    BY <2>3, <2>4, <2>14 DEF vars, kernelVars, lineVars
  <2>15. CASE ThreadGet
    <3>1. UNCHANGED << queue, poll, held, receiver, wait, buf, ptr >> /\ pc = "get"
      BY <2>15 DEF ThreadGet, kernelVars, lineVars
    <3>2. pc' \in {"kernel", "get"} /\ (get_pc # "idle" => pc' = "get")
      <4>1. get_pc' = get_pc
        BY <2>1
      <4> QED
        BY <2>15, <3>1, <4>1 DEF ThreadGet, GetTest, GetNothing, GetRead, GetAdvance
    <3> QED
      BY <2>3, <2>4, <3>1, <3>2
  <2>16. CASE InputChar \/ InputEnd
    <3>1. line' = line /\ col' = col
      BY <2>2
    <3>2. line' = line + 1 \/ col' = col + 1
      BY <2>16 DEF InputChar, InputEnd
    <3> QED
      BY <2>3, <3>1, <3>2, Bytes
  <2> QED
    BY <2>7, <2>8, <2>9, <2>10, <2>11, <2>12, <2>13, <2>14, <2>15, <2>16
    DEF Next, Kernel, Thread
<1>4. CASE ThreadGet
  <2>1. /\ UNCHANGED << queue, poll, held, receiver, wait, buf, ptr, overflow, line, col >>
        /\ pc = "get"
    BY <1>4 DEF ThreadGet, kernelVars, lineVars, inputVars
  <2>2. /\ RingInv'
        /\ pc' \in {"kernel", "get", "got"}
        /\ get_pc' # "idle" => pc' = "get"
        /\ pc' = "got" => c' \in Byte
    <3>1. CASE GetTest /\ pc' = pc
      BY <1>1, <2>1, <3>1, GetBeginInv DEF GetTest
    <3>2. CASE GetRead /\ pc' = pc
      BY <1>1, <2>1, <3>2, GetBeginInv DEF GetRead
    <3>3. CASE GetNothing /\ pc' = "kernel"
      BY <1>1, <2>1, <3>3, RingStutter DEF GetNothing, ringVars
    <3>4. CASE GetAdvance /\ pc' = "got"
      <4>1. RingInv' /\ get_pc' = "idle" /\ c' = c /\ get_pc = "advance"
        BY <1>1, <3>4, GetAdvanceInv DEF GetAdvance
      <4>2. /\ c = Elements[1] /\ Elements # << >> /\ Elements \in Seq(Byte)
        BY <1>1, <4>1, ElementsTyped
      <4>3. c \in Byte
        BY <4>2
      <4> QED
        BY <3>4, <4>1, <4>3
    <3> QED
      BY <1>4, <3>1, <3>2, <3>3, <3>4 DEF ThreadGet
  <2>3. SerialTypeOK'
    BY <1>1, <2>1, <2>2 DEF SerialTypeOK, RingInv
  <2> QED
    BY <2>1, <2>2, <2>3 DEF ControlInv
<1>5. \/ InputChar \/ InputEnd \/ ThreadGet
      \/ UNCHANGED ringVars /\ UNCHANGED inputVars
  BY DEF Next, Kernel, Thread, KernelPoll, KernelEvent, KernelBroadcast, KernelDeliver,
         OtherPost, ThreadStore, ThreadLine, vars
<1> QED
  BY <1>2, <1>3, <1>4, <1>5

LEMMA SerialInit == Init => SerialInv
<1> SUFFICES ASSUME Init PROVE SerialInv
  OBVIOUS
<1>1. RingInv /\ Elements = << >>
  BY RingInitInv DEF Init
<1>2. /\ overflow = FALSE /\ poll = FALSE /\ pc = "kernel" /\ wait = "any"
      /\ buf = [i \in Cell |-> NUL] /\ ptr = 0 /\ queue = << >> /\ receiver = 0
      /\ heard = [p \in App |-> << >>] /\ held = TRUE /\ line = 1 /\ col = 0
      /\ get_pc = "idle" /\ c = NoByte
  BY DEF Init, ringbuf_init
<1>3. ControlInv
  <2>1. /\ 0 \in 0 .. Size /\ 0 < Size /\ 0 \in 0 .. Len(List) /\ 1 \in 1 .. MaxLines + 1
        /\ 0 \in 0 .. MaxLineLen /\ 0 <= NUMEVENTS
    BY Bytes, Places
  <2>2. /\ buf \in [Cell -> Byte \cup {NUL}]
        /\ queue \in Seq({"line", "CONTINUE", "other"}) /\ Len(queue) = 0
    BY <1>2
  <2>3. SerialTypeOK
    BY <1>1, <1>2, <2>1, <2>2 DEF SerialTypeOK, RingInv
  <2> QED
    BY <1>1, <1>2, <2>1, <2>3 DEF ControlInv
<1>4. c \notin Char /\ ~Fetched /\ Stored = 0
  BY <1>2, Bytes DEF Fetched, Stored
<1>5. StreamInv
  BY <1>1, <1>2 DEF StreamInv, Latest
<1>6. FillInv
  BY <1>2, <1>4 DEF FillInv
<1>7. TurnInv
  BY <1>2 DEF TurnInv
<1>8. HeardInv
  <2>1. \A p \in App : heard[p] = << >> /\ heard[p] \in Seq(Seq(Char))
    BY <1>2
  <2>2. \A i \in DOMAIN List : ~(i < 0)
    BY <1>3, QueueTyped
  <2>3. heard \in [App -> Seq(Seq(Char))]
    BY <1>2
  <2> QED
    BY <1>2, <2>1, <2>2, <2>3 DEF HeardInv
<1>9. \A p \in App : \A n : HeardBelow(p, n)
  BY <1>2 DEF HeardBelow
<1>10. OrderInv
  BY <1>1, <1>2, <1>4, <1>9 DEF OrderInv, SortedInv, FreshInv, AheadInv, NumberInv, Below
<1> QED
  BY <1>3, <1>5, <1>6, <1>7, <1>8, <1>10 DEF SerialInv, HeldInv

LEMMA HeldNext ==
  ASSUME ControlInv, held => HeldInv, [Next]_vars, held'
  PROVE  HeldInv'
<1>1. held
  BY DEF Next, Kernel, Thread, InputChar, InputEnd, OtherPost, KernelPoll, KernelEvent,
         KernelBroadcast, KernelDeliver, ThreadGet, ThreadStore, ThreadLine, vars, lineVars
<1>2. CASE Next
  BY <1>1, <1>2, InputHeld, PostHeld, PollHeld, EventHeld, BroadcastHeld, DeliverHeld,
     GetBeginHeld, GetAdvanceHeld, StoreHeld, LineHeld
  DEF Next, Kernel, Thread, ThreadGet
<1>3. CASE UNCHANGED vars
  <2>1. /\ UNCHANGED ringVars /\ UNCHANGED deliveryVars /\ UNCHANGED << overflow, line, col >>
    BY <1>3 DEF vars, ringVars, kernelVars, lineVars, inputVars, deliveryVars
  <2>2. NextLine' \in Int /\ NextLine <= NextLine'
    BY <2>1, LineTyped DEF NextLine
  <2>3. /\ OrderInv' /\ Latest' = Latest
        /\ \A j \in 1 .. Len(Elements') - 1 : Link(Elements'[j], Elements'[j + 1])
        /\ (get_pc' # "advance" /\ Elements' # << >>) => Link(c', Elements'[1])
    BY <1>1, <2>1, <2>2, RefusedOrder
  <2>4. StreamInv'
    BY <1>1, <2>1, <2>3 DEF HeldInv, StreamInv
  <2>5. FillInv' /\ TurnInv' /\ HeardInv'
    BY <1>1, <2>1, DeliverySame DEF HeldInv
  <2> QED
    BY <2>3, <2>4, <2>5 DEF HeldInv
<1> QED
  BY <1>2, <1>3

LEMMA SerialInvariant == Spec => []SerialInv
<1>1. SerialInv /\ [Next]_vars => SerialInv'
  BY ControlNext, HeldNext DEF SerialInv
<1> QED
  BY <1>1, SerialInit, PTL DEF Spec

-----------------------------------------------------------------------------
\* buf is never written outside, and the queue never holds more than NUMEVENTS.
THEOREM SerialTyping == Spec => []SerialTypeOK
<1>1. SerialInv => SerialTypeOK
  BY DEF SerialInv, ControlInv
<1> QED
  BY <1>1, SerialInvariant, PTL

\* Though the ring and the buffer overflow, every line that is heard is the beginning
\* of one line that was sent, as long as the event queue never refused the event that
\* holds the process until its line was read (serial_line_input_byte,
\* serial_line_process).
THEOREM WholeLines == Spec => []LinesIntact
<1>1. SerialInv => LinesIntact
  BY DEF SerialInv, HeldInv, HeardInv, LinesIntact
<1> QED
  BY <1>1, SerialInvariant, PTL

\* Under the same condition every listener hears the same lines in the order in which
\* they were sent (serial_line_process, do_event).
THEOREM EqualLines == Spec => []SameLines
<1>1. SerialInv => SameLines
  <2>1. SUFFICES ASSUME SerialInv, held PROVE SameLines
    BY DEF SameLines
  <2>2. HeardInv /\ SortedInv
    BY <2>1 DEF SerialInv, HeldInv, OrderInv
  <2>3. ASSUME NEW p \in App, NEW q \in App, NEW k \in DOMAIN heard[p] \cap DOMAIN heard[q]
        PROVE  heard[p][k] = heard[q][k]
    <3>1. PICK i \in DOMAIN List, j \in DOMAIN List : List[i] = p /\ List[j] = q
      BY Places
    <3>2. heard[p] \in Seq(Seq(Char)) /\ heard[q] \in Seq(Seq(Char))
      BY <2>2 DEF HeardInv
    <3>3. String \in Seq(Char) \/ receiver = 0
      <4>1. receiver # 0 => wait = "CONTINUE"
        BY <2>1 DEF SerialInv, ControlInv, HeldInv, TurnInv, SerialTypeOK
      <4> QED
        BY <2>1, <4>1, StringHeld DEF SerialInv
    <3>4. ASSUME NEW s \in Seq(Seq(Char)), String \in Seq(Char), NEW m \in DOMAIN s
          PROVE  Append(s, String)[m] = s[m]
      BY <3>4
    <3>5. \/ heard[p] = heard[q]
          \/ heard[p] = Append(heard[q], String) /\ receiver # 0
          \/ heard[q] = Append(heard[p], String) /\ receiver # 0
      <4>1. receiver = 0 => ~(i < receiver) /\ ~(j < receiver)
        BY <2>1, QueueTyped DEF SerialInv
      <4> QED
        BY <2>2, <3>1, <4>1 DEF HeardInv
    <3>6. CASE heard[p] = Append(heard[q], String) /\ receiver # 0
      <4>1. Append(heard[q], String)[k] = heard[q][k]
        BY <3>2, <3>3, <3>4, <3>6
      <4> QED
        BY <3>6, <4>1
    <3>7. CASE heard[q] = Append(heard[p], String) /\ receiver # 0
      <4>1. Append(heard[p], String)[k] = heard[p][k]
        BY <3>2, <3>3, <3>4, <3>7
      <4> QED
        BY <3>7, <4>1
    <3> QED
      BY <3>5, <3>6, <3>7
  <2> QED
    BY <2>2, <2>3 DEF SameLines, SortedInv
<1> QED
  BY <1>1, SerialInvariant, PTL

\* The serial line uses the ring as one interrupt and one process may: every step
\* of it is a step of the ring, or none.
LEMMA SerialStepIsRingStep ==
  ASSUME ControlInv, [Next]_vars
  PROVE  [RingNext]_ringVars
<1>1. CASE InputChar \/ InputEnd
  <2>1. PICK x \in Byte : Receive(x)
    <3>1. InputChar => << line, col + 1 >> \in Byte
      BY Bytes DEF InputChar, ControlInv, Char
    <3> QED
      BY <1>1, <3>1, Bytes DEF InputChar, InputEnd
  <2> QED
    BY <2>1, ReceiveByte DEF RingNext
<1>2. CASE ThreadGet
  BY <1>2 DEF ThreadGet, RingNext
<1>3. CASE UNCHANGED ringVars
  BY <1>3
<1> QED
  BY <1>1, <1>2, <1>3
  DEF Next, Kernel, Thread, KernelPoll, KernelEvent, KernelBroadcast, KernelDeliver,
      OtherPost, ThreadStore, ThreadLine, vars

\* Between the interrupt of the serial line and its process no byte is lost,
\* duplicated or reordered (serial_line_input_byte, serial_line_process).
THEOREM SerialRingIsFifo == Spec => RingFifoSpec
<1>1. Init => ringbuf_init
  BY DEF Init
<1>2. SerialInv /\ [Next]_vars => [RingNext]_ringVars
  BY SerialStepIsRingStep DEF SerialInv
<1> QED
  BY <1>1, <1>2, SerialInvariant, RingbufIsFifo, PTL DEF Spec, RingSpec
=============================================================================
