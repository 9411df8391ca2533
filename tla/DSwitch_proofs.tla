--------------------------- MODULE DSwitch_proofs ---------------------------
(***************************************************************************)
(* Proofs about DSwitch: with one realtime process, and no kernel calls    *)
(* that nest one activation in another, the Timer3 handler gives the       *)
(* program back its stack and its current process, wherever it interrupts  *)
(* the kernel, and every process state but those of a PROCESS_CONTEXT      *)
(* block that it mistakes for an idle kernel.                              *)
(*                                                                         *)
(* The first part is about the kernel alone: which process is marked as    *)
(* called.  The second part is about the handler's loops over the list of  *)
(* processes.  The third follows the handler in and out.                   *)
(***************************************************************************)
EXTENDS DSwitch, ProcessLife_proofs

\* The programs D-Switch works for: at most one realtime process; one
\* activation at a time, because process_suspend() takes the first process of
\* the list that is marked as called for the interrupted one; no process that
\* ends; PROCESS_CONTEXT blocks of processes that main() starts; the rtimer is
\* set by threads that main() called, because process_current is the null pointer
\* between the processes main() starts; and ids enough for p->id to tell
\* processes apart.
Supported ==
  /\ \A p, q \in RtProc : p = q
  /\ {"synch", "start", "exit", "end"} \cap Ops = {}
  /\ "context" \in Ops =>
       \A p \in Proc : \E k \in 1 .. Len(Autostart) : Autostart[k] = p
  /\ \A m \in Message : m.ev = "MSG"
  /\ {"none", "INIT"} \cap ArmEvents = {}
  /\ Cardinality(Proc) < IdSpan

-----------------------------------------------------------------------------
\* While main() starts the processes, all frames are of these kinds; afterwards
\* none is main()'s loop over them or process_post_synch()'s.
BootLabels ==
  {"boot", "synch", "call", "mark", "calling", "done", "thread", "context"}
BootFrame(f) == f.at \in BootLabels /\ f.ev \in {"none", "INIT"}
LoopFrame(f) == f.at \notin {"boot", "synch"}

Booting == \A f \in Frames(stack) : BootFrame(f)
Booted == \A f \in Frames(stack) : LoopFrame(f)

\* The frames of an activation, and of the code it executes.
Activation == {"calling", "done", "thread"}
Code == {"thread", "context"}
Acting == Activation \cup Code

\* What is true of every frame, L being the listed processes.
Steady(f, L) ==
  /\ Lasting(f)
  /\ f.at \in CursorLabels => f.q \in L \cup {NULL}
  /\ f.at \in {"mark"} \cup Activation => f.p \in L
  /\ f.at = "boot" => \A k \in 1 .. f.left : Autostart[k] \in L
  /\ f.at = "context" => "context" \in Ops /\ f.saved \in Proc

\* main() is at the bottom of the stack, and all there is above an activation is
\* the code it executes.
Ordered(s) ==
  \A i, j \in DOMAIN s : i < j =>
    /\ s[j].at \notin MainLabels
    /\ s[i].at \in Acting => s[j].at \in Code

\* At most one process is active, and only that one is marked as called: it need
\* not be, if the handler has released it in a PROCESS_CONTEXT block.
OneActive(F) ==
  \A f, g \in F : f.at \in Activation /\ g.at \in Activation => f.p = g.p

Marked(F, st) ==
  \A p \in Proc : st[p] = "CALLED" =>
    \E f \in F : f.at \in {"calling", "done"} /\ f.p = p

\* No process is suspended, and those that are listed are there.
Alive(st, L) ==
  \A p \in Proc : st[p] # "SUSPENDED" /\ (st[p] # "NONE" <=> p \in L)

\* call_process() waits for its thread, and afterwards the current process is
\* still the one it called.
Settled(s, current) ==
  \A i \in DOMAIN s :
    /\ s[i].at = "calling" => i # Len(s) /\ s[i + 1].at = "thread"
    /\ s[i].at = "done" => i = Len(s) /\ s[i].p = current

Flat(st, current) ==
  /\ Ordered(stack) /\ Settled(stack, current)
  /\ \A f \in Frames(stack) : Steady(f, Listed)
  /\ OneActive(Frames(stack)) /\ Marked(Frames(stack), st)
  /\ Alive(st, Listed)
  /\ Booting \/ (Booted /\ ("context" \in Ops => Proc \subseteq Listed))

FlatInv == ProcInv /\ ListInv /\ Flat(state, process_current)

\* The boot phase does not come back.
FlatKept == Flat(state, process_current)' /\ (Booted => Booted')

\* The frames of N may be added where the executing function's frame was.
Admits(t, N) ==
  /\ BootFrame(t) => \A e \in N : BootFrame(e)
  /\ LoopFrame(t) => \A e \in N : LoopFrame(e)

\* The stack as its top frame on the rest.
LEMMA StackIs ==
  ASSUME Well(stack)
  PROVE  /\ Popped \in Seq(GoodFrame) /\ Top \in GoodFrame /\ Top \in Frame
         /\ Len(Popped) = Len(stack) - 1 /\ Len(stack) \in Nat \ {0}
         /\ \A i \in 1 .. Len(stack) - 1 : Popped[i] = stack[i]
         /\ stack = Append(Popped, Top)
         /\ \A f : Replaced(f) = Append(Popped, f)
<1> DEFINE r == SubSeq(stack, 1, Len(stack) - 1)
           t == stack[Len(stack)]
<1>1. /\ Len(stack) \in Nat \ {0} /\ stack \in Seq(GoodFrame)
      /\ \A i \in 1 .. Len(stack) : stack[i] \in GoodFrame
      /\ t \in GoodFrame
  BY TopOf DEF Well
<1>2. /\ r \in Seq(GoodFrame) /\ Len(r) = Len(stack) - 1
      /\ \A j \in 1 .. Len(stack) - 1 : r[j] = stack[j]
  <2>1. 1 \in Int /\ Len(stack) - 1 \in Int
    BY <1>1
  <2>2. \A i \in 1 .. Len(stack) - 1 : stack[i] \in GoodFrame
    BY <1>1
  <2>3. /\ r \in Seq(GoodFrame)
        /\ Len(r) = IF 1 <= Len(stack) - 1 THEN Len(stack) - 1 - 1 + 1 ELSE 0
        /\ \A i \in 1 .. Len(stack) - 1 - 1 + 1 : r[i] = stack[1 + i - 1]
    BY <2>1, <2>2, SubSeqProperties
  <2> HIDE DEF r
  <2>4. ASSUME NEW j \in 1 .. Len(stack) - 1 PROVE r[j] = stack[j]
    <3>1. j \in 1 .. Len(stack) - 1 - 1 + 1 /\ 1 + j - 1 = j
      BY <1>1
    <3> QED
      BY <2>3, <3>1
  <2>5. Len(r) = Len(stack) - 1
    <3> DEFINE n == Len(stack) - 1
    <3>1. n \in Nat /\ Len(r) = IF 1 <= n THEN n - 1 + 1 ELSE 0
      BY <1>1, <2>3
    <3> HIDE DEF n
    <3>2. Len(r) = n
      BY <3>1
    <3> QED
      BY <3>2 DEF n
  <2> QED
    BY <2>3, <2>4, <2>5
<1>3. r = Popped /\ t = Top
  BY DEF Popped, Top
<1> HIDE DEF r, t
<1>4. ASSUME NEW f PROVE [stack EXCEPT ![Len(stack)] = f] = Append(r, f)
  <2> DEFINE T == GoodFrame \cup {f}
             a == [stack EXCEPT ![Len(stack)] = f]
             b == Append(r, f)
  <2>1. stack \in Seq(T) /\ r \in Seq(T) /\ f \in T
    BY <1>1, <1>2
  <2> HIDE DEF T
  <2>2. /\ a \in Seq(T) /\ Len(a) = Len(stack)
        /\ \A i \in 1 .. Len(stack) : a[i] = IF i = Len(stack) THEN f ELSE stack[i]
    BY <1>1, <2>1, ExceptSeq
  <2>3. /\ b \in Seq(T) /\ Len(b) = Len(stack) /\ b[Len(stack)] = f
        /\ \A i \in 1 .. Len(stack) - 1 : b[i] = r[i]
    BY <1>1, <1>2, <2>1
  <2> HIDE DEF a, b
  <2>4. ASSUME NEW i \in 1 .. Len(stack) PROVE a[i] = b[i]
    <3>1. CASE i = Len(stack)
      BY <2>2, <2>3, <3>1
    <3>2. CASE i # Len(stack)
      <4>1. i \in 1 .. Len(stack) - 1
        BY <1>1, <3>2
      <4> QED
        BY <1>2, <2>2, <2>3, <3>2, <4>1
    <3> QED
      BY <3>1, <3>2
  <2>5. a = b
    BY <2>2, <2>3, <2>4, SeqEqual
  <2> QED
    BY <2>5 DEF a, b
<1>5. \A f : Replaced(f) = Append(r, f)
  BY <1>4 DEF Replaced
<1>6. stack = Append(r, t)
  <2>1. [stack EXCEPT ![Len(stack)] = t] = stack
    BY <1>1, <1>3 DEF Top
  <2> QED
    BY <1>4, <2>1
<1> QED
  BY <1>1, <1>2, <1>3, <1>5, <1>6 DEF GoodFrame

\* The functions on the stack before and after a step.
LEMMA FramesAre ==
  ASSUME Well(stack)
  PROVE  /\ Frames(stack) = Frames(Popped) \cup {Top}
         /\ \A f : Frames(Replaced(f)) = Frames(Popped) \cup {f}
         /\ \A f, g : Frames(Append(Replaced(f), g)) = Frames(Popped) \cup {f, g}
         /\ \A f, g, h :
              Frames(Append(Append(Replaced(f), g), h)) = Frames(Popped) \cup {f, g, h}
<1> DEFINE r == Popped
<1>1. r \in Seq(GoodFrame) /\ stack = Append(r, Top) /\ \A f : Replaced(f) = Append(r, f)
  BY StackIs
<1> HIDE DEF r
<1>2. Frames(stack) = Frames(r) \cup {Top}
  BY <1>1, AppendFrames
<1>3. ASSUME NEW f
      PROVE  /\ Replaced(f) \in Seq(GoodFrame \cup {f})
             /\ Frames(Replaced(f)) = Frames(r) \cup {f}
  BY <1>1, AppendFrames
<1>4. ASSUME NEW f, NEW g
      PROVE  /\ Append(Replaced(f), g) \in Seq(GoodFrame \cup {f} \cup {g})
             /\ Frames(Append(Replaced(f), g)) = Frames(r) \cup {f, g}
  <2> DEFINE a == Replaced(f)
             A == GoodFrame \cup {f}
  <2>1. a \in Seq(A) /\ Frames(a) = Frames(r) \cup {f}
    BY <1>3
  <2> HIDE DEF a, A
  <2>2. Append(a, g) \in Seq(A \cup {g}) /\ Frames(Append(a, g)) = Frames(a) \cup {g}
    BY <2>1, AppendFrames
  <2>3. Frames(Append(a, g)) = Frames(r) \cup {f, g}
    BY <2>1, <2>2
  <2> QED
    BY <2>2, <2>3 DEF a, A
<1>5. ASSUME NEW f, NEW g, NEW h
      PROVE  Frames(Append(Append(Replaced(f), g), h)) = Frames(r) \cup {f, g, h}
  <2> DEFINE a == Append(Replaced(f), g)
             A == GoodFrame \cup {f} \cup {g}
  <2>1. a \in Seq(A) /\ Frames(a) = Frames(r) \cup {f, g}
    BY <1>4
  <2> HIDE DEF a, A
  <2>2. Frames(Append(a, h)) = Frames(a) \cup {h}
    BY <2>1, AppendFrames
  <2>3. Frames(Append(a, h)) = Frames(r) \cup {f, g, h}
    BY <2>1, <2>2
  <2> QED
    BY <2>3 DEF a
<1> QED
  BY <1>2, <1>3, <1>4, <1>5 DEF r

LEMMA AppendOrdered ==
  ASSUME NEW S, NEW s \in Seq(S), Ordered(s), NEW f,
         s # << >> => f.at \notin MainLabels,
         \A e \in Frames(s) : e.at \in Acting => f.at \in Code
  PROVE  Ordered(Append(s, f)) /\ Append(s, f) # << >>
<1> DEFINE T == S \cup {f}
           a == Append(s, f)
<1>1. s \in Seq(T) /\ f \in T
  OBVIOUS
<1> HIDE DEF T
<1>2. /\ a \in Seq(T) /\ Len(s) \in Nat /\ Len(a) = Len(s) + 1
      /\ a[Len(s) + 1] = f /\ \A i \in 1 .. Len(s) : a[i] = s[i]
      /\ DOMAIN s = 1 .. Len(s) /\ DOMAIN a = 1 .. Len(s) + 1
  BY <1>1
<1> HIDE DEF a
<1>3. ASSUME NEW i \in DOMAIN a, NEW j \in DOMAIN a, i < j
      PROVE  a[j].at \notin MainLabels /\ (a[i].at \in Acting => a[j].at \in Code)
  <2>1. i \in 1 .. Len(s) /\ a[i] = s[i] /\ s # << >>
    BY <1>1, <1>2, <1>3, EmptySeq
  <2>2. CASE j = Len(s) + 1
    <3>1. s[i] \in Frames(s) /\ a[j] = f
      BY <1>2, <2>1, <2>2 DEF Frames
    <3> QED
      BY <2>1, <3>1
  <2>3. CASE j # Len(s) + 1
    <3>1. j \in 1 .. Len(s) /\ a[j] = s[j]
      BY <1>2, <1>3, <2>3
    <3> QED
      BY <1>2, <1>3, <2>1, <3>1 DEF Ordered
  <2> QED
    BY <2>2, <2>3
<1>4. a # << >>
  BY <1>2, EmptySeq
<1> QED
  BY <1>3, <1>4 DEF Ordered, a

\* What the order says of the rest of the stack.
LEMMA RestOrdered ==
  ASSUME Well(stack), Ordered(stack)
  PROVE  /\ Ordered(Popped)
         /\ Popped # << >> => Top.at \notin MainLabels
         /\ \A e \in Frames(Popped) : e.at \in Acting => Top.at \in Code
<1> DEFINE r == Popped
           n == Len(stack)
<1>1. /\ r \in Seq(GoodFrame) /\ Len(r) = n - 1 /\ n \in Nat \ {0}
      /\ \A i \in 1 .. n - 1 : r[i] = stack[i]
      /\ stack \in Seq(GoodFrame)
  BY StackIs DEF Well
<1> HIDE DEF r
<1>2. DOMAIN r = 1 .. n - 1 /\ DOMAIN stack = 1 .. n
  BY <1>1
<1>3. \A i \in 1 .. n - 1 : i \in 1 .. n /\ i < n /\ n \in 1 .. n
  BY <1>1
<1>4. Ordered(r)
  BY <1>1, <1>2, <1>3 DEF Ordered
<1>5. \A i \in 1 .. n - 1 :
        Top.at \notin MainLabels /\ (r[i].at \in Acting => Top.at \in Code)
  BY <1>1, <1>2, <1>3 DEF Ordered, Top
<1>6. ASSUME r # << >> PROVE Top.at \notin MainLabels
  <2>1. 1 \in 1 .. n - 1
    BY <1>1, <1>6, EmptySeq
  <2> QED
    BY <1>5, <2>1
<1>7. \A e \in Frames(r) : e.at \in Acting => Top.at \in Code
  BY <1>2, <1>5 DEF Frames
<1> QED
  BY <1>4, <1>6, <1>7 DEF r

\* A step in which the frames of N appear.
LEMMA FlatStep ==
  ASSUME Flat(state, process_current), NEW N,
         Frames(stack') \subseteq Frames(stack) \cup N,
         Listed \subseteq Listed', Ordered(stack'), Settled(stack', process_current'),
         \A e \in N : Steady(e, Listed'),
         OneActive(Frames(stack')), Marked(Frames(stack'), state'),
         Alive(state', Listed'),
         Booting => \A e \in N : BootFrame(e), Booted => \A e \in N : LoopFrame(e)
  PROVE  FlatKept
<1>1. \A f \in Frames(stack') : Steady(f, Listed')
  BY DEF Flat, Steady
<1>2. Booted => Booted'
  BY DEF Booted
<1>3. Booting' \/ (Booted' /\ ("context" \in Ops => Proc \subseteq Listed'))
  BY DEF Flat, Booting, Booted
<1> QED
  BY <1>1, <1>2, <1>3 DEF FlatKept, Flat

LEMMA AdmitsTop ==
  ASSUME FlatInv, NEW N, Admits(Top, N)
  PROVE  /\ Booting => \A e \in N : BootFrame(e)
         /\ Booted => \A e \in N : LoopFrame(e)
<1>1. Top \in Frames(stack)
  BY FramesAre DEF FlatInv, ProcInv, StackInv
<1> QED
  BY <1>1 DEF Booting, Booted, Admits

\* Outside activations no process is marked.
LEMMA Idle ==
  ASSUME FlatInv, Top.at \notin Acting
  PROVE  /\ \A e \in Frames(stack) : e.at \notin Acting
         /\ \A p \in Proc : state[p] # "CALLED"
<1>1. Well(stack) /\ Ordered(stack)
  BY DEF FlatInv, ProcInv, StackInv, Flat
<1>2. \A e \in Frames(stack) : e.at \notin Acting
  BY <1>1, RestOrdered, FramesAre DEF Acting
<1> QED
  BY <1>2 DEF FlatInv, Flat, Marked, Acting, Activation

\* The steps of the kernel outside activations.
LEMMA QuietFlat ==
  ASSUME FlatInv, Top.at \notin Acting,
         NEW N, Frames(stack') \subseteq Frames(Popped) \cup N,
         Listed \subseteq Listed', Ordered(stack'),
         \A e \in N : e.at \notin Acting /\ Steady(e, Listed'),
         Admits(Top, N), Alive(state', Listed'),
         \A p \in Proc : state'[p] = "CALLED" => state[p] = "CALLED"
  PROVE  FlatKept
<1>1. /\ \A e \in Frames(stack) : e.at \notin Acting
      /\ \A p \in Proc : state'[p] # "CALLED"
  BY Idle
<1>2. Frames(stack) = Frames(Popped) \cup {Top} /\ Flat(state, process_current)
  BY FramesAre DEF FlatInv, ProcInv, StackInv
<1>3. \A e \in Frames(stack') : e.at \notin Acting
  BY <1>1, <1>2
<1>4. OneActive(Frames(stack')) /\ Marked(Frames(stack'), state')
  BY <1>1, <1>3 DEF OneActive, Marked, Acting
<1>5. Settled(stack', process_current')
  BY <1>3 DEF Settled, Frames, Acting, Activation
<1>6. /\ Booting => \A e \in N : BootFrame(e)
      /\ Booted => \A e \in N : LoopFrame(e)
  BY AdmitsTop
<1> QED
  BY <1>2, <1>4, <1>5, <1>6, FlatStep

\* f may be the executing function after t.
Stays(t, f) == t.at \notin MainLabels => f.at \notin MainLabels

LEMMA GoOrdered ==
  ASSUME FlatInv, NEW f, Stays(Top, f), Top.at \notin Acting \/ Top.at = f.at
  PROVE  Ordered(Replaced(f)) /\ Replaced(f) # << >>
<1> DEFINE r == Popped
<1>1. /\ r \in Seq(GoodFrame) /\ Replaced(f) = Append(r, f) /\ Ordered(r)
      /\ r # << >> => Top.at \notin MainLabels
      /\ \A e \in Frames(r) : e.at \in Acting => Top.at \in Code
  BY StackIs, RestOrdered DEF FlatInv, ProcInv, StackInv, Flat
<1> HIDE DEF r
<1>2. /\ r # << >> => f.at \notin MainLabels
      /\ \A e \in Frames(r) : e.at \in Acting => f.at \in Code
  BY <1>1 DEF Stays, Acting
<1>3. Ordered(Append(r, f)) /\ Append(r, f) # << >>
  BY <1>1, <1>2, AppendOrdered
<1> QED
  BY <1>1, <1>3

LEMMA CallOrdered ==
  ASSUME FlatInv, NEW f, NEW g, Stays(Top, f), Top.at \notin Acting \/ Top.at = f.at,
         g.at \notin MainLabels, Top.at \in Acting \cup {"mark"} => g.at \in Code,
         f.at \in Acting => Top.at \in Acting \cup {"mark"}
  PROVE  Ordered(Append(Replaced(f), g)) /\ Append(Replaced(f), g) # << >>
<1> DEFINE r == Replaced(f)
           S == GoodFrame \cup {f}
<1>1. Ordered(r)
  BY GoOrdered
<1>2. r \in Seq(S) /\ Frames(r) = Frames(Popped) \cup {f}
  <2> DEFINE b == Popped
  <2>1. b \in Seq(GoodFrame) /\ r = Append(b, f)
    BY StackIs DEF FlatInv, ProcInv, StackInv
  <2> HIDE DEF b, r
  <2>2. Append(b, f) \in Seq(GoodFrame \cup {f}) /\ Frames(Append(b, f)) = Frames(b) \cup {f}
    BY <2>1, AppendFrames
  <2> QED
    BY <2>1, <2>2 DEF b
<1>3. \A e \in Frames(Popped) : e.at \in Acting => Top.at \in Code
  BY RestOrdered DEF FlatInv, ProcInv, StackInv, Flat
<1>4. \A e \in Frames(r) : e.at \in Acting => g.at \in Code
  BY <1>2, <1>3 DEF Acting
<1> HIDE DEF r, S
<1>5. Ordered(Append(r, g)) /\ Append(r, g) # << >>
  BY <1>1, <1>2, <1>4, AppendOrdered
<1> QED
  BY <1>5 DEF r

\* The executing function goes on, outside activations.
LEMMA GoFlat ==
  ASSUME FlatInv, Top.at \notin Acting, NEW f, stack' = Replaced(f), Stays(Top, f),
         f.at \notin Acting, Steady(f, Listed'), Admits(Top, {f}),
         Listed \subseteq Listed', Alive(state', Listed'),
         \A p \in Proc : state'[p] = "CALLED" => state[p] = "CALLED"
  PROVE  FlatKept
<1> DEFINE N == {f}
<1>1. Frames(stack') \subseteq Frames(Popped) \cup N
  BY FramesAre DEF FlatInv, ProcInv, StackInv
<1>2. Ordered(stack')
  BY GoOrdered
<1>3. \A e \in N : e.at \notin Acting /\ Steady(e, Listed')
  OBVIOUS
<1>4. Admits(Top, N)
  OBVIOUS
<1> HIDE DEF N
<1> QED
  BY <1>1, <1>2, <1>3, <1>4, QuietFlat

\* It calls another,
LEMMA CallFlat ==
  ASSUME FlatInv, Top.at \notin Acting \cup {"mark"}, NEW f, NEW g,
         stack' = Append(Replaced(f), g), Stays(Top, f),
         f.at \notin Acting, g.at \notin Acting \cup MainLabels,
         Steady(f, Listed'), Steady(g, Listed'), Admits(Top, {f, g}),
         Listed \subseteq Listed', Alive(state', Listed'),
         \A p \in Proc : state'[p] = "CALLED" => state[p] = "CALLED"
  PROVE  FlatKept
<1> DEFINE N == {f, g}
<1>1. Frames(stack') \subseteq Frames(Popped) \cup N
  BY FramesAre DEF FlatInv, ProcInv, StackInv
<1>2. Ordered(stack')
  BY CallOrdered
<1>3. \A e \in N : e.at \notin Acting /\ Steady(e, Listed')
  OBVIOUS
<1>4. Admits(Top, N)
  OBVIOUS
<1> HIDE DEF N
<1> QED
  BY <1>1, <1>2, <1>3, <1>4, QuietFlat

\* or process_post_synch(), which calls another.
LEMMA SynchFlat ==
  ASSUME FlatInv, Top.at \notin Acting \cup {"mark"}, NEW f, NEW g, NEW h,
         stack' = Append(Append(Replaced(f), g), h), Stays(Top, f),
         f.at \notin Acting, g.at \notin Acting \cup MainLabels,
         h.at \notin Acting \cup MainLabels,
         Steady(f, Listed'), Steady(g, Listed'), Steady(h, Listed'),
         Admits(Top, {f, g, h}),
         Listed \subseteq Listed', Alive(state', Listed'),
         \A p \in Proc : state'[p] = "CALLED" => state[p] = "CALLED"
  PROVE  FlatKept
<1> DEFINE N == {f, g, h}
           r == Append(Replaced(f), g)
           S == GoodFrame \cup {f} \cup {g}
<1>1. Frames(stack') \subseteq Frames(Popped) \cup N
  BY FramesAre DEF FlatInv, ProcInv, StackInv
<1>2. r \in Seq(S)
  <2> DEFINE b == Popped
             a == Append(b, f)
             A == GoodFrame \cup {f}
  <2>1. b \in Seq(GoodFrame) /\ Replaced(f) = a
    BY StackIs DEF FlatInv, ProcInv, StackInv
  <2> HIDE DEF b
  <2>2. a \in Seq(A)
    BY <2>1, AppendFrames
  <2>3. r = Append(a, g)
    BY <2>1
  <2> HIDE DEF a, A, r
  <2>4. Append(a, g) \in Seq(A \cup {g})
    BY <2>2, AppendFrames
  <2> QED
    BY <2>3, <2>4 DEF A
<1>3. Ordered(r)
  BY CallOrdered
<1>4. \A e \in Frames(r) : e.at \notin Acting
  <2>1. Frames(r) = Frames(Popped) \cup {f, g} /\ Frames(Popped) \subseteq Frames(stack)
    BY FramesAre DEF FlatInv, ProcInv, StackInv
  <2> QED
    BY <2>1, Idle
<1> HIDE DEF r, S
<1>5. Ordered(Append(r, h))
  BY <1>2, <1>3, <1>4, AppendOrdered
<1>6. Ordered(stack')
  BY <1>5 DEF r
<1>7. \A e \in N : e.at \notin Acting /\ Steady(e, Listed')
  OBVIOUS
<1>8. Admits(Top, N)
  OBVIOUS
<1> HIDE DEF N
<1> QED
  BY <1>1, <1>6, <1>7, <1>8, QuietFlat

\* It returns.
LEMMA PopFlat ==
  ASSUME FlatInv, Top.at \notin Acting, stack' = Popped,
         Listed \subseteq Listed', Alive(state', Listed'),
         \A p \in Proc : state'[p] = "CALLED" => state[p] = "CALLED"
  PROVE  FlatKept
<1> DEFINE N == {}
<1>1. Ordered(stack')
  BY RestOrdered DEF FlatInv, ProcInv, StackInv, Flat
<1>2. Admits(Top, N) /\ Frames(stack') \subseteq Frames(Popped) \cup N
  BY DEF Admits
<1>3. \A e \in N : e.at \notin Acting /\ Steady(e, Listed')
  OBVIOUS
<1> HIDE DEF N
<1> QED
  BY <1>1, <1>2, <1>3, QuietFlat

\* The steps that leave the list and the states as they are, and those that set a
\* listed process's state to RUNNING.
LEMMA AliveSame ==
  ASSUME FlatInv, UNCHANGED << process_list, next >>,
         state' = state \/ \E p \in Listed : state' = [state EXCEPT ![p] = "RUNNING"]
  PROVE  /\ Listed' = Listed /\ Alive(state', Listed')
         /\ \A p \in Proc : state'[p] = "CALLED" => state[p] = "CALLED"
<1>1. Listed' = Listed /\ state \in [Proc -> State] /\ Alive(state, Listed)
  BY SameList DEF FlatInv, ProcInv, DataInv, Flat
<1> QED
  BY <1>1 DEF Alive

\* The frame of the executing function with a field changed.
LEMMA TopMoves ==
  ASSUME FlatInv
  PROVE  /\ Top \in GoodFrame /\ Top \in Frame /\ Steady(Top, Listed)
         /\ \A l : /\ [Top EXCEPT !.at = l].at = l
                   /\ [Top EXCEPT !.at = l].p = Top.p
                   /\ [Top EXCEPT !.at = l].q = Top.q
                   /\ [Top EXCEPT !.at = l].ev = Top.ev
         /\ \A l, q : /\ [Top EXCEPT !.at = l, !.q = q].at = l
                      /\ [Top EXCEPT !.at = l, !.q = q].q = q
                      /\ [Top EXCEPT !.at = l, !.q = q].ev = Top.ev
         /\ \A n : /\ [Top EXCEPT !.left = n].at = Top.at
                   /\ [Top EXCEPT !.left = n].p = Top.p
                   /\ [Top EXCEPT !.left = n].q = Top.q
                   /\ [Top EXCEPT !.left = n].saved = Top.saved
                   /\ [Top EXCEPT !.left = n].ev = Top.ev
                   /\ [Top EXCEPT !.left = n].left = n
<1>1. Top \in GoodFrame /\ Top \in Frame /\ Top \in Frames(stack)
  BY StackIs, FramesAre DEF FlatInv, ProcInv, StackInv
<1>2. Steady(Top, Listed)
  BY <1>1 DEF FlatInv, Flat
<1> QED
  BY <1>1, <1>2 DEF Frame

\* The frames the kernel pushes.
LEMMA PushedFrames ==
  /\ \A p, ev : CallFrame(p, ev).at = "call" /\ CallFrame(p, ev).ev = ev
  /\ \A p, ev : /\ ThreadFrame(p, ev).at = "thread" /\ ThreadFrame(p, ev).ev = ev
                /\ ThreadFrame(p, ev).p = p
  /\ SynchFrame.at = "synch" /\ SynchFrame.ev = "none"
  /\ [Blank EXCEPT !.at = "poll"].at = "poll"
  /\ [Blank EXCEPT !.at = "poll"].ev = "none"
  /\ \A q, ev : /\ [Blank EXCEPT !.at = "bpoll", !.q = q, !.ev = ev].at = "bpoll"
                /\ [Blank EXCEPT !.at = "bpoll", !.q = q, !.ev = ev].ev = ev
BY DEF CallFrame, ThreadFrame, SynchFrame, Blank

\* main() starts the processes of the list of autostarted ones, one by one.
LEMMA BootFlat ==
  ASSUME FlatInv, BootStart
  PROVE  FlatKept
<1> DEFINE p == Autostart[Top.left + 1]
           f == [Top EXCEPT !.left = Top.left + 1]
           g == SynchFrame
           h == CallFrame(p, "INIT")
<1>1. /\ Top.at = "boot" /\ Top.left < Len(Autostart) /\ Top.left \in Nat
      /\ Top \in Frame /\ Steady(Top, Listed)
  BY TopMoves DEF BootStart, At, Frame
<1>2. p \in Proc
  BY <1>1, ProcessAssumption
<1>3. process_start(p, Replaced(f))
  BY DEF BootStart
<1>4. f.at = "boot" /\ f.ev = Top.ev /\ f.left = Top.left + 1
  BY <1>1, TopMoves
<1>5. g.at = "synch" /\ g.ev = "none" /\ h.at = "call" /\ h.ev = "INIT"
  BY PushedFrames
<1> HIDE DEF f, g, h
<1>6. Admits(Top, {f}) /\ Admits(Top, {f, g, h}) /\ Stays(Top, f)
  BY <1>1, <1>4, <1>5 DEF Admits, BootFrame, LoopFrame, BootLabels, Stays, MainLabels
<1>7. Top.at \notin Acting \cup {"mark"}
  BY <1>1 DEF Acting, Activation, Code
<1>8. /\ f.at \notin Acting /\ g.at \notin Acting \cup MainLabels
      /\ h.at \notin Acting \cup MainLabels
  BY <1>4, <1>5 DEF Acting, Activation, Code, MainLabels
<1>9. ASSUME p \in Listed', Listed \subseteq Listed'
      PROVE  Steady(f, Listed') /\ Steady(g, Listed') /\ Steady(h, Listed')
  <2>1. ASSUME NEW k \in 1 .. f.left PROVE Autostart[k] \in Listed'
    <3>1. k \in 1 .. Top.left \/ k = Top.left + 1
      BY <1>1, <1>4
    <3> QED
      BY <1>1, <1>9, <3>1 DEF Steady
  <2>2. Steady(f, Listed')
    BY <1>1, <1>4, <2>1 DEF Steady, Lasting, CursorLabels, Activation
  <2> QED
    BY <1>5, <2>2 DEF Steady, Lasting, CursorLabels, Activation
<1>10. CASE p \in Listed
  <2>1. stack' = Replaced(f) /\ state' = state /\ UNCHANGED << process_list, next >>
    BY <1>3, <1>10 DEF process_start, procVars
  <2>2. /\ Listed' = Listed /\ Alive(state', Listed')
        /\ \A q \in Proc : state'[q] = "CALLED" => state[q] = "CALLED"
    BY <2>1, AliveSame
  <2>3. Steady(f, Listed')
    BY <1>9, <1>10, <2>2
  <2> QED
    BY <1>6, <1>7, <1>8, <2>1, <2>2, <2>3, GoFlat
<1>11. CASE p \notin Listed
  <2>1. /\ stack' = Append(Append(Replaced(f), g), h) /\ HeadAdded(p)
        /\ state' = [state EXCEPT ![p] = "RUNNING"]
    BY <1>3, <1>11 DEF process_start, g, h, HeadAdded
  <2>2. Listed' = Listed \cup {p}
    BY <1>2, <2>1, StartedList DEF FlatInv
  <2>3. state \in [Proc -> State] /\ Alive(state, Listed)
    BY DEF FlatInv, ProcInv, DataInv, Flat
  <2>4. /\ Alive(state', Listed')
        /\ \A q \in Proc : state'[q] = "CALLED" => state[q] = "CALLED"
    BY <1>2, <2>1, <2>2, <2>3 DEF Alive
  <2>5. Steady(f, Listed') /\ Steady(g, Listed') /\ Steady(h, Listed')
    BY <1>9, <2>2
  <2> QED
    BY <1>6, <1>7, <1>8, <2>1, <2>2, <2>4, <2>5, SynchFlat
<1> QED
  BY <1>10, <1>11

\* It goes on to process_run() from a stack with nothing else on it, when all of
\* them are on the list.
LEMMA BootedFlat ==
  ASSUME Supported, FlatInv, BootDone
  PROVE  FlatKept
<1> DEFINE f == [Top EXCEPT !.at = "run"]
           r == Popped
<1>1. /\ Top.at = "boot" /\ stack' = Replaced(f) /\ state' = state
      /\ UNCHANGED << process_list, next >> /\ Top.left >= Len(Autostart)
  BY DEF BootDone, At, Goto, procVars
<1>2. /\ f.at = "run" /\ f.ev = Top.ev /\ Steady(Top, Listed) /\ Top.left \in Nat
  BY TopMoves DEF Frame
<1>3. Top.at \notin Acting /\ Stays(Top, f)
  BY <1>1 DEF Acting, Activation, Code, Stays, MainLabels
<1>4. Ordered(stack')
  BY <1>1, <1>3, GoOrdered
<1>5. Frames(r) = {}
  <2>1. r = << >>
    BY <1>1, RestOrdered DEF FlatInv, ProcInv, StackInv, Flat, MainLabels
  <2> HIDE DEF r
  <2> QED
    BY <2>1 DEF Frames
<1>6. Frames(stack') = {f}
  BY <1>1, <1>5, FramesAre DEF FlatInv, ProcInv, StackInv
<1> HIDE DEF f, r
<1>7. /\ Listed' = Listed /\ Alive(state', Listed')
      /\ \A q \in Proc : state'[q] # "CALLED"
  BY <1>1, <1>3, AliveSame, Idle
<1>8. ASSUME "context" \in Ops PROVE Proc \subseteq Listed
  <2>1. ASSUME NEW p \in Proc PROVE p \in Listed
    <3>1. PICK k \in 1 .. Len(Autostart) : Autostart[k] = p
      BY <1>8 DEF Supported
    <3>2. k \in 1 .. Top.left
      BY <1>1, <1>2, ProcessAssumption
    <3> QED
      BY <1>1, <1>2, <3>1, <3>2 DEF Steady
  <2> QED
    BY <2>1
<1>9. Booted' /\ \A e \in Frames(stack') : Steady(e, Listed')
  BY <1>1, <1>2, <1>6 DEF Booted, LoopFrame, Steady, Lasting, CursorLabels, Activation
<1>10. OneActive(Frames(stack')) /\ Marked(Frames(stack'), state')
  BY <1>2, <1>6, <1>7 DEF OneActive, Marked, Activation
<1>11. Settled(stack', process_current')
  BY <1>2, <1>6 DEF Settled, Frames
<1> QED
  BY <1>4, <1>7, <1>8, <1>9, <1>10, <1>11 DEF FlatKept, Flat

LEMMA MainFlat ==
  ASSUME Supported, FlatInv, MainStep
  PROVE  FlatKept
<1>1. CASE BootStart
  BY <1>1, BootFlat
<1>2. CASE BootDone
  BY <1>2, BootedFlat
<1>3. CASE RunPoll \/ RunIdle \/ RunUnicast \/ RunBroadcast
  <2> DEFINE m == NextMessage
             f == [Top EXCEPT !.at = "run"]
             e == [Top EXCEPT !.at = "event"]
             g == [Blank EXCEPT !.at = "poll"]
             c == CallFrame(m.p, m.ev)
             b == [Blank EXCEPT !.at = "bpoll", !.q = process_list, !.ev = m.ev]
  <2>0. ASSUME RunUnicast \/ RunBroadcast PROVE m.ev = "MSG"
    <3>1. QueueInv /\ TakeEvent
      BY <2>0 DEF RunUnicast, RunBroadcast, FlatInv, ProcInv, DataInv
    <3>2. m = Head(Waiting) /\ Waiting # << >> /\ Waiting \in Seq(Message)
      BY <3>1, TakeEventInv, WaitingIsSeq
    <3>3. m \in Message
      BY <3>2
    <3> QED
      BY <3>3 DEF Supported
  <2>1. /\ Top.at \in {"run", "event"} /\ state' = state
        /\ UNCHANGED << process_list, next >>
        /\ \/ stack' = Replaced(f)
           \/ stack' = Replaced(e)
           \/ stack' = Append(Replaced(e), g)
           \/ m.ev = "MSG" /\ stack' = Append(Replaced(f), c)
           \/ m.ev = "MSG" /\ stack' = Append(Replaced(f), b)
    <3>1. CASE RunPoll \/ RunIdle
      BY <3>1 DEF RunPoll, RunIdle, At, Goto, procVars
    <3>2. CASE RunUnicast
      BY <2>0, <3>2 DEF RunUnicast, At, Goto
    <3>3. CASE RunBroadcast
      BY <2>0, <3>3 DEF RunBroadcast, At, Goto, procVars
    <3> QED
      BY <1>3, <3>1, <3>2, <3>3
  <2>2. /\ f.at = "run" /\ e.at = "event" /\ g.at = "poll" /\ c.at = "call"
        /\ b.at = "bpoll" /\ f.ev = Top.ev /\ e.ev = Top.ev /\ g.ev = "none"
        /\ c.ev = m.ev /\ b.ev = m.ev /\ Steady(Top, Listed)
    BY TopMoves, PushedFrames
  <2>3. Top.at \notin BootLabels /\ Top.at \notin Acting \cup {"mark"}
    BY <2>1 DEF BootLabels, Acting, Activation, Code
  <2>4. /\ Listed' = Listed /\ Alive(state', Listed')
        /\ \A q \in Proc : state'[q] = "CALLED" => state[q] = "CALLED"
    BY <2>1, AliveSame
  <2> HIDE DEF f, e, g, c, b
  <2>5. /\ Admits(Top, {f}) /\ Admits(Top, {e}) /\ Admits(Top, {e, g})
        /\ Admits(Top, {f, c}) /\ Admits(Top, {f, b})
        /\ Stays(Top, f) /\ Stays(Top, e)
    BY <2>1, <2>2, <2>3 DEF Admits, BootFrame, LoopFrame, Stays, MainLabels
  <2>6. \A x \in {f, e, g, c, b} : x.at \notin Acting
    BY <2>2 DEF Acting, Activation, Code
  <2>7. \A x \in {g, c, b} : x.at \notin Acting \cup MainLabels
    BY <2>2, <2>6 DEF MainLabels
  <2>8. /\ Steady(f, Listed') /\ Steady(e, Listed') /\ Steady(g, Listed')
        /\ m.ev = "MSG" => Steady(c, Listed') /\ Steady(b, Listed')
    BY <2>2 DEF Steady, Lasting, CursorLabels, Activation
  <2>9. CASE stack' = Replaced(f) \/ stack' = Replaced(e)
    BY <2>3, <2>4, <2>5, <2>6, <2>8, <2>9, GoFlat
  <2>10. CASE stack' = Append(Replaced(e), g)
    BY <2>3, <2>4, <2>5, <2>6, <2>7, <2>8, <2>10, CallFlat
  <2>11. CASE m.ev = "MSG" /\ stack' = Append(Replaced(f), c)
    BY <2>3, <2>4, <2>5, <2>6, <2>7, <2>8, <2>11, CallFlat
  <2>12. CASE m.ev = "MSG" /\ stack' = Append(Replaced(f), b)
    BY <2>3, <2>4, <2>5, <2>6, <2>7, <2>8, <2>12, CallFlat
  <2> QED
    BY <2>1, <2>9, <2>10, <2>11, <2>12
<1> QED
  BY <1>1, <1>2, <1>3 DEF MainStep

LEMMA EventFlat ==
  ASSUME FlatInv, EventStep
  PROVE  FlatKept
<1> DEFINE e == [Top EXCEPT !.at = "bcall"]
           g == [Blank EXCEPT !.at = "poll"]
           f == [Top EXCEPT !.at = "bnext"]
           c == CallFrame(Top.q, Top.ev)
           b == [Top EXCEPT !.at = "bpoll", !.q = next[Top.q]]
<1>1. /\ Top.at \in BroadcastLabels /\ state' = state
      /\ UNCHANGED << process_list, next >>
      /\ \/ stack' = Popped
         \/ stack' = Replaced(e)
         \/ stack' = Append(Replaced(e), g)
         \/ stack' = Append(Replaced(f), c)
         \/ stack' = Replaced(b)
  BY DEF EventStep, BroadcastPoll, BroadcastCall, BroadcastNext, At, Goto,
         BroadcastLabels, procVars
<1>2. /\ e.at = "bcall" /\ g.at = "poll" /\ f.at = "bnext" /\ c.at = "call"
      /\ b.at = "bpoll" /\ e.ev = Top.ev /\ g.ev = "none" /\ f.ev = Top.ev
      /\ c.ev = Top.ev /\ b.ev = Top.ev /\ Steady(Top, Listed)
  BY TopMoves, PushedFrames
<1>3. Top.at \notin BootLabels /\ Top.at \notin Acting \cup {"mark"}
  BY <1>1 DEF BootLabels, BroadcastLabels, Acting, Activation, Code
<1>4. /\ Listed' = Listed /\ Alive(state', Listed')
      /\ \A q \in Proc : state'[q] = "CALLED" => state[q] = "CALLED"
  BY <1>1, AliveSame
<1> HIDE DEF e, g, f, c, b
<1>5. /\ Admits(Top, {e}) /\ Admits(Top, {b}) /\ Admits(Top, {e, g})
      /\ Admits(Top, {f, c}) /\ Stays(Top, e) /\ Stays(Top, f) /\ Stays(Top, b)
  BY <1>2, <1>3 DEF Admits, BootFrame, LoopFrame, Stays, MainLabels
<1>6. /\ e.at \notin Acting /\ f.at \notin Acting /\ b.at \notin Acting
      /\ g.at \notin Acting \cup MainLabels /\ c.at \notin Acting \cup MainLabels
  BY <1>2 DEF Acting, Activation, Code, MainLabels
<1>7. /\ Steady(e, Listed') /\ Steady(g, Listed') /\ Steady(f, Listed')
      /\ Steady(c, Listed') /\ Steady(b, Listed')
  BY <1>2 DEF Steady, Lasting, CursorLabels, Activation
<1>8. CASE stack' = Popped
  BY <1>3, <1>4, <1>8, PopFlat
<1>9. CASE stack' = Replaced(e) \/ stack' = Replaced(b)
  BY <1>3, <1>4, <1>5, <1>6, <1>7, <1>9, GoFlat
<1>10. CASE stack' = Append(Replaced(e), g)
  BY <1>3, <1>4, <1>5, <1>6, <1>7, <1>10, CallFlat
<1>11. CASE stack' = Append(Replaced(f), c)
  BY <1>3, <1>4, <1>5, <1>6, <1>7, <1>11, CallFlat
<1> QED
  BY <1>1, <1>8, <1>9, <1>10, <1>11

LEMMA PollFlat ==
  ASSUME FlatInv, PollStep
  PROVE  FlatKept
<1> DEFINE s == [Top EXCEPT !.at = "scan", !.q = process_list]
           r == [Top EXCEPT !.at = "ready"]
           n == [Top EXCEPT !.at = "pollnext"]
           l == [Top EXCEPT !.at = "claim"]
           c == CallFrame(Top.q, "POLL")
           b == [Top EXCEPT !.at = "scan", !.q = next[Top.q]]
<1>1. /\ Top.at \in PollLabels /\ UNCHANGED << process_list, next >>
      /\ \/ stack' = Popped
         \/ stack' = Replaced(s)
         \/ Top.at \in CursorLabels /\ stack' \in {Replaced(r), Replaced(n), Replaced(l)}
         \/ Top.at \in CursorLabels /\ stack' = Append(Replaced(n), c)
         \/ Top.at = "pollnext" /\ stack' = Replaced(b)
  BY DEF PollStep, PollBegin, PollScan, PollReady, PollClaim, PollNext, At, Goto,
         PollLabels, CursorLabels, procVars
<1>2. /\ Top \in GoodFrame /\ Steady(Top, Listed)
      /\ Top.at \in QLabels => Top.q \in Proc
  BY TopMoves DEF GoodFrame
<1>3. Listed' = Listed /\ Linear(process_list, next) /\ Listed = Reached(process_list, next)
  BY <1>1, SameList, ListDefs DEF FlatInv, ListInv
<1>4. state' = state \/ \E p \in Listed : state' = [state EXCEPT ![p] = "RUNNING"]
  <2>1. ASSUME PollReady PROVE Top.q \in Listed
    BY <1>2, <2>1, ProcessAssumption
    DEF PollReady, At, QLabels, CursorLabels, Steady
  <2> QED
    BY <2>1 DEF PollStep, PollBegin, PollScan, PollReady, PollClaim, PollNext, procVars
<1>5. /\ Alive(state', Listed')
      /\ \A q \in Proc : state'[q] = "CALLED" => state[q] = "CALLED"
  BY <1>1, <1>4, AliveSame
<1>6. /\ s.at = "scan" /\ r.at = "ready" /\ n.at = "pollnext" /\ l.at = "claim"
      /\ c.at = "call" /\ b.at = "scan" /\ s.ev = Top.ev /\ r.ev = Top.ev
      /\ n.ev = Top.ev /\ l.ev = Top.ev /\ c.ev = "POLL" /\ b.ev = Top.ev
      /\ s.q = process_list /\ r.q = Top.q /\ n.q = Top.q /\ l.q = Top.q
      /\ b.q = next[Top.q]
  BY TopMoves, PushedFrames
<1>7. Top.at \notin BootLabels /\ Top.at \notin Acting \cup {"mark"}
  BY <1>1 DEF BootLabels, PollLabels, Acting, Activation, Code
<1> HIDE DEF s, r, n, l, c, b
<1>8. /\ \A x \in {s, r, n, l, b} : Admits(Top, {x}) /\ Stays(Top, x) /\ x.at \notin Acting
      /\ Admits(Top, {n, c}) /\ c.at \notin Acting \cup MainLabels
  BY <1>6, <1>7
  DEF Admits, BootFrame, LoopFrame, Stays, MainLabels, Acting, Activation, Code
<1>9. /\ Steady(s, Listed') /\ Steady(c, Listed')
      /\ Top.at \in CursorLabels => \A x \in {r, n, l} : Steady(x, Listed')
      /\ Top.at = "pollnext" => Steady(b, Listed')
  <2>1. s.q \in Listed \cup {NULL}
    BY <1>3, <1>6, LinearFacts
  <2>2. Top.at \in CursorLabels => Top.q \in Listed \cup {NULL}
    BY <1>2 DEF Steady
  <2>3. ASSUME Top.at = "pollnext" PROVE b.q \in Listed \cup {NULL}
    <3>1. Top.q \in Listed
      BY <1>2, <2>2, <2>3, ProcessAssumption DEF QLabels, CursorLabels
    <3> QED
      BY <1>3, <1>6, <3>1, LinearFacts
  <2> QED
    BY <1>2, <1>3, <1>6, <2>1, <2>2, <2>3 DEF Steady, Lasting, CursorLabels, Activation
<1>10. CASE stack' = Popped
  BY <1>3, <1>5, <1>7, <1>10, PopFlat
<1>11. CASE stack' = Replaced(s)
  BY <1>3, <1>5, <1>7, <1>8, <1>9, <1>11, GoFlat
<1>12. CASE Top.at \in CursorLabels /\ stack' \in {Replaced(r), Replaced(n), Replaced(l)}
  BY <1>3, <1>5, <1>7, <1>8, <1>9, <1>12, GoFlat
<1>13. CASE Top.at \in CursorLabels /\ stack' = Append(Replaced(n), c)
  BY <1>3, <1>5, <1>7, <1>8, <1>9, <1>13, CallFlat
<1>14. CASE Top.at = "pollnext" /\ stack' = Replaced(b)
  BY <1>3, <1>5, <1>7, <1>8, <1>9, <1>14, GoFlat
<1> QED
  BY <1>1, <1>10, <1>11, <1>12, <1>13, <1>14

\* call_process() activates a process of the list.
LEMMA ActivationFlat ==
  ASSUME FlatInv, CallThread
  PROVE  FlatKept
<1> DEFINE c == [Top EXCEPT !.at = "calling"]
           g == ThreadFrame(Top.p, Top.ev)
           N == {c, g}
<1>1. /\ Top.at = "mark" /\ stack' = Append(Replaced(c), g)
      /\ state' = [state EXCEPT ![Top.p] = "CALLED"]
      /\ UNCHANGED << process_list, next >>
  BY DEF CallThread, At, Goto
<1>2. /\ c.at = "calling" /\ c.p = Top.p /\ c.ev = Top.ev
      /\ g.at = "thread" /\ g.p = Top.p /\ g.ev = Top.ev
      /\ Steady(Top, Listed) /\ Top.p \in Listed
  BY <1>1, TopMoves, PushedFrames DEF Steady
<1>3. /\ \A e \in Frames(stack) : e.at \notin Acting
      /\ \A p \in Proc : state[p] # "CALLED"
  BY <1>1, Idle DEF Acting, Activation, Code
<1>4. /\ Frames(stack) = Frames(Popped) \cup {Top}
      /\ Frames(stack') = Frames(Popped) \cup N
  BY <1>1, FramesAre DEF FlatInv, ProcInv, StackInv
<1> HIDE DEF c, g
<1>14. Settled(stack', process_current')
  <2> DEFINE r == Popped
             a == Append(r, c)
             S == GoodFrame \cup {c} \cup {g}
  <2>1. /\ r \in Seq(S) /\ c \in S /\ g \in S /\ stack' = Append(a, g)
        /\ \A i \in DOMAIN r : r[i] \in Frames(stack)
    <3>1. r \in Seq(GoodFrame) /\ Replaced(c) = a
      BY StackIs DEF FlatInv, ProcInv, StackInv
    <3>2. \A i \in DOMAIN r : r[i] \in Frames(r)
      BY DEF Frames
    <3> HIDE DEF r
    <3> QED
      BY <1>1, <1>4, <3>1, <3>2 DEF r
  <2> HIDE DEF r, S
  <2>2. /\ Len(r) \in Nat /\ Len(stack') = Len(r) + 2 /\ DOMAIN stack' = 1 .. Len(r) + 2
        /\ DOMAIN r = 1 .. Len(r)
        /\ stack'[Len(r) + 1] = c /\ stack'[Len(r) + 2] = g
        /\ \A i \in 1 .. Len(r) : stack'[i] = r[i]
    BY <2>1
  <2>3. \A i \in 1 .. Len(r) : stack'[i].at \notin Acting
    BY <1>3, <2>1, <2>2
  <2>4. ASSUME NEW i \in 1 .. Len(r) + 2
        PROVE  i \in 1 .. Len(r) \/ i = Len(r) + 1 \/ i = Len(r) + 2
    BY <2>2
  <2>5. Len(r) + 1 # Len(r) + 2 /\ Len(r) + 1 + 1 = Len(r) + 2
    BY <2>2
  <2> QED
    BY <1>2, <2>2, <2>3, <2>4, <2>5 DEF Settled, Acting, Activation
<1>5. Ordered(stack')
  BY <1>1, <1>2, CallOrdered DEF Stays, MainLabels, Acting, Activation, Code
<1>6. /\ Listed' = Listed /\ state \in [Proc -> State] /\ Listed \subseteq Proc
      /\ Alive(state, Listed)
  BY <1>1, SameList, ListDefs, LinearFacts DEF FlatInv, ProcInv, DataInv, Flat, ListInv
<1>7. Alive(state', Listed')
  BY <1>1, <1>2, <1>6 DEF Alive
<1>8. OneActive(Frames(stack'))
  BY <1>2, <1>3, <1>4 DEF OneActive, Acting
<1>9. Marked(Frames(stack'), state')
  BY <1>1, <1>2, <1>3, <1>4, <1>6 DEF Marked
<1>10. \A e \in N : Steady(e, Listed')
  BY <1>2, <1>6 DEF Steady, Lasting, CursorLabels, Activation
<1>11. Admits(Top, N)
  BY <1>1, <1>2 DEF Admits, BootFrame, LoopFrame, BootLabels
<1> HIDE DEF N
<1>12. /\ Booting => \A e \in N : BootFrame(e)
       /\ Booted => \A e \in N : LoopFrame(e)
  BY <1>11, AdmitsTop
<1>13. /\ Frames(stack') \subseteq Frames(stack) \cup N
       /\ Flat(state, process_current)
  BY <1>4 DEF FlatInv
<1> QED
  BY <1>14, <1>5, <1>6, <1>7, <1>8, <1>9, <1>10, <1>12, <1>13, FlatStep

\* The return of a function that leaves the processes that are marked with their
\* activations.
LEMMA ReturnedFlat ==
  ASSUME FlatInv, stack' = Popped, UNCHANGED << process_list, next >>,
         Top.at \in {"done", "context"} \/ stack[Len(stack) - 1].at # "calling",
         Alive(state', Listed),
         \A p \in Proc : state'[p] = "CALLED" =>
           state[p] = "CALLED" /\ ~(Top.at \in {"calling", "done"} /\ Top.p = p)
  PROVE  FlatKept
<1> DEFINE N == {}
<1>1. Listed' = Listed
  BY SameList
<1>2. /\ Frames(stack) = Frames(stack') \cup {Top} /\ Ordered(stack')
      /\ Flat(state, process_current)
  BY FramesAre, RestOrdered DEF FlatInv, ProcInv, StackInv, Flat
<1>3. OneActive(Frames(stack')) /\ Marked(Frames(stack'), state')
  BY <1>2 DEF Flat, OneActive, Marked
<1>4. /\ Frames(stack') \subseteq Frames(stack) \cup N
      /\ \A e \in N : Steady(e, Listed')
      /\ Booting => \A e \in N : BootFrame(e)
      /\ Booted => \A e \in N : LoopFrame(e)
  BY <1>2
<1> HIDE DEF N
<1>5. Settled(stack', process_current')
  <2> DEFINE r == Popped
  <2>1. /\ r \in Seq(GoodFrame) /\ Len(r) = Len(stack) - 1 /\ Len(stack) \in Nat \ {0}
        /\ \A i \in 1 .. Len(stack) - 1 : r[i] = stack[i]
        /\ stack \in Seq(GoodFrame) /\ stack' = r
    BY StackIs DEF FlatInv, ProcInv, StackInv, Well
  <2> HIDE DEF r
  <2>2. DOMAIN stack' = 1 .. Len(stack) - 1 /\ DOMAIN stack = 1 .. Len(stack)
    BY <2>1
  <2>3. ASSUME NEW i \in 1 .. Len(stack) - 1
        PROVE  /\ i \in 1 .. Len(stack) /\ i # Len(stack) /\ stack'[i] = stack[i]
               /\ i = Len(stack) - 1 => i + 1 = Len(stack)
               /\ i # Len(stack) - 1 => i + 1 \in 1 .. Len(stack) - 1
    BY <2>1
  <2>4. ASSUME NEW i \in 1 .. Len(stack) - 1
        PROVE  /\ stack'[i].at = "calling" => i # Len(stack') /\ stack'[i + 1].at = "thread"
               /\ stack'[i].at # "done"
    <3>1. /\ stack[i].at = "calling" => stack[i + 1].at = "thread"
          /\ stack[i].at # "done"
      BY <1>2, <2>2, <2>3 DEF Flat, Settled
    <3>2. i = Len(stack) - 1 => stack[i].at # "calling"
      BY <2>3, <3>1 DEF Top
    <3> QED
      BY <2>1, <2>3, <3>1, <3>2
  <2> QED
    BY <2>2, <2>4 DEF Settled
<1> QED
  BY <1>1, <1>2, <1>3, <1>4, <1>5, FlatStep

LEMMA CallFlatStep ==
  ASSUME FlatInv, CallStep
  PROVE  FlatKept
<1>1. CASE CallEnter
  <2> DEFINE f == [Top EXCEPT !.at = "mark"]
  <2>1. /\ Top.at = "call" /\ state' = state /\ UNCHANGED << process_list, next >>
        /\ \/ state[Top.p] \in Callable /\ stack' = Replaced(f)
           \/ stack' = Popped
    BY <1>1 DEF CallEnter, At, Goto, procVars
  <2>2. /\ Top.at \notin Acting
        /\ Listed' = Listed /\ Alive(state', Listed')
        /\ \A q \in Proc : state'[q] = "CALLED" => state[q] = "CALLED"
    BY <2>1, AliveSame DEF Acting, Activation, Code
  <2>3. /\ f.at = "mark" /\ f.p = Top.p /\ f.ev = Top.ev /\ Steady(Top, Listed)
        /\ Top.p \in Proc
    BY <2>1, TopMoves DEF GoodFrame, PLabels
  <2> HIDE DEF f
  <2>4. Admits(Top, {f}) /\ Stays(Top, f) /\ f.at \notin Acting
    BY <2>1, <2>3
    DEF Admits, BootFrame, LoopFrame, BootLabels, Stays, MainLabels, Acting,
        Activation, Code
  <2>5. ASSUME state[Top.p] \in Callable PROVE Steady(f, Listed')
    <3>1. Top.p \in Listed
      BY <2>1, <2>2, <2>3, <2>5 DEF Alive, Callable
    <3> QED
      BY <2>2, <2>3, <3>1 DEF Steady, Lasting, CursorLabels, Activation
  <2>6. CASE stack' = Popped
    BY <2>2, <2>6, PopFlat
  <2>7. CASE state[Top.p] \in Callable /\ stack' = Replaced(f)
    BY <2>2, <2>4, <2>5, <2>7, GoFlat
  <2> QED
    BY <2>1, <2>6, <2>7
<1>2. CASE CallThread
  BY <1>2, ActivationFlat
<1>3. CASE CallDone
  <2>1. /\ Top.at = "done" /\ stack' = Popped /\ UNCHANGED << process_list, next >>
        /\ state' = [state EXCEPT ![Top.p] = "RUNNING"]
    BY <1>3 DEF CallDone, At
  <2>2. Steady(Top, Listed) /\ Top.p \in Listed
    BY <2>1, TopMoves DEF Steady, Activation
  <2>3. state \in [Proc -> State] /\ Alive(state, Listed)
    BY DEF FlatInv, ProcInv, DataInv, Flat
  <2>4. Alive(state', Listed)
    BY <2>1, <2>2, <2>3 DEF Alive
  <2> QED
    BY <2>1, <2>3, <2>4, ReturnedFlat
<1>4. CASE CallExit
  BY <1>4, TopMoves DEF CallExit, At, Steady, Lasting
<1>5. CASE SynchReturn
  <2>1. /\ Top.at = "synch" /\ state' = state /\ stack' = Popped
        /\ UNCHANGED << process_list, next >>
    BY <1>5 DEF SynchReturn, At, procVars
  <2> QED
    BY <2>1, AliveSame, PopFlat DEF Acting, Activation, Code
<1> QED
  BY <1>1, <1>2, <1>3, <1>4, <1>5 DEF CallStep

\* The code of a thread goes on, and perhaps begins a PROCESS_CONTEXT block.
LEMMA CodeFlat ==
  ASSUME FlatInv, Executing, NEW f, f.at = Top.at, f.p = Top.p, f.ev = Top.ev,
         f.saved = Top.saved, NEW g, g.at = "context", g.ev = Top.ev,
         stack' = Replaced(f) \/ stack' = Append(Replaced(f), g),
         stack' # Replaced(f) => "context" \in Ops /\ g.saved \in Proc,
         UNCHANGED procVars
  PROVE  FlatKept
<1>11. Settled(stack', process_current')
  <2> DEFINE n == Len(stack)
             r == Replaced(f)
             S == GoodFrame \cup {f} \cup {g}
             Grown(s) == /\ Len(s) >= n /\ Len(s) \in Nat /\ DOMAIN s = 1 .. Len(s)
                         /\ s[n] = f /\ \A i \in 1 .. n - 1 : s[i] = stack[i]
                         /\ \A i \in (1 .. Len(s)) \ (1 .. n) : s[i] = g
  <2>1. /\ stack \in Seq(S) /\ n \in Nat \ {0} /\ f \in S /\ g \in S
        /\ DOMAIN stack = 1 .. n
    BY StackIs DEF FlatInv, ProcInv, StackInv, Well
  <2> HIDE DEF S
  <2>2. /\ r \in Seq(S) /\ Len(r) = n
        /\ \A i \in 1 .. n : r[i] = IF i = n THEN f ELSE stack[i]
    <3>1. r = [stack EXCEPT ![n] = f]
      BY DEF Replaced
    <3> HIDE DEF r
    <3> QED
      BY <2>1, <3>1, ExceptSeq
  <2>3. stack' = r \/ stack' = Append(r, g)
    OBVIOUS
  <2> HIDE DEF r, n
  <2>4. Grown(r) /\ Grown(Append(r, g))
    BY <2>1, <2>2
  <2>5. Grown(stack')
    BY <2>3, <2>4
  <2>6. ASSUME NEW i \in DOMAIN stack', stack'[i].at \notin {Top.at, "context"}
        PROVE  /\ i \in 1 .. n - 1 /\ stack'[i] = stack[i] /\ i # Len(stack')
               /\ i \in 1 .. n /\ i # n
               /\ i + 1 = n \/ i + 1 \in 1 .. n - 1
               /\ i + 1 \in 1 .. n - 1 => stack'[i + 1] = stack[i + 1]
               /\ stack'[n] = f
    <3>3. i \in 1 .. Len(stack') /\ Len(stack') >= n /\ stack'[n] = f
      BY <2>5
    <3>4. i # n
      BY <2>6, <3>3
    <3>5. i \in 1 .. n
      <4>1. ASSUME i \notin 1 .. n PROVE FALSE
        <5>1. i \in (1 .. Len(stack')) \ (1 .. n)
          BY <3>3, <4>1
        <5>2. stack'[i] = g
          BY <2>5, <5>1
        <5> QED
          BY <2>6, <5>2
      <4> QED
        BY <4>1
    <3>1. /\ i \in 1 .. Len(stack') /\ i # n /\ i \in 1 .. n /\ Len(stack') >= n
          /\ stack'[n] = f
      BY <3>3, <3>4, <3>5
    <3>2. i \in 1 .. n - 1 /\ (i + 1 = n \/ i + 1 \in 1 .. n - 1) /\ i # Len(stack')
      <4> DEFINE l == Len(stack')
      <4>1. n \in Nat \ {0} /\ l \in Nat /\ l >= n /\ i \in 1 .. n /\ i # n
        BY <2>1, <2>5, <3>1
      <4> HIDE DEF l
      <4> QED
        BY <4>1 DEF l
    <3> QED
      BY <2>5, <3>1, <3>2
  <2>7. ASSUME NEW i \in 1 .. n - 1
        PROVE  /\ stack[i].at = "calling" => stack[i + 1].at = "thread"
               /\ stack[i].at # "done"
    BY <2>1 DEF FlatInv, Flat, Settled, n
  <2>8. stack[n] = Top
    BY DEF n, Top
  <2>9. ASSUME NEW i \in DOMAIN stack'
        PROVE  /\ stack'[i].at = "calling" =>
                    i # Len(stack') /\ stack'[i + 1].at = "thread"
               /\ stack'[i].at # "done"
    <3>1. CASE stack'[i].at \in {Top.at, "context"}
      BY <3>1 DEF Executing
    <3>2. CASE stack'[i].at \notin {Top.at, "context"}
      <4> HIDE DEF Grown
      <4>1. /\ i \in 1 .. n - 1 /\ stack'[i] = stack[i] /\ i # Len(stack')
            /\ i + 1 = n \/ i + 1 \in 1 .. n - 1
            /\ i + 1 \in 1 .. n - 1 => stack'[i + 1] = stack[i + 1]
            /\ stack'[n] = f
        BY <2>6, <3>2
      <4> QED
        BY <2>7, <2>8, <4>1
    <3> QED
      BY <3>1, <3>2
  <2> QED
    BY <2>9 DEF Settled
<1> DEFINE N == Frames(stack') \ Frames(Popped)
<1>1. Top.at \in Code
  BY DEF Executing, Code
<1>2. /\ state' = state /\ UNCHANGED << process_list, next >> /\ Listed' = Listed
      /\ Alive(state, Listed)
  BY SameList DEF procVars, FlatInv, Flat
<1>3. /\ Frames(stack) = Frames(Popped) \cup {Top}
      /\ Frames(Popped) \subseteq Frames(stack')
      /\ N \subseteq {f, g}
      /\ stack' = Replaced(f) => N \subseteq {f}
      /\ Frames(stack') = Frames(Popped) \cup N
  <2>1. /\ Frames(stack) = Frames(Popped) \cup {Top}
        /\ Frames(Replaced(f)) = Frames(Popped) \cup {f}
        /\ Frames(Append(Replaced(f), g)) = Frames(Popped) \cup {f, g}
    BY FramesAre DEF FlatInv, ProcInv, StackInv
  <2>2. CASE stack' = Replaced(f)
    BY <2>1, <2>2
  <2>3. CASE stack' = Append(Replaced(f), g) /\ stack' # Replaced(f)
    BY <2>1, <2>3
  <2> QED
    BY <2>2, <2>3
<1> HIDE DEF N
<1>4. Ordered(stack')
  BY <1>1, GoOrdered, CallOrdered DEF Stays, MainLabels, Acting, Activation, Code
<1>5. Steady(Top, Listed)
  BY TopMoves
<1>6. \A e \in N : Steady(e, Listed')
  <2>1. Steady(f, Listed')
    BY <1>1, <1>2, <1>5 DEF Steady, Lasting, CursorLabels, Activation, Code
  <2>2. "context" \in Ops /\ g.saved \in Proc => Steady(g, Listed')
    BY <1>2, <1>5 DEF Steady, Lasting, CursorLabels, Activation
  <2>3. g \in N => g = f \/ ("context" \in Ops /\ g.saved \in Proc)
    <3>1. CASE stack' = Replaced(f)
      BY <1>3, <3>1
    <3>2. CASE stack' # Replaced(f)
      BY <3>2
    <3> QED
      BY <3>1, <3>2
  <2> QED
    BY <1>3, <2>1, <2>2, <2>3
<1>7. OneActive(Frames(stack'))
  <2>1. OneActive(Frames(stack))
    BY DEF FlatInv, Flat
  <2>2. ASSUME NEW e \in Frames(stack'), e.at \in Activation
        PROVE  \E d \in Frames(stack) : d.at \in Activation /\ d.p = e.p
    BY <1>1, <1>3, <2>2 DEF Activation, Code
  <2> QED
    BY <2>1, <2>2 DEF OneActive
<1>8. Marked(Frames(stack'), state')
  BY <1>1, <1>2, <1>3 DEF FlatInv, Flat, Marked, Code
<1>9. /\ Booting => \A e \in N : BootFrame(e)
      /\ Booted => \A e \in N : LoopFrame(e)
  BY <1>1, <1>3 DEF Booting, Booted, BootFrame, LoopFrame, BootLabels, Code
<1>10. /\ Frames(stack') \subseteq Frames(stack) \cup N
       /\ Flat(state, process_current)
  BY <1>3 DEF FlatInv
<1> QED
  BY <1>2, <1>4, <1>6, <1>7, <1>8, <1>9, <1>10, <1>11, FlatStep

\* A thread that calls something else than the kernel keeps the invariant.
LEMMA SpentStep ==
  ASSUME FlatInv, Executing, Top.left > 0, stack' = Spent,
         UNCHANGED << procVars, process_current >>
  PROVE  /\ FlatKept
         /\ QueueInv' /\ UNCHANGED pollVars => FlatInv'
<1> DEFINE f == [Top EXCEPT !.left = Top.left - 1]
           g == ContextFrame(Top.p)
<1>1. /\ Top \in GoodFrame /\ Top.at \in {"thread", "context"} /\ stack' = Replaced(f)
      /\ Top.ev \in EventNumbers /\ Top.p \in Proc /\ process_current \in Pointer
  BY TopMoves
  DEF Executing, Spent, GoodFrame, PLabels, Frame, FlatInv, ProcInv, DataInv
<1>2. /\ f.at = Top.at /\ f.p = Top.p /\ f.ev = Top.ev /\ f.saved = Top.saved
      /\ f \in GoodFrame
  BY <1>1 DEF GoodFrame, Frame
<1>3. g.at = "context" /\ g.ev = Top.ev
  BY <1>1, ContextFrames
<1> HIDE DEF f, g
<1>4. FlatKept
  BY <1>1, <1>2, <1>3, CodeFlat
<1>5. ASSUME QueueInv', UNCHANGED pollVars PROVE FlatInv'
  <2>1. StackInv'
    <3>1. Continues(Top, f)
      BY <1>2 DEF Continues
    <3>2. TopOK(f, process_current')
      BY <1>2 DEF TopOK, FlatInv, ProcInv, StackInv
    <3> QED
      BY <1>1, <1>2, <3>1, <3>2, GotoStep DEF FlatInv, ProcInv
  <2>2. DataInv'
    BY <1>5 DEF FlatInv, ProcInv, DataInv, procVars, pollVars
  <2>3. ListInv'
    BY SameList DEF FlatInv, procVars
  <2> QED
    BY <1>4, <2>1, <2>2, <2>3 DEF FlatKept, FlatInv, ProcInv
<1> QED
  BY <1>4, <1>5

LEMMA ContextFlat ==
  ASSUME FlatInv, NEW p \in Proc, ContextBegin(p)
  PROVE  FlatKept
<1> DEFINE f == [Top EXCEPT !.left = Top.left - 1]
           g == ContextFrame(p)
<1>1. /\ Top \in GoodFrame /\ Executing /\ stack' = Append(Replaced(f), g)
      /\ Top.ev \in EventNumbers /\ process_current \in Pointer
      /\ "context" \in Ops /\ UNCHANGED procVars
  BY TopMoves
  DEF ContextBegin, MayNest, MayCall, Spent, GoodFrame, Frame, FlatInv, ProcInv, DataInv
<1>2. f.at = Top.at /\ f.p = Top.p /\ f.ev = Top.ev /\ f.saved = Top.saved
  BY <1>1 DEF GoodFrame, Frame
<1>3. g.at = "context" /\ g.ev = Top.ev /\ g.saved = process_current
  BY <1>1, ContextFrames
<1>4. process_current \in Proc
  BY <1>1 DEF FlatInv, ProcInv, StackInv, TopOK, Executing, GoodFrame, PLabels
<1> HIDE DEF f, g
<1> QED
  BY <1>1, <1>2, <1>3, <1>4, CodeFlat

\* The thread returns to call_process().
LEMMA ReturnFlat ==
  ASSUME Supported, FlatInv, NEW ended \in BOOLEAN, ThreadReturn(ended)
  PROVE  FlatKept
<1> DEFINE r == Popped
           n == Len(stack) - 1
           caller == r[n]
           f == [caller EXCEPT !.at = "done"]
<1>1. /\ Top.at = "thread" /\ UNCHANGED procVars /\ ~ended /\ Top.ev # "EXIT"
  BY TopMoves DEF ThreadReturn, At, Supported, Steady, Lasting
<1>2. /\ state' = state /\ UNCHANGED << process_list, next >> /\ Listed' = Listed
      /\ Alive(state, Listed)
  BY <1>1, SameList DEF procVars, FlatInv, Flat
<1>3. /\ r \in Seq(GoodFrame) /\ Len(r) = n /\ n \in Nat \ {0} /\ caller = stack[n]
      /\ n \in 1 .. n
  <2>1. Len(stack) # 1
    BY <1>1, TopOf DEF FlatInv, ProcInv, StackInv, Top, MainLabels
  <2> QED
    BY <2>1, StackIs DEF FlatInv, ProcInv, StackInv
<1>4. stack' = IF caller.at = "calling" THEN [r EXCEPT ![n] = f] ELSE r
  <2>1. CASE caller.at = "calling"
    BY <1>1, <1>3, <2>1 DEF ThreadReturn
  <2>2. CASE caller.at # "calling"
    <3>1. stack' = [r EXCEPT ![n] = [caller EXCEPT !.at = caller.at]]
      BY <1>1, <1>3, <2>2 DEF ThreadReturn
    <3>2. caller \in Frame
      <4> HIDE DEF r
      <4>1. r[n] \in GoodFrame
        BY <1>3
      <4> QED
        BY <4>1 DEF GoodFrame
    <3> HIDE DEF r
    <3>3. [caller EXCEPT !.at = caller.at] = caller
      <4> HIDE DEF caller
      <4> QED
        BY <3>2 DEF Frame
    <3>4. [r EXCEPT ![n] = r[n]] = r
      BY <1>3
    <3> QED
      BY <2>2, <3>1, <3>3, <3>4
  <2> QED
    BY <2>1, <2>2
<1>5. CASE caller.at # "calling"
  BY <1>1, <1>2, <1>3, <1>4, <1>5, ReturnedFlat
<1>6. CASE caller.at = "calling"
  <2> DEFINE N == {f}
  <2>1. caller \in Frame /\ caller \in Frames(r) /\ Frames(stack) = Frames(r) \cup {Top}
    <3>1. Frames(stack) = Frames(r) \cup {Top}
      BY FramesAre DEF FlatInv, ProcInv, StackInv
    <3> HIDE DEF r
    <3>2. r[n] \in GoodFrame /\ n \in DOMAIN r
      BY <1>3
    <3> QED
      BY <3>1, <3>2 DEF GoodFrame, Frames
  <2>2. f.at = "done" /\ f.p = caller.p /\ f.ev = caller.ev
    <3> HIDE DEF caller
    <3> QED
      BY <2>1 DEF Frame
  <2>3. Ordered(r)
    BY RestOrdered DEF FlatInv, ProcInv, StackInv, Flat
  <2>4. Steady(caller, Listed) /\ OneActive(Frames(stack))
    BY <2>1 DEF FlatInv, Flat
  <2>15. /\ n = Len(stack) - 1 /\ Len(stack) \in Nat \ {0}
         /\ DOMAIN stack = 1 .. Len(stack)
         /\ \A i \in 1 .. n : r[i] = stack[i]
    BY StackIs DEF FlatInv, ProcInv, StackInv, Well
  <2> HIDE DEF r, n, f
  <2>5. /\ Len(stack') = n /\ DOMAIN stack' = 1 .. n /\ DOMAIN r = 1 .. n
        /\ \A i \in 1 .. n : stack'[i] = IF i = n THEN f ELSE r[i]
    <3>1. r \in Seq(GoodFrame \cup {f}) /\ stack' = [r EXCEPT ![n] = f]
      BY <1>3, <1>4, <1>6
    <3>2. /\ [r EXCEPT ![n] = f] \in Seq(GoodFrame \cup {f})
          /\ Len([r EXCEPT ![n] = f]) = Len(r)
          /\ \A i \in 1 .. Len(r) : [r EXCEPT ![n] = f][i] = IF i = n THEN f ELSE r[i]
      BY <1>3, <3>1, ExceptSeq
    <3> QED
      BY <1>3, <3>1, <3>2
  <2>6. /\ f \in Frames(stack')
        /\ Frames(stack') \subseteq Frames(r) \cup {f}
        /\ Frames(r) \subseteq Frames(stack') \cup {caller}
    <3>1. f \in Frames(stack')
      BY <1>3, <2>5 DEF Frames
    <3>2. ASSUME NEW e \in Frames(stack') PROVE e \in Frames(r) \cup {f}
      BY <2>5 DEF Frames
    <3>3. ASSUME NEW e \in Frames(r) PROVE e \in Frames(stack') \cup {caller}
      BY <2>5 DEF Frames
    <3> QED
      BY <3>1, <3>2, <3>3
  <2>7. Ordered(stack')
    <3> SUFFICES ASSUME NEW i \in 1 .. n, NEW j \in 1 .. n, i < j
                 PROVE  /\ stack'[j].at \notin MainLabels
                        /\ stack'[i].at \in Acting => stack'[j].at \in Code
      BY <2>5 DEF Ordered
    <3>1. r[j].at \notin MainLabels /\ (r[i].at \in Acting => r[j].at \in Code)
      BY <2>3, <2>5 DEF Ordered
    <3>2. i # n /\ stack'[i] = r[i]
      BY <1>3, <2>5
    <3> QED
      BY <1>6, <2>2, <2>5, <3>1, <3>2 DEF MainLabels, Code
  <2> HIDE DEF caller
  <2>8. \A e \in N : Steady(e, Listed')
    BY <1>2, <1>6, <2>2, <2>4 DEF Steady, Lasting, CursorLabels, Activation
  <2>9. OneActive(Frames(stack'))
    BY <1>6, <2>1, <2>2, <2>4, <2>6 DEF OneActive, Activation
  <2>10. Marked(Frames(stack'), state')
    BY <1>1, <1>2, <2>1, <2>2, <2>6 DEF FlatInv, Flat, Marked
  <2>11. /\ Booting => \A e \in N : BootFrame(e)
         /\ Booted => \A e \in N : LoopFrame(e)
    BY <2>1, <2>2 DEF Booting, Booted, BootFrame, LoopFrame, BootLabels
  <2>12. /\ Frames(stack') \subseteq Frames(stack) \cup N
         /\ Flat(state, process_current)
    BY <2>1, <2>6 DEF FlatInv
  <2> HIDE DEF N
  <2>13. f.p = process_current'
    <3>1. process_current' = process_current /\ process_current = Top.p
      BY <1>1 DEF ThreadReturn, FlatInv, ProcInv, StackInv, TopOK
    <3>2. Top \in Frames(stack) /\ caller \in Frames(stack)
      BY <2>1
    <3>3. caller.p = Top.p
      BY <1>1, <1>6, <2>4, <3>2 DEF OneActive, Activation
    <3> QED
      BY <2>2, <3>1, <3>3
  <2>14. Settled(stack', process_current')
    <3> SUFFICES ASSUME NEW i \in 1 .. n
                 PROVE  /\ stack'[i].at = "calling" =>
                             i # n /\ stack'[i + 1].at = "thread"
                        /\ stack'[i].at = "done" =>
                             i = n /\ stack'[i].p = process_current'
      BY <2>5 DEF Settled
    <3>1. CASE i = n
      BY <2>2, <2>5, <2>13, <3>1
    <3>2. CASE i # n
      <4>1. /\ i \in 1 .. Len(stack) - 1 /\ stack'[i] = stack[i] /\ i \in DOMAIN stack
            /\ i # Len(stack) /\ i + 1 \in 1 .. n
        BY <1>3, <2>5, <2>15, <3>2
      <4>2. stack[i].at # "done"
        BY <4>1 DEF FlatInv, Flat, Settled
      <4>3. ASSUME stack[i].at = "calling"
            PROVE  stack'[i + 1].at = "thread"
        <5>1. stack[i + 1].at = "thread"
          BY <4>1, <4>3 DEF FlatInv, Flat, Settled
        <5>2. i + 1 # n
          BY <1>3, <1>6, <5>1
        <5>3. stack'[i + 1] = stack[i + 1]
          BY <2>5, <2>15, <4>1, <5>2
        <5> QED
          BY <5>1, <5>3
      <4> QED
        BY <3>2, <4>1, <4>2, <4>3
    <3> QED
      BY <3>1, <3>2
  <2> QED
    BY <1>2, <2>7, <2>8, <2>9, <2>10, <2>11, <2>12, <2>14, FlatStep
<1> QED
  BY <1>5, <1>6

\* In every program that does not nest activations, at most one process is
\* active, and no other is marked as called.
LEMMA FlatInit == Init => FlatInv
<1> SUFFICES ASSUME Init PROVE FlatInv
  OBVIOUS
<1>1. stack = << Blank >> /\ \A p \in Proc : state[p] = "NONE"
  BY DEF Init
<1>2. Frames(stack) = {Blank} /\ Len(stack) = 1 /\ DOMAIN stack = 1 .. 1
  BY <1>1 DEF Frames
<1>3. ProcInv /\ ListInv /\ Listed = {}
  BY ProcessInitInv, ListInitInv
<1>4. Blank.at = "boot" /\ Blank.ev = "none" /\ Blank.left = 0
  BY DEF Blank
<1>5. Booting
  BY <1>2, <1>4 DEF Booting, BootFrame, BootLabels
<1>6. Ordered(stack) /\ Settled(stack, process_current)
  BY <1>1, <1>2, <1>4 DEF Ordered, Settled
<1>7. Steady(Blank, Listed)
  BY <1>4 DEF Steady, Lasting, CursorLabels, Activation
<1>8. /\ OneActive(Frames(stack)) /\ Marked(Frames(stack), state)
      /\ Alive(state, Listed)
  BY <1>1, <1>2, <1>3, <1>4 DEF OneActive, Marked, Alive, Activation
<1> QED
  BY <1>2, <1>3, <1>5, <1>6, <1>7, <1>8 DEF FlatInv, Flat

LEMMA FlatNext ==
  ASSUME Supported, FlatInv, [Next]_vars
  PROVE  FlatInv' /\ FlatKept
<1>1. ASSUME UNCHANGED << procVars, process_current, stack >> PROVE FlatKept
  <2>1. /\ Listed' = Listed /\ state' = state /\ stack' = stack
        /\ process_current' = process_current
    BY <1>1, SameList DEF procVars
  <2>2. (Booting' <=> Booting) /\ (Booted' <=> Booted)
    BY <2>1 DEF Booting, Booted
  <2>3. Flat(state, process_current)'
    BY <2>1, <2>2 DEF FlatInv, Flat
  <2> QED
    BY <2>2, <2>3 DEF FlatKept
<1>2. ASSUME MainStep \/ EventStep \/ PollStep \/ CallStep PROVE FlatKept
  BY <1>2, MainFlat, EventFlat, PollFlat, CallFlatStep
<1>3. ASSUME ExitStep PROVE FlatKept
  BY <1>3, TopMoves
  DEF ExitStep, ExitBegin, ExitTell, ExitTellNext, ExitThread, ExitUnlink, At,
      Steady, Lasting
<1>4. ASSUME ThreadStep PROVE FlatKept
  <2>1. ASSUME NEW m \in Message, ThreadPost(m) PROVE FlatKept
    BY <2>1, SpentStep DEF ThreadPost, MayCall
  <2>2. ASSUME NEW p \in Proc, ThreadPoll(p) PROVE FlatKept
    BY <2>2, SpentStep DEF ThreadPoll, MayCall
  <2>3. ASSUME NEW ended \in BOOLEAN, ThreadReturn(ended) PROVE FlatKept
    BY <2>3, ReturnFlat
  <2>4. ASSUME NEW p \in Proc, ContextBegin(p) PROVE FlatKept
    BY <2>4, ContextFlat
  <2>5. ASSUME ContextEnd PROVE FlatKept
    <3>1. /\ Top.at = "context" /\ stack' = Popped /\ state' = state
          /\ UNCHANGED << process_list, next >> /\ Alive(state, Listed)
      BY <2>5 DEF ContextEnd, At, procVars, FlatInv, Flat
    <3> QED
      BY <3>1, ReturnedFlat
  <2> QED
    BY <1>4, <2>1, <2>2, <2>3, <2>4, <2>5
    DEF ThreadStep, ThreadSynch, ThreadStart, ThreadExit, MayNest, MayCall, Supported
<1>5. FlatKept
  BY <1>1, <1>2, <1>3, <1>4 DEF Next, KernelStep, InterruptPoll, procVars, vars
<1>6. ProcInv' /\ ListInv'
  BY ProcessNextInv, ListNextInv DEF FlatInv
<1> QED
  BY <1>5, <1>6 DEF FlatInv, FlatKept

\* The list only grows.
LEMMA ListGrows ==
  ASSUME FlatInv, [Next]_vars
  PROVE  \/ UNCHANGED << process_list, next >> /\ Listed' = Listed
         \/ \E p \in Proc : p \notin Listed /\ Listed' = Listed \cup {p}
<1>1. CASE UNCHANGED << process_list, next >>
  BY <1>1, SameList
<1>2. CASE \E p \in Proc : HeadAdded(p)
  BY <1>2, StartedList DEF FlatInv, HeadAdded
<1>3. ASSUME ~ExitUnlink
      PROVE  UNCHANGED << process_list, next >> \/ \E p \in Proc : HeadAdded(p)
  <2>1. CASE BootStart
    <3>1. Top.left + 1 \in 1 .. Len(Autostart)
      BY <2>1, TopMoves, ProcessAssumption DEF BootStart, Frame
    <3>2. Autostart[Top.left + 1] \in Proc
      BY <3>1, ProcessAssumption
    <3> QED
      BY <2>1, <3>2 DEF BootStart, process_start, procVars, HeadAdded
  <2>2. ASSUME NEW p \in Proc, ThreadStart(p)
        PROVE  UNCHANGED << process_list, next >> \/ HeadAdded(p)
    BY <2>2 DEF ThreadStart, process_start, procVars, HeadAdded
  <2>3. CASE MainStep
    BY <2>1, <2>3
    DEF MainStep, BootDone, RunPoll, RunIdle, RunUnicast, RunBroadcast, procVars
  <2>4. CASE EventStep \/ PollStep \/ CallStep
    BY <2>4
    DEF EventStep, PollStep, CallStep, BroadcastPoll, BroadcastCall, BroadcastNext,
        PollBegin, PollScan, PollReady, PollClaim, PollNext, CallEnter, CallThread,
        CallDone, CallExit, SynchReturn, procVars
  <2>5. CASE ExitStep
    BY <1>3, <2>5 DEF ExitStep, ExitBegin, ExitTell, ExitTellNext, ExitThread, procVars
  <2>6. CASE ThreadStep
    BY <2>2, <2>6
    DEF ThreadStep, ThreadPost, ThreadPoll, ThreadSynch, ThreadExit, ContextBegin,
        ContextEnd, ThreadReturn, procVars
  <2> QED
    BY <2>3, <2>4, <2>5, <2>6 DEF Next, KernelStep, InterruptPoll, procVars, vars
<1>4. ~ExitUnlink
  BY TopMoves DEF ExitUnlink, At, Steady, Lasting
<1> QED
  BY <1>1, <1>2, <1>3, <1>4

\* The rtimer may be set: main() has started the processes, and the current
\* process is one of them.
Schedulable(current) == Booted /\ current \in Listed

\* PROCESS_CONTEXT blocks are only of listed processes, once main() has started
\* them.
LEMMA AllListed ==
  ASSUME FlatInv, Booted, "context" \in Ops
  PROVE  Proc \subseteq Listed
<1>1. stack[1].at \in MainLabels /\ stack[1] \in Frames(stack)
  BY DEF FlatInv, ProcInv, StackInv, Well, Frames
<1>2. stack[1].at # "boot"
  BY <1>1 DEF Booted, LoopFrame
<1>3. ~Booting
  BY <1>1, <1>2 DEF Booting, BootFrame, BootLabels, MainLabels
<1> QED
  BY <1>3 DEF FlatInv, Flat

LEMMA SchedulableNext ==
  ASSUME Supported, FlatInv, [Next]_vars, Schedulable(process_current)
  PROVE  Schedulable(process_current)'
<1>1. Booted' /\ FlatInv'
  BY FlatNext DEF FlatKept, Schedulable
<1>2. Listed \subseteq Listed' /\ process_current \in Listed'
  BY ListGrows DEF Schedulable
<1>3. CASE process_current' = process_current
  BY <1>1, <1>2, <1>3 DEF Schedulable
<1>4. CASE CallEnter
  <2>1. \/ process_current' = process_current
        \/ Top.p \in Proc /\ state[Top.p] \in Callable /\ process_current' = Top.p
    BY <1>4, TopMoves DEF CallEnter, At, PLabels, GoodFrame
  <2>2. ASSUME Top.p \in Proc, state[Top.p] \in Callable PROVE Top.p \in Listed
    BY <2>2 DEF FlatInv, Flat, Alive, Callable
  <2> QED
    BY <1>1, <1>2, <1>3, <2>1, <2>2 DEF Schedulable
<1>5. ASSUME SynchReturn PROVE FALSE
  <2>1. Top.at = "synch" /\ Top \in Frames(stack)
    BY <1>5, FramesAre DEF FlatInv, ProcInv, StackInv, SynchReturn, At
  <2> QED
    BY <2>1 DEF Schedulable, Booted, LoopFrame
<1>6. ASSUME ExitStep PROVE FALSE
  BY <1>6, TopMoves
  DEF ExitStep, ExitBegin, ExitTell, ExitTellNext, ExitThread, ExitUnlink, At,
      Steady, Lasting
<1>7. ASSUME \/ ContextEnd
             \/ \E p \in Proc : ContextBegin(p)
      PROVE  process_current' \in Proc /\ "context" \in Ops
  BY <1>7, TopMoves DEF ContextBegin, ContextEnd, MayNest, MayCall, At, Steady
<1>8. ASSUME \/ ContextEnd
             \/ \E p \in Proc : ContextBegin(p)
      PROVE  Schedulable(process_current)'
  BY <1>1, <1>2, <1>7, <1>8, AllListed DEF Schedulable
<1>9. ASSUME \/ MainStep \/ EventStep \/ PollStep
             \/ CallThread \/ CallDone \/ CallExit
             \/ \E m \in Message : ThreadPost(m)
             \/ \E p \in Proc : ThreadPoll(p)
             \/ \E p \in Proc : ThreadSynch(p)
             \/ \E p \in Proc : ThreadStart(p)
             \/ \E p \in Proc : ThreadExit(p)
             \/ \E ended \in BOOLEAN : ThreadReturn(ended)
      PROVE  process_current' = process_current
  BY <1>9
  DEF MainStep, BootStart, BootDone, RunPoll, RunIdle, RunUnicast, RunBroadcast,
      EventStep, BroadcastPoll, BroadcastCall, BroadcastNext, PollStep, PollBegin,
      PollScan, PollReady, PollClaim, PollNext, CallThread, CallDone, CallExit,
      ThreadPost, ThreadPoll, ThreadSynch, ThreadStart, ThreadExit, ThreadReturn
<1> QED
  BY <1>3, <1>4, <1>5, <1>6, <1>8, <1>9
  DEF Next, KernelStep, CallStep, ThreadStep, InterruptPoll, vars

-----------------------------------------------------------------------------
(***************************************************************************)
(* The handler's loops over the list.                                      *)
(***************************************************************************)
LEMMA ChainIs ==
  ASSUME ListInv
  PROVE  /\ Len(Chain) \in Nat
         /\ \A i, j \in 1 .. Len(Chain) : Chain[i] = Chain[j] => i = j
         /\ Listed = {Chain[i] : i \in 1 .. Len(Chain)}
<1> DEFINE N == Cardinality(Proc)
           Ends(k) == /\ Walk[k] = NULL
                      /\ \A j \in 0 .. k - 1 : Walk[j] # NULL
           n == CHOOSE k \in 0 .. N : Ends(k)
<1>1. PICK w : IsChain(process_list, next, w)
  BY DEF ListInv, Linear
<1>2. /\ N \in Nat /\ Len(w) \in 0 .. N /\ w \in Seq(Proc)
      /\ \A k \in 0 .. N : Walk[k] = IF k < Len(w) THEN w[k + 1] ELSE NULL
      /\ \A i \in 1 .. Len(w) : w[i] # NULL
      /\ \A i, j \in 1 .. Len(w) : w[i] = w[j] => i = j
  <2>1. /\ w \in Seq(Proc)
        /\ \A i, j \in 1 .. Len(w) : w[i] = w[j] => i = j
    BY <1>1 DEF IsChain
  <2>2. \A i \in 1 .. Len(w) : w[i] # NULL
    BY <2>1, ProcessAssumption
  <2>3. /\ Len(w) \in 0 .. N
        /\ \A k \in 0 .. N :
             Links(process_list, next)[k] = IF k < Len(w) THEN w[k + 1] ELSE NULL
    BY <1>1, WalkIsChain
  <2> QED
    BY <2>1, <2>2, <2>3, Size, ListDefs
<1>3. Ends(Len(w))
  <2>1. \A j \in 0 .. Len(w) - 1 : j \in 0 .. N /\ j < Len(w) /\ j + 1 \in 1 .. Len(w)
    BY <1>2
  <2>2. \A j \in 0 .. Len(w) - 1 : Walk[j] # NULL
    BY <1>2, <2>1
  <2>3. Walk[Len(w)] = NULL
    BY <1>2
  <2> QED
    BY <2>2, <2>3
<1>4. \A k \in 0 .. N : Ends(k) => k = Len(w)
  <2>1. ASSUME NEW k \in 0 .. N, Ends(k) PROVE k = Len(w)
    <3>1. CASE k < Len(w)
      <4>1. k + 1 \in 1 .. Len(w)
        BY <1>2, <3>1
      <4> QED
        BY <1>2, <2>1, <3>1, <4>1
    <3>2. CASE Len(w) < k
      <4>1. Len(w) \in 0 .. k - 1
        BY <1>2, <3>2
      <4> QED
        BY <1>2, <2>1, <4>1
    <3> QED
      BY <1>2, <3>1, <3>2
  <2> QED
    BY <2>1
<1>5. n = Len(w)
  <2> HIDE DEF Ends
  <2> QED
    BY <1>2, <1>3, <1>4
<1>6. Chain = [k \in 1 .. n |-> Walk[k - 1]]
  BY DEF Chain
<1> HIDE DEF n, Ends
<1>7. Chain = w
  <2>1. \A k \in 1 .. Len(w) : k - 1 \in 0 .. N /\ k - 1 < Len(w) /\ k - 1 + 1 = k
    BY <1>2
  <2>2. \A k \in 1 .. Len(w) : Walk[k - 1] = w[k]
    BY <1>2, <2>1
  <2>3. Chain = [k \in 1 .. Len(w) |-> w[k]]
    BY <1>5, <1>6, <2>2
  <2>4. w \in [1 .. Len(w) -> Proc]
    BY <1>2, LenProperties
  <2>5. w = [k \in 1 .. Len(w) |-> w[k]]
    BY <2>4
  <2> QED
    BY <2>3, <2>5
<1>8. Listed = {w[i] : i \in 1 .. Len(w)}
  BY <1>1, ReachedIsChain, ListDefs
<1> QED
  BY <1>2, <1>7, <1>8

\* Two sequences of values that start alike and go on alike are alike.
LEMMA SameSteps ==
  ASSUME NEW n \in Nat, NEW v, NEW a, v[0] = a[0],
         \A k \in 1 .. n : v[k - 1] = a[k - 1] => v[k] = a[k]
  PROVE  v[n] = a[n]
<1> DEFINE T == {k \in 0 .. n : v[k] # a[k]}
<1>1. SUFFICES ASSUME n \in T PROVE FALSE
  OBVIOUS
<1>2. PICK i \in T : \A j \in T : i <= j
  <2>1. T \in SUBSET Nat /\ T # {}
    BY <1>1
  <2> HIDE DEF T
  <2> QED
    BY <2>1, Least
<1>3. i \in 1 .. n /\ i - 1 \in 0 .. n /\ i - 1 \notin T
  <2>1. i \in 0 .. n /\ i # 0
    OBVIOUS
  <2> HIDE DEF T
  <2>2. i - 1 \in Nat /\ ~ (i <= i - 1) /\ i \in 1 .. n /\ i - 1 \in 0 .. n
    BY <2>1
  <2> QED
    BY <1>2, <2>2
<1> QED
  BY <1>3

\* A loop with this body only does something for r: it goes from m to m1.
Meets(Body(_, _), m, m1, r) ==
  /\ r \in Listed => Body(m, r) = m1
  /\ \A p \in Listed \ {r} : Body(m, p) = m /\ Body(m1, p) = m1

\* What such a loop computes, round after round.
IsTrace(a, m, m1, r) ==
  /\ a = [k \in 0 .. Len(Chain) |-> a[k]]
  /\ a[0] = m
  /\ a[Len(Chain)] = IF r \in Listed THEN m1 ELSE m
  /\ \A k \in 1 .. Len(Chain) :
       /\ Chain[k] \in Listed
       /\ \/ Chain[k] = r /\ a[k - 1] = m /\ a[k] = m1
          \/ Chain[k] # r /\ a[k] = a[k - 1] /\ a[k] \in {m, m1}

LEMMA Trace ==
  ASSUME ListInv, NEW m, NEW m1, NEW r
  PROVE  \E a : IsTrace(a, m, m1, r)
<1> DEFINE n == Len(Chain)
<1>1. /\ n \in Nat /\ \A i, j \in 1 .. n : Chain[i] = Chain[j] => i = j
      /\ Listed = {Chain[i] : i \in 1 .. n}
  BY ChainIs
<1>2. ASSUME NEW i \in 1 .. n + 1, i \in 1 .. n => Chain[i] = r,
             i = n + 1 => r \notin Listed
      PROVE  \E a : IsTrace(a, m, m1, r)
  <2> DEFINE b == [k \in 0 .. n |-> IF k < i THEN m ELSE m1]
  <2>1. b[0] = m /\ b = [k \in 0 .. n |-> b[k]]
    BY <1>1
  <2>2. b[n] = IF r \in Listed THEN m1 ELSE m
    <3>1. CASE i = n + 1
      BY <1>1, <1>2, <3>1
    <3>2. CASE i \in 1 .. n
      <4>1. r \in Listed
        BY <1>1, <1>2, <3>2
      <4> QED
        BY <1>1, <3>2, <4>1
    <3> QED
      BY <1>1, <3>1, <3>2
  <2>3. ASSUME NEW k \in 1 .. n
        PROVE  /\ Chain[k] \in Listed
               /\ \/ Chain[k] = r /\ b[k - 1] = m /\ b[k] = m1
                  \/ Chain[k] # r /\ b[k] = b[k - 1] /\ b[k] \in {m, m1}
    <3>1. Chain[k] \in Listed
      BY <1>1
    <3>2. Chain[k] = r <=> k = i
      <4>1. CASE i = n + 1
        BY <1>1, <1>2, <3>1, <4>1
      <4>2. CASE i \in 1 .. n
        BY <1>1, <1>2, <4>2
      <4> QED
        BY <1>1, <4>1, <4>2
    <3>3. CASE k = i
      BY <1>1, <3>1, <3>2, <3>3
    <3>4. CASE k # i
      <4>1. k < i <=> k - 1 < i
        BY <1>1, <3>4
      <4> QED
        BY <1>1, <3>1, <3>2, <3>4, <4>1
    <3> QED
      BY <3>3, <3>4
  <2> HIDE DEF b
  <2>4. IsTrace(b, m, m1, r)
    BY <2>1, <2>2, <2>3 DEF IsTrace
  <2> QED
    BY <2>4
<1>3. \E a : IsTrace(a, m, m1, r)
  <2>1. CASE r \in Listed
    <3>1. PICK i \in 1 .. n : Chain[i] = r
      BY <1>1, <2>1
    <3>2. i \in 1 .. n + 1 /\ i # n + 1
      BY <1>1
    <3> QED
      BY <1>2, <3>1, <3>2
  <2>2. CASE r \notin Listed
    <3>1. n + 1 \in 1 .. n + 1 /\ n + 1 \notin 1 .. n
      BY <1>1
    <3> QED
      BY <1>2, <2>2, <3>1
  <2> QED
    BY <2>1, <2>2
<1> QED
  BY <1>3

LEMMA SuspendLoop ==
  ASSUME ListInv, NEW m, NEW m1, NEW r, Meets(SuspendTask, m, m1, r)
  PROVE  ForEach(m, SuspendTask) = IF r \in Listed THEN m1 ELSE m
<1> DEFINE n == Len(Chain)
           G(g) == [k \in 0 .. n |-> IF k = 0 THEN m ELSE SuspendTask(g[k - 1], Chain[k])]
           v == CHOOSE g : g = G(g)
<1>1. n \in Nat /\ 0 \in 0 .. n
  BY ChainIs
<1>2. PICK a : IsTrace(a, m, m1, r)
  BY Trace
<1>3. ASSUME NEW k \in 1 .. n PROVE a[k] = SuspendTask(a[k - 1], Chain[k])
  <2>1. CASE Chain[k] = r
    BY <1>2, <2>1 DEF IsTrace, Meets
  <2>2. CASE Chain[k] # r
    BY <1>2, <2>2 DEF IsTrace, Meets
  <2> QED
    BY <2>1, <2>2
<1>4. a = G(a)
  <2>1. \A k \in 0 .. n : a[k] = IF k = 0 THEN m ELSE SuspendTask(a[k - 1], Chain[k])
    BY <1>1, <1>2, <1>3 DEF IsTrace
  <2> QED
    BY <1>2, <2>1 DEF IsTrace
<1>5. v = G(v)
  <2> HIDE DEF G
  <2> QED
    BY <1>4
<1>6. v[n] = a[n]
  <2> HIDE DEF v
  <2>1. v[0] = a[0]
    BY <1>1, <1>2, <1>5 DEF IsTrace
  <2>2. \A k \in 1 .. n : v[k] = SuspendTask(v[k - 1], Chain[k])
    BY <1>1, <1>5
  <2>3. \A k \in 1 .. n : v[k - 1] = a[k - 1] => v[k] = a[k]
    BY <1>3, <2>2
  <2> QED
    BY <1>1, <2>1, <2>3, SameSteps
<1>7. ForEach(m, SuspendTask) = v[n]
  BY DEF ForEach
<1> QED
  BY <1>2, <1>6, <1>7 DEF IsTrace

LEMMA PreemptLoop ==
  ASSUME ListInv, NEW m, NEW m1, NEW r, Meets(PreemptTask, m, m1, r)
  PROVE  ForEach(m, PreemptTask) = IF r \in Listed THEN m1 ELSE m
<1> DEFINE n == Len(Chain)
           G(g) == [k \in 0 .. n |-> IF k = 0 THEN m ELSE PreemptTask(g[k - 1], Chain[k])]
           v == CHOOSE g : g = G(g)
<1>1. n \in Nat /\ 0 \in 0 .. n
  BY ChainIs
<1>2. PICK a : IsTrace(a, m, m1, r)
  BY Trace
<1>3. ASSUME NEW k \in 1 .. n PROVE a[k] = PreemptTask(a[k - 1], Chain[k])
  <2>1. CASE Chain[k] = r
    BY <1>2, <2>1 DEF IsTrace, Meets
  <2>2. CASE Chain[k] # r
    BY <1>2, <2>2 DEF IsTrace, Meets
  <2> QED
    BY <2>1, <2>2
<1>4. a = G(a)
  <2>1. \A k \in 0 .. n : a[k] = IF k = 0 THEN m ELSE PreemptTask(a[k - 1], Chain[k])
    BY <1>1, <1>2, <1>3 DEF IsTrace
  <2> QED
    BY <1>2, <2>1 DEF IsTrace
<1>5. v = G(v)
  <2> HIDE DEF G
  <2> QED
    BY <1>4
<1>6. v[n] = a[n]
  <2> HIDE DEF v
  <2>1. v[0] = a[0]
    BY <1>1, <1>2, <1>5 DEF IsTrace
  <2>2. \A k \in 1 .. n : v[k] = PreemptTask(v[k - 1], Chain[k])
    BY <1>1, <1>5
  <2>3. \A k \in 1 .. n : v[k - 1] = a[k - 1] => v[k] = a[k]
    BY <1>3, <2>2
  <2> QED
    BY <1>1, <2>1, <2>3, SameSteps
<1>7. ForEach(m, PreemptTask) = v[n]
  BY DEF ForEach
<1> QED
  BY <1>2, <1>6, <1>7 DEF IsTrace

LEMMA SwitchLoop ==
  ASSUME ListInv, NEW m, NEW m1, NEW r, Meets(SwitchTask, m, m1, r)
  PROVE  ForEach(m, SwitchTask) = IF r \in Listed THEN m1 ELSE m
<1> DEFINE n == Len(Chain)
           G(g) == [k \in 0 .. n |-> IF k = 0 THEN m ELSE SwitchTask(g[k - 1], Chain[k])]
           v == CHOOSE g : g = G(g)
<1>1. n \in Nat /\ 0 \in 0 .. n
  BY ChainIs
<1>2. PICK a : IsTrace(a, m, m1, r)
  BY Trace
<1>3. ASSUME NEW k \in 1 .. n PROVE a[k] = SwitchTask(a[k - 1], Chain[k])
  <2>1. CASE Chain[k] = r
    BY <1>2, <2>1 DEF IsTrace, Meets
  <2>2. CASE Chain[k] # r
    BY <1>2, <2>2 DEF IsTrace, Meets
  <2> QED
    BY <2>1, <2>2
<1>4. a = G(a)
  <2>1. \A k \in 0 .. n : a[k] = IF k = 0 THEN m ELSE SwitchTask(a[k - 1], Chain[k])
    BY <1>1, <1>2, <1>3 DEF IsTrace
  <2> QED
    BY <1>2, <2>1 DEF IsTrace
<1>5. v = G(v)
  <2> HIDE DEF G
  <2> QED
    BY <1>4
<1>6. v[n] = a[n]
  <2> HIDE DEF v
  <2>1. v[0] = a[0]
    BY <1>1, <1>2, <1>5 DEF IsTrace
  <2>2. \A k \in 1 .. n : v[k] = SwitchTask(v[k - 1], Chain[k])
    BY <1>1, <1>5
  <2>3. \A k \in 1 .. n : v[k - 1] = a[k - 1] => v[k] = a[k]
    BY <1>3, <2>2
  <2> QED
    BY <1>1, <2>1, <2>3, SameSteps
<1>7. ForEach(m, SwitchTask) = v[n]
  BY DEF ForEach
<1> QED
  BY <1>2, <1>6, <1>7 DEF IsTrace

LEMMA ResumeLoop ==
  ASSUME ListInv, NEW m, NEW m1, NEW r, Meets(ResumeTask, m, m1, r)
  PROVE  ForEach(m, ResumeTask) = IF r \in Listed THEN m1 ELSE m
<1> DEFINE n == Len(Chain)
           G(g) == [k \in 0 .. n |-> IF k = 0 THEN m ELSE ResumeTask(g[k - 1], Chain[k])]
           v == CHOOSE g : g = G(g)
<1>1. n \in Nat /\ 0 \in 0 .. n
  BY ChainIs
<1>2. PICK a : IsTrace(a, m, m1, r)
  BY Trace
<1>3. ASSUME NEW k \in 1 .. n PROVE a[k] = ResumeTask(a[k - 1], Chain[k])
  <2>1. CASE Chain[k] = r
    BY <1>2, <2>1 DEF IsTrace, Meets
  <2>2. CASE Chain[k] # r
    BY <1>2, <2>2 DEF IsTrace, Meets
  <2> QED
    BY <2>1, <2>2
<1>4. a = G(a)
  <2>1. \A k \in 0 .. n : a[k] = IF k = 0 THEN m ELSE ResumeTask(a[k - 1], Chain[k])
    BY <1>1, <1>2, <1>3 DEF IsTrace
  <2> QED
    BY <1>2, <2>1 DEF IsTrace
<1>5. v = G(v)
  <2> HIDE DEF G
  <2> QED
    BY <1>4
<1>6. v[n] = a[n]
  <2> HIDE DEF v
  <2>1. v[0] = a[0]
    BY <1>1, <1>2, <1>5 DEF IsTrace
  <2>2. \A k \in 1 .. n : v[k] = ResumeTask(v[k - 1], Chain[k])
    BY <1>1, <1>5
  <2>3. \A k \in 1 .. n : v[k - 1] = a[k - 1] => v[k] = a[k]
    BY <1>3, <2>2
  <2> QED
    BY <1>1, <2>1, <2>3, SameSteps
<1>7. ForEach(m, ResumeTask) = v[n]
  BY DEF ForEach
<1> QED
  BY <1>2, <1>6, <1>7 DEF IsTrace

LEMMA ReturnLoop ==
  ASSUME ListInv, NEW m, NEW m1, NEW r, Meets(ReturnTask, m, m1, r)
  PROVE  ForEach(m, ReturnTask) = IF r \in Listed THEN m1 ELSE m
<1> DEFINE n == Len(Chain)
           G(g) == [k \in 0 .. n |-> IF k = 0 THEN m ELSE ReturnTask(g[k - 1], Chain[k])]
           v == CHOOSE g : g = G(g)
<1>1. n \in Nat /\ 0 \in 0 .. n
  BY ChainIs
<1>2. PICK a : IsTrace(a, m, m1, r)
  BY Trace
<1>3. ASSUME NEW k \in 1 .. n PROVE a[k] = ReturnTask(a[k - 1], Chain[k])
  <2>1. CASE Chain[k] = r
    BY <1>2, <2>1 DEF IsTrace, Meets
  <2>2. CASE Chain[k] # r
    BY <1>2, <2>2 DEF IsTrace, Meets
  <2> QED
    BY <2>1, <2>2
<1>4. a = G(a)
  <2>1. \A k \in 0 .. n : a[k] = IF k = 0 THEN m ELSE ReturnTask(a[k - 1], Chain[k])
    BY <1>1, <1>2, <1>3 DEF IsTrace
  <2> QED
    BY <1>2, <2>1 DEF IsTrace
<1>5. v = G(v)
  <2> HIDE DEF G
  <2> QED
    BY <1>4
<1>6. v[n] = a[n]
  <2> HIDE DEF v
  <2>1. v[0] = a[0]
    BY <1>1, <1>2, <1>5 DEF IsTrace
  <2>2. \A k \in 1 .. n : v[k] = ReturnTask(v[k - 1], Chain[k])
    BY <1>1, <1>5
  <2>3. \A k \in 1 .. n : v[k - 1] = a[k - 1] => v[k] = a[k]
    BY <1>3, <2>2
  <2> QED
    BY <1>1, <2>1, <2>3, SameSteps
<1>7. ForEach(m, ReturnTask) = v[n]
  BY DEF ForEach
<1> QED
  BY <1>2, <1>6, <1>7 DEF IsTrace

LEMMA SelectLoop ==
  ASSUME ListInv, NEW m, NEW m1, NEW r, Meets(SelectStack, m, m1, r)
  PROVE  ForEach(m, SelectStack) = IF r \in Listed THEN m1 ELSE m
<1> DEFINE n == Len(Chain)
           G(g) == [k \in 0 .. n |-> IF k = 0 THEN m ELSE SelectStack(g[k - 1], Chain[k])]
           v == CHOOSE g : g = G(g)
<1>1. n \in Nat /\ 0 \in 0 .. n
  BY ChainIs
<1>2. PICK a : IsTrace(a, m, m1, r)
  BY Trace
<1>3. ASSUME NEW k \in 1 .. n PROVE a[k] = SelectStack(a[k - 1], Chain[k])
  <2>1. CASE Chain[k] = r
    BY <1>2, <2>1 DEF IsTrace, Meets
  <2>2. CASE Chain[k] # r
    BY <1>2, <2>2 DEF IsTrace, Meets
  <2> QED
    BY <2>1, <2>2
<1>4. a = G(a)
  <2>1. \A k \in 0 .. n : a[k] = IF k = 0 THEN m ELSE SelectStack(a[k - 1], Chain[k])
    BY <1>1, <1>2, <1>3 DEF IsTrace
  <2> QED
    BY <1>2, <2>1 DEF IsTrace
<1>5. v = G(v)
  <2> HIDE DEF G
  <2> QED
    BY <1>4
<1>6. v[n] = a[n]
  <2> HIDE DEF v
  <2>1. v[0] = a[0]
    BY <1>1, <1>2, <1>5 DEF IsTrace
  <2>2. \A k \in 1 .. n : v[k] = SelectStack(v[k - 1], Chain[k])
    BY <1>1, <1>5
  <2>3. \A k \in 1 .. n : v[k - 1] = a[k - 1] => v[k] = a[k]
    BY <1>3, <2>2
  <2> QED
    BY <1>1, <2>1, <2>3, SameSteps
<1>7. ForEach(m, SelectStack) = v[n]
  BY DEF ForEach
<1> QED
  BY <1>2, <1>6, <1>7 DEF IsTrace

LEMMA FirstOnly ==
  ASSUME ListInv, NEW m, NEW S, NEW q \in Listed, m.state[q] \in S,
         \A p \in Listed : m.state[p] \in S => p = q
  PROVE  FirstIn(m, S) = q
<1> DEFINE n == Len(Chain)
           found == {k \in 1 .. n : m.state[Chain[k]] \in S}
           first == CHOOSE k \in found : \A j \in found : k <= j
<1>1. n \in Nat /\ Listed = {Chain[i] : i \in 1 .. n}
  BY ChainIs
<1>2. PICK i \in 1 .. n : Chain[i] = q
  BY <1>1
<1>3. i \in found /\ found \subseteq Nat
  BY <1>1, <1>2
<1>4. \A k \in found : Chain[k] = q
  <2>1. ASSUME NEW k \in found PROVE Chain[k] = q
    <3>1. Chain[k] \in Listed /\ m.state[Chain[k]] \in S
      BY <1>1
    <3> QED
      BY <3>1
  <2> QED
    BY <2>1
<1>5. FirstIn(m, S) = IF found = {} THEN NULL ELSE Chain[first]
  BY DEF FirstIn
<1> HIDE DEF found
<1>6. \E k \in found : \A j \in found : k <= j
  BY <1>3, Least
<1>7. first \in found
  BY <1>6
<1> HIDE DEF first
<1> QED
  BY <1>3, <1>4, <1>5, <1>7

LEMMA FirstNone ==
  ASSUME ListInv, NEW m, NEW S, \A p \in Listed : m.state[p] \notin S
  PROVE  FirstIn(m, S) = NULL
<1>1. Listed = {Chain[i] : i \in 1 .. Len(Chain)}
  BY ChainIs
<1>2. \A k \in 1 .. Len(Chain) : Chain[k] \in Listed
  BY <1>1
<1>3. {k \in 1 .. Len(Chain) : m.state[Chain[k]] \in S} = {}
  BY <1>2
<1> QED
  BY <1>3 DEF FirstIn

\* With r the one realtime process of the list, the loops that look for such a
\* process do once what they do for r.
LEMMA RealtimeLoops ==
  ASSUME ListInv, NEW m, NEW r \in Listed,
         type[r] = "REALTIME", \A p \in Listed : type[p] = "REALTIME" => p = r
  PROVE  /\ m.ret # "OK" => ForEach(m, SuspendTask) = process_suspend(m, r)
         /\ m.ret # "OK" => ForEach(m, ResumeTask) = process_resume(m, r)
         /\ ForEach(m, SwitchTask) = [m EXCEPT !.current = r]
         /\ ForEach(m, SelectStack) = [m EXCEPT !.psp = m.stack_ptr[r]]
<1> DEFINE switched == [m EXCEPT !.current = r]
           selected == [m EXCEPT !.psp = m.stack_ptr[r]]
<1>1. ASSUME m.ret # "OK" PROVE ForEach(m, SuspendTask) = process_suspend(m, r)
  <2> DEFINE m1 == process_suspend(m, r)
  <2>1. SuspendTask(m, r) = m1
    BY <1>1 DEF SuspendTask
  <2> HIDE DEF m1
  <2>2. Meets(SuspendTask, m, m1, r)
    BY <2>1 DEF Meets, SuspendTask
  <2> QED
    BY <2>2, SuspendLoop DEF m1
<1>2. ASSUME m.ret # "OK" PROVE ForEach(m, ResumeTask) = process_resume(m, r)
  <2> DEFINE m1 == process_resume(m, r)
  <2>1. ResumeTask(m, r) = m1
    BY <1>2 DEF ResumeTask
  <2> HIDE DEF m1
  <2>2. Meets(ResumeTask, m, m1, r)
    BY <2>1 DEF Meets, ResumeTask
  <2> QED
    BY <2>2, ResumeLoop DEF m1
<1>3. ForEach(m, SwitchTask) = switched
  <2>1. SwitchTask(m, r) = switched
    BY DEF SwitchTask
  <2> HIDE DEF switched
  <2>2. Meets(SwitchTask, m, switched, r)
    BY <2>1 DEF Meets, SwitchTask
  <2> QED
    BY <2>2, SwitchLoop
<1>4. ForEach(m, SelectStack) = selected
  <2>1. SelectStack(m, r) = selected
    BY DEF SelectStack
  <2> HIDE DEF selected
  <2>2. Meets(SelectStack, m, selected, r)
    BY <2>1 DEF Meets, SelectStack
  <2> QED
    BY <2>2, SelectLoop
<1> QED
  BY <1>1, <1>2, <1>3, <1>4

LEMMA NoRealtimeLoops ==
  ASSUME ListInv, NEW m, \A p \in Listed : type[p] # "REALTIME"
  PROVE  /\ ForEach(m, SuspendTask) = m
         /\ ForEach(m, ResumeTask) = m
         /\ ForEach(m, SwitchTask) = m
         /\ ForEach(m, SelectStack) = m
<1>1. NULL \notin Listed
  BY DEF Listed
<1>2. ForEach(m, SuspendTask) = m
  <2>1. Meets(SuspendTask, m, m, NULL)
    BY <1>1 DEF Meets, SuspendTask
  <2> QED
    BY <1>1, <2>1, SuspendLoop
<1>3. ForEach(m, ResumeTask) = m
  <2>1. Meets(ResumeTask, m, m, NULL)
    BY <1>1 DEF Meets, ResumeTask
  <2> QED
    BY <1>1, <2>1, ResumeLoop
<1>4. ForEach(m, SwitchTask) = m
  <2>1. Meets(SwitchTask, m, m, NULL)
    BY <1>1 DEF Meets, SwitchTask
  <2> QED
    BY <1>1, <2>1, SwitchLoop
<1>5. ForEach(m, SelectStack) = m
  <2>1. Meets(SelectStack, m, m, NULL)
    BY <1>1 DEF Meets, SelectStack
  <2> QED
    BY <1>1, <2>1, SelectLoop
<1> QED
  BY <1>2, <1>3, <1>4, <1>5

LEMMA ListedProcs ==
  ASSUME ListInv
  PROVE  Listed \subseteq Proc
<1>1. PICK w : IsChain(process_list, next, w)
  BY DEF ListInv, Linear
<1>2. Listed = {w[i] : i \in 1 .. Len(w)}
  BY <1>1, ReachedIsChain, ListDefs
<1>3. \A i \in 1 .. Len(w) : w[i] \in Proc
  BY <1>1 DEF IsChain
<1> QED
  BY <1>2, <1>3

-----------------------------------------------------------------------------
(***************************************************************************)
(* The handler, from its entry to the callback and from there to its end.  *)
(***************************************************************************)
\* What the handler computes on.
Machines ==
  [state : [Proc -> State], current : Pointer, preempted : Pointer,
   flag : BOOLEAN, psp : Place \cup {NULL}, stack_ptr : [Proc -> Place \cup {NULL}],
   saved : [Place -> Stack], sp : Stack, nullstate : State, nullid : Nat,
   ret : {"SUSPEND", "RUNNING", "OK", "RESUME"}]

\* n differs from m at most in the fields of F.
Fields == {"state", "current", "preempted", "flag", "psp", "stack_ptr", "saved",
           "sp", "nullstate", "nullid", "ret"}
SameBut(n, m, F) == n \in Machines /\ \A x \in Fields \ F : n[x] = m[x]

\* The ids tell the listed processes apart, and none is 0, what the id of the
\* null pointer reads as after process_resume().
IdInv ==
  /\ id \in [Proc -> 0 .. IdSpan - 1]
  /\ id_count = (Cardinality(Listed) + 1) % IdSpan
  /\ \A p \in Listed : id[p] \in 1 .. Cardinality(Listed)
  /\ \A p, q \in Listed : id[p] = id[q] => p = q

TypeInv ==
  /\ type \in [Proc -> {"NORMAL", "REALTIME"}]
  /\ stack_ptr \in [Proc -> Place \cup {NULL}]
  /\ \A p \in Proc : type[p] = "REALTIME" =>
       p \in RtProc /\ p \in Listed /\ stack_ptr[p] \in Place

LEMMA OnMainIs ==
  ASSUME NEW m \in Machines, NEW p \in Proc
  PROVE  /\ SameBut(OnMainStack(m, p), m, {"stack_ptr", "saved", "psp"})
         /\ OnMainStack(m, p).psp = "main"
         /\ OnMainStack(m, p).stack_ptr[p] = "main"
         /\ \A q \in Proc : OnMainStack(m, p).stack_ptr[q] \in {"main", m.stack_ptr[q]}
<1> DEFINE n == OnMainStack(m, p)
<1>1. n = [m EXCEPT !.stack_ptr = [m.stack_ptr EXCEPT ![p] = "main"],
                    !.saved = [m.saved EXCEPT !["main"] = "main"], !.psp = "main"]
  BY DEF OnMainStack
<1>2. /\ [m.stack_ptr EXCEPT ![p] = "main"] \in [Proc -> Place \cup {NULL}]
      /\ [m.saved EXCEPT !["main"] = "main"] \in [Place -> Stack]
  BY DEF Machines, Place, Stack
<1> HIDE DEF n
<1>3. n \in Machines
  BY <1>1, <1>2 DEF Machines, Place
<1>4. \A x \in Fields \ {"stack_ptr", "saved", "psp"} : n[x] = m[x]
  BY <1>1 DEF Machines, Fields
<1>5. n.psp = "main" /\ n.stack_ptr = [m.stack_ptr EXCEPT ![p] = "main"]
  BY <1>1 DEF Machines
<1>6. /\ n.stack_ptr[p] = "main"
      /\ \A q \in Proc : n.stack_ptr[q] \in {"main", m.stack_ptr[q]}
  BY <1>5 DEF Machines
<1> QED
  BY <1>3, <1>4, <1>5, <1>6 DEF n, SameBut

LEMMA PreemptIs ==
  ASSUME ListInv, IdInv, NEW m \in Machines, m.current \in Listed
  PROVE  ForEach(m, PreemptTask) =
           [OnMainStack(m, m.current) EXCEPT !.preempted = m.current]
<1> DEFINE c == m.current
           n == OnMainStack(m, c)
           m1 == [n EXCEPT !.preempted = c]
<1>1. Listed \subseteq Proc /\ NULL \notin Listed
  BY ListedProcs DEF Listed
<1>2. n \in Machines /\ n.current = c
  BY <1>1, OnMainIs DEF SameBut, Fields
<1>3. m1.current = c
  <2> HIDE DEF n, c
  <2> QED
    BY <1>2 DEF Machines
<1>4. \A p \in Listed : p # NULL /\ (id[p] = id[c] <=> p = c)
  BY <1>1 DEF IdInv
<1>5. PreemptTask(m, c) = m1
  BY DEF PreemptTask
<1> HIDE DEF m1
<1>6. \A p \in Listed \ {c} : PreemptTask(m, p) = m /\ PreemptTask(m1, p) = m1
  BY <1>3, <1>4 DEF PreemptTask, IdOf
<1> HIDE DEF c, n
<1>7. Meets(PreemptTask, m, m1, c)
  BY <1>5, <1>6 DEF Meets
<1> QED
  BY <1>7, PreemptLoop DEF c, n, m1

LEMMA ReturnIs ==
  ASSUME ListInv, IdInv, NEW m \in Machines, m.preempted \in Listed
  PROVE  ForEach(m, ReturnTask) =
           [m EXCEPT !.current = m.preempted, !.psp = m.stack_ptr[m.preempted],
                     !.preempted = NULL, !.nullstate = "NONE", !.nullid = 0]
<1> DEFINE c == m.preempted
           m1 == [m EXCEPT !.current = c, !.psp = m.stack_ptr[c],
                           !.preempted = NULL, !.nullstate = "NONE", !.nullid = 0]
<1>1. Listed \subseteq Proc /\ NULL \notin Listed
  BY ListedProcs DEF Listed
<1>2. m1.preempted = NULL /\ m1.nullid = 0
  BY DEF Machines
<1>3. \A p \in Listed : p # NULL /\ id[p] # 0 /\ (id[p] = id[c] <=> p = c)
  <2>1. \A p \in Listed : id[p] # 0
    BY DEF IdInv
  <2> QED
    BY <1>1, <2>1 DEF IdInv
<1>4. ReturnTask(m, c) = m1
  BY <1>3 DEF ReturnTask
<1> HIDE DEF m1
<1>5. \A p \in Listed \ {c} : ReturnTask(m, p) = m /\ ReturnTask(m1, p) = m1
  BY <1>2, <1>3 DEF ReturnTask, IdOf
<1> HIDE DEF c
<1>6. Meets(ReturnTask, m, m1, c)
  BY <1>4, <1>5 DEF Meets
<1> QED
  BY <1>6, ReturnLoop DEF c, m1

LEMMA PreemptFields ==
  ASSUME ListInv, IdInv, NEW m \in Machines, NEW c \in Listed, m.current = c,
         NEW u, u = ForEach(m, PreemptTask)
  PROVE  /\ SameBut(u, m, {"stack_ptr", "saved", "psp", "preempted"})
         /\ u.preempted = c /\ u.psp = "main" /\ u.stack_ptr[c] = "main"
         /\ \A q \in Proc : u.stack_ptr[q] \in {"main", m.stack_ptr[q]}
<1> DEFINE n == OnMainStack(m, c)
<1>1. u = [n EXCEPT !.preempted = c]
  BY PreemptIs
<1>2. c \in Proc
  BY ListedProcs
<1>3. /\ SameBut(n, m, {"stack_ptr", "saved", "psp"})
      /\ n.psp = "main" /\ n.stack_ptr[c] = "main"
      /\ \A q \in Proc : n.stack_ptr[q] \in {"main", m.stack_ptr[q]}
  BY <1>2, OnMainIs
<1> HIDE DEF n
<1>4. n \in Machines
  BY <1>3 DEF SameBut
<1>5. u \in Machines /\ u.preempted = c
  BY <1>1, <1>2, <1>4 DEF Machines, Pointer
<1>6. \A x \in Fields \ {"preempted"} : u[x] = n[x]
  BY <1>1, <1>4 DEF Machines, Fields
<1>7. u.psp = n.psp /\ u.stack_ptr = n.stack_ptr
  BY <1>6 DEF Fields
<1> QED
  BY <1>3, <1>5, <1>6, <1>7 DEF SameBut

\* process_resume() after an interrupt of what it took for an idle kernel: the
\* loop releases every process of the list that is marked as called.
LEMMA ReleaseIs ==
  ASSUME ListInv, NEW m \in Machines, NEW n, n = ForEach(m, ReleaseTask)
  PROVE  /\ SameBut(n, m, {"state", "psp"})
         /\ n.state = [p \in Proc |->
              IF p \in Listed /\ m.state[p] = "CALLED" THEN "RUNNING" ELSE m.state[p]]
<1> DEFINE N == Len(Chain)
           Passed(k) == {i \in 1 .. k : m.state[Chain[i]] = "CALLED"}
           Last(F) == CHOOSE i \in F : \A j \in F : j <= i
           Where(F) == IF F = {} THEN m.psp ELSE m.stack_ptr[Chain[Last(F)]]
           S(k) == [p \in Proc |->
                      IF (\E i \in 1 .. k : Chain[i] = p) /\ m.state[p] = "CALLED"
                      THEN "RUNNING" ELSE m.state[p]]
           P(k) == Where(Passed(k))
           a == [k \in 0 .. N |-> [m EXCEPT !.state = S(k), !.psp = P(k)]]
           G(g) == [k \in 0 .. N |-> IF k = 0 THEN m ELSE ReleaseTask(g[k - 1], Chain[k])]
           v == CHOOSE g : g = G(g)
<1>1. /\ N \in Nat /\ 0 \in 0 .. N /\ N \in 0 .. N
      /\ \A i, j \in 1 .. N : Chain[i] = Chain[j] => i = j
      /\ \A i \in 1 .. N : Chain[i] \in Listed /\ Chain[i] \in Proc
      /\ Listed = {Chain[i] : i \in 1 .. N}
  <2>1. /\ N \in Nat /\ \A i, j \in 1 .. N : Chain[i] = Chain[j] => i = j
        /\ Listed = {Chain[i] : i \in 1 .. N}
    BY ChainIs
  <2>2. Listed \subseteq Proc
    BY ListedProcs
  <2> QED
    BY <2>1, <2>2
<1>2. /\ m.state \in [Proc -> State] /\ m.stack_ptr \in [Proc -> Place \cup {NULL}]
      /\ m.psp \in Place \cup {NULL}
  BY DEF Machines
\* the loop starts with m
<1>3. a[0] = m
  <2>1. Passed(0) = {} /\ S(0) = m.state /\ P(0) = m.psp
    BY <1>2
  <2>2. a[0] = [m EXCEPT !.state = S(0), !.psp = P(0)]
    BY <1>1
  <2> HIDE DEF S, P, Passed, a
  <2>3. [m EXCEPT !.state = m.state, !.psp = m.psp] = m
    BY DEF Machines
  <2> QED
    BY <2>1, <2>2, <2>3
\* and goes on as a does
<1>4. ASSUME NEW k \in 1 .. N PROVE a[k] = ReleaseTask(a[k - 1], Chain[k])
  <2> DEFINE p == Chain[k]
             b == a[k - 1]
  <2>1. /\ p \in Proc /\ k - 1 \in 0 .. N /\ k \in 0 .. N
        /\ \A i \in 1 .. k - 1 : i \in 1 .. k /\ Chain[i] # p
        /\ \A i \in 1 .. k : i = k \/ i \in 1 .. k - 1
        /\ k \in 1 .. k /\ \A j \in 1 .. k : j <= k /\ (k <= j => j = k)
    BY <1>1
  <2>2. /\ a[k] = [m EXCEPT !.state = S(k), !.psp = P(k)]
        /\ b = [m EXCEPT !.state = S(k - 1), !.psp = P(k - 1)]
    BY <2>1
  <2>3. S(k - 1)[p] = m.state[p]
    BY <2>1
  <2>4. b.state = S(k - 1) /\ b.psp = P(k - 1) /\ b.stack_ptr = m.stack_ptr
    <3> HIDE DEF S, P, a
    <3> QED
      BY <2>2 DEF Machines
  <2>5. CASE m.state[p] # "CALLED"
    <3>1. S(k) = S(k - 1)
      BY <2>1, <2>5
    <3>2. Passed(k) = Passed(k - 1)
      BY <2>1, <2>5
    <3>3. P(k) = P(k - 1)
      <4> HIDE DEF Where, Passed
      <4> QED
        BY <3>2
    <3> HIDE DEF S, P, a
    <3>4. ReleaseTask(b, p) = b
      BY <2>3, <2>4, <2>5 DEF ReleaseTask
    <3> QED
      BY <2>2, <3>1, <3>3, <3>4
  <2>6. CASE m.state[p] = "CALLED"
    <3>1. S(k) = [S(k - 1) EXCEPT ![p] = "RUNNING"]
      <4>1. \A q \in Proc : S(k)[q] = [S(k - 1) EXCEPT ![p] = "RUNNING"][q]
        BY <2>1, <2>6
      <4> QED
        BY <4>1
    <3>2. k \in Passed(k) /\ Passed(k) \subseteq 1 .. k
      BY <2>1, <2>6
    <3>3. Last(Passed(k)) = k
      <4> HIDE DEF Passed
      <4> QED
        BY <2>1, <3>2
    <3>4. P(k) = m.stack_ptr[p]
      <4> HIDE DEF Last, Passed
      <4> QED
        BY <3>2, <3>3
    <3> HIDE DEF S, P, a
    <3>5. ReleaseTask(b, p) =
            [b EXCEPT !.state = [b.state EXCEPT ![p] = "RUNNING"],
                      !.psp = b.stack_ptr[p]]
      BY <2>3, <2>4, <2>6 DEF ReleaseTask
    <3> DEFINE s0 == S(k - 1)
               s1 == S(k)
               p0 == P(k - 1)
               p1 == P(k)
    <3>6. /\ a[k] = [m EXCEPT !.state = s1, !.psp = p1]
          /\ b = [m EXCEPT !.state = s0, !.psp = p0]
          /\ ReleaseTask(b, p) = [b EXCEPT !.state = s1, !.psp = p1]
      BY <2>2, <2>4, <3>1, <3>4, <3>5
    <3> HIDE DEF b, s0, s1, p0, p1
    <3>7. [b EXCEPT !.state = s1, !.psp = p1] = [m EXCEPT !.state = s1, !.psp = p1]
      BY <3>6 DEF Machines
    <3> QED
      BY <3>6, <3>7 DEF b
  <2> QED
    BY <2>5, <2>6
<1>5. a = G(a)
  <2>1. \A k \in 0 .. N : a[k] = IF k = 0 THEN m ELSE ReleaseTask(a[k - 1], Chain[k])
    <3> HIDE DEF a
    <3> QED
      BY <1>1, <1>3, <1>4
  <2> DEFINE e(k) == [m EXCEPT !.state = S(k), !.psp = P(k)]
  <2>2. a = [k \in 0 .. N |-> e(k)]
    OBVIOUS
  <2> HIDE DEF a, e
  <2>3. a = [k \in 0 .. N |-> a[k]]
    BY <2>2
  <2> QED
    BY <2>1, <2>3
<1>6. v = G(v)
  <2> HIDE DEF G, a
  <2> QED
    BY <1>5
<1>7. v[N] = a[N]
  <2> HIDE DEF v, a
  <2>1. v[0] = a[0]
    BY <1>1, <1>3, <1>6
  <2>2. \A k \in 1 .. N : v[k] = ReleaseTask(v[k - 1], Chain[k])
    BY <1>1, <1>6
  <2>3. \A k \in 1 .. N : v[k - 1] = a[k - 1] => v[k] = a[k]
    BY <1>4, <2>2
  <2> QED
    BY <1>1, <2>1, <2>3, SameSteps
<1>8. n = v[N]
  BY DEF ForEach
<1>9. n = [m EXCEPT !.state = S(N), !.psp = P(N)]
  <2>1. a[N] = [m EXCEPT !.state = S(N), !.psp = P(N)]
    BY <1>1
  <2> HIDE DEF a, v
  <2> QED
    BY <1>7, <1>8, <2>1
\* what it has come to at the end of the list
<1>10. S(N) = [p \in Proc |->
         IF p \in Listed /\ m.state[p] = "CALLED" THEN "RUNNING" ELSE m.state[p]]
  BY <1>1
<1>11. S(N) \in [Proc -> State]
  BY <1>2 DEF State
<1>12. P(N) \in Place \cup {NULL}
  <2>1. CASE Passed(N) = {}
    BY <1>2, <2>1
  <2>2. CASE Passed(N) # {}
    <3> DEFINE T == {N - i : i \in Passed(N)}
    <3>1. Passed(N) \subseteq 1 .. N /\ T \in SUBSET Nat /\ T # {}
      BY <1>1, <2>2
    <3> HIDE DEF Passed
    <3>2. PICK t \in T : \A u \in T : t <= u
      <4> HIDE DEF T
      <4> QED
        BY <3>1, Least
    <3>3. PICK i \in Passed(N) : t = N - i
      OBVIOUS
    <3>4. \A j \in Passed(N) : N - i <= N - j /\ j \in 1 .. N /\ i \in 1 .. N
      BY <3>1, <3>2, <3>3
    <3>5. \A j \in Passed(N) : j <= i
      BY <1>1, <3>4
    <3>6. Last(Passed(N)) \in Passed(N)
      BY <3>3, <3>5
    <3>7. Chain[Last(Passed(N))] \in Proc
      <4> HIDE DEF Last
      <4> QED
        BY <1>1, <3>1, <3>6
    <3> HIDE DEF Last
    <3> QED
      BY <1>2, <2>2, <3>7
  <2> QED
    BY <2>1, <2>2
<1> HIDE DEF S, P, a, v, G
<1>13. n \in Machines /\ n.state = S(N)
  BY <1>9, <1>11, <1>12 DEF Machines
<1>14. \A x \in Fields \ {"state", "psp"} : n[x] = m[x]
  BY <1>9 DEF Machines, Fields
<1> QED
  BY <1>10, <1>13, <1>14 DEF SameBut

\* How the handler leaves the states while the callback runs: as they were, or
\* with the realtime process called, from a main program that is either between
\* two activations (flag) or in c's.
Interrupted(st, current, flag, c, st0) ==
  \/ /\ \A p \in Listed : type[p] # "REALTIME"
     /\ ~flag /\ current = c /\ st = st0
  \/ \E r \in Listed :
       /\ type[r] = "REALTIME" /\ current = r
       /\ \/ /\ flag /\ st0[c] = "RUNNING"
             /\ st = [st0 EXCEPT ![r] = "CALLED"]
          \/ /\ ~flag /\ st0[c] = "CALLED"
             /\ st = [[st0 EXCEPT ![c] = "SUSPENDED"] EXCEPT ![r] = "CALLED"]

\* The states of a program the handler interrupts.
Sound(st, c) ==
  /\ st[c] \in {"RUNNING", "CALLED"}
  /\ \A p \in Proc : st[p] # "SUSPENDED" /\ (st[p] # "NONE" <=> p \in Listed)
  /\ \A p, q \in Proc : st[p] = "CALLED" /\ st[q] = "CALLED" => p = q

LEMMA OneRealtime ==
  ASSUME Supported, TypeInv, ListInv
  PROVE  \/ \A p \in Listed : type[p] # "REALTIME"
         \/ \E r \in Listed : /\ type[r] = "REALTIME"
                              /\ \A p \in Listed : type[p] = "REALTIME" => p = r
<1>1. Listed \subseteq Proc
  BY ListedProcs
<1> QED
  BY <1>1 DEF Supported, TypeInv

\* What process_switch_preempted() is given, and what it makes of it.
Ready(m, c) ==
  /\ m \in Machines /\ m.current = c /\ m.preempted = NULL /\ m.flag = FALSE
  /\ m.ret = "SUSPEND" /\ Sound(m.state, c)

Switched(s, m, c) ==
  /\ s \in Machines /\ s.sp = m.sp
  /\ s.preempted = c /\ s.psp = "main" /\ s.stack_ptr[c] = "main"
  /\ \A q \in Proc : s.stack_ptr[q] \in {"main", m.stack_ptr[q]}
  /\ Interrupted(s.state, s.current, s.flag, c, m.state)

LEMMA Enters ==
  ASSUME Supported, ListInv, IdInv, TypeInv, NEW m, NEW c \in Listed, Ready(m, c)
  PROVE  Switched(process_switch_preempted(m), m, c)
<1> DEFINE s == process_switch_preempted(m)
<1> SUFFICES ASSUME m \in Machines, m.current = c, m.preempted = NULL, m.flag = FALSE,
                    m.ret = "SUSPEND", Sound(m.state, c)
             PROVE  Switched(s, m, c)
  BY DEF Ready
<1> DEFINE t == ForEach(m, SuspendTask)
           u == ForEach(t, PreemptTask)
           w == ForEach(u, SwitchTask)
<1>1. s = IF t.ret = "OK" THEN t ELSE w
  BY DEF process_switch_preempted
<1> HIDE DEF s
<1>2. c \in Proc /\ c # NULL /\ Listed \subseteq Proc
  BY ListedProcs DEF Listed
<1>3. CASE \A p \in Listed : type[p] # "REALTIME"
  <2>1. t = m
    BY <1>3, NoRealtimeLoops
  <2> HIDE DEF t
  <2>2. /\ SameBut(u, m, {"stack_ptr", "saved", "psp", "preempted"})
        /\ u.preempted = c /\ u.psp = "main" /\ u.stack_ptr[c] = "main"
        /\ \A q \in Proc : u.stack_ptr[q] \in {"main", m.stack_ptr[q]}
    BY <2>1, PreemptFields
  <2> HIDE DEF u
  <2>3. w = u
    BY <1>3, NoRealtimeLoops
  <2>4. s = u
    BY <1>1, <2>1, <2>3
  <2>5. /\ s \in Machines /\ s.sp = m.sp /\ s.state = m.state
        /\ s.current = c /\ s.flag = FALSE
    BY <2>2, <2>4 DEF SameBut, Fields
  <2> QED
    BY <1>3, <2>2, <2>4, <2>5 DEF Interrupted, Switched
<1>4. ASSUME NEW r \in Listed, type[r] = "REALTIME",
             \A p \in Listed : type[p] = "REALTIME" => p = r,
             m.state[c] = "RUNNING"
      PROVE  /\ s \in Machines /\ s.sp = m.sp
             /\ s.preempted = c /\ s.psp = "main" /\ s.stack_ptr[c] = "main"
             /\ \A q \in Proc : s.stack_ptr[q] \in {"main", m.stack_ptr[q]}
             /\ s.current = r /\ s.flag
             /\ s.state = [m.state EXCEPT ![r] = "CALLED"]
  <2>1. t = process_suspend(m, r)
    BY <1>4, RealtimeLoops
  <2>2. process_suspend(m, r) =
          [m EXCEPT !.state = [m.state EXCEPT ![r] = "CALLED"],
                    !.flag = TRUE, !.ret = "RUNNING"]
    BY <1>2, <1>4 DEF process_suspend, StateOf
  <2>3. [m.state EXCEPT ![r] = "CALLED"] \in [Proc -> State]
    BY DEF Machines, State
  <2> HIDE DEF t
  <2>4. t \in Machines /\ t.state = [m.state EXCEPT ![r] = "CALLED"]
    BY <2>1, <2>2, <2>3 DEF Machines
  <2>5. /\ t.flag = TRUE /\ t.ret = "RUNNING" /\ t.sp = m.sp
        /\ t.stack_ptr = m.stack_ptr /\ t.current = c
    BY <2>1, <2>2 DEF Machines
  <2>6. /\ SameBut(u, t, {"stack_ptr", "saved", "psp", "preempted"})
        /\ u.preempted = c /\ u.psp = "main" /\ u.stack_ptr[c] = "main"
        /\ \A q \in Proc : u.stack_ptr[q] \in {"main", m.stack_ptr[q]}
    BY <2>4, <2>5, PreemptFields
  <2> HIDE DEF u
  <2>7. /\ u \in Machines /\ u.sp = m.sp /\ u.flag = TRUE
        /\ u.state = [m.state EXCEPT ![r] = "CALLED"]
    BY <2>4, <2>5, <2>6 DEF SameBut, Fields
  <2>8. w = [u EXCEPT !.current = r]
    BY <1>4, RealtimeLoops
  <2>9. s = w
    BY <1>1, <2>5
  <2> HIDE DEF w
  <2>10. /\ s \in Machines /\ s.current = r /\ s.sp = u.sp /\ s.flag = u.flag
         /\ s.state = u.state /\ s.preempted = u.preempted /\ s.psp = u.psp
         /\ s.stack_ptr = u.stack_ptr
    BY <1>2, <2>7, <2>8, <2>9 DEF Machines, Pointer
  <2> QED
    BY <2>6, <2>7, <2>10
<1>5. ASSUME NEW r \in Listed, type[r] = "REALTIME",
             \A p \in Listed : type[p] = "REALTIME" => p = r,
             m.state[c] = "CALLED"
      PROVE  /\ s \in Machines /\ s.sp = m.sp
             /\ s.preempted = c /\ s.psp = "main" /\ s.stack_ptr[c] = "main"
             /\ \A q \in Proc : s.stack_ptr[q] \in {"main", m.stack_ptr[q]}
             /\ s.current = r /\ s.flag = FALSE
             /\ s.state = [[m.state EXCEPT ![c] = "SUSPENDED"] EXCEPT ![r] = "CALLED"]
  <2> DEFINE st == [[m.state EXCEPT ![c] = "SUSPENDED"] EXCEPT ![r] = "CALLED"]
             n == OnMainStack(m, c)
             q0 == FirstIn(m, {"SUSPENDED", "CALLED"})
  <2>1. t = process_suspend(m, r)
    BY <1>4, <1>5, RealtimeLoops
  <2>2. q0 = c
    <3> DEFINE S == {"SUSPENDED", "CALLED"}
    <3>1. m.state[c] \in S /\ \A p \in Listed : m.state[p] \in S => p = c
      BY <1>2, <1>5 DEF Sound
    <3> HIDE DEF S
    <3>2. FirstIn(m, S) = c
      BY <3>1, FirstOnly
    <3> QED
      BY <3>2 DEF S
  <2>3. /\ SameBut(n, m, {"stack_ptr", "saved", "psp"})
        /\ n.psp = "main" /\ n.stack_ptr[c] = "main"
        /\ \A q \in Proc : n.stack_ptr[q] \in {"main", m.stack_ptr[q]}
    BY <1>2, OnMainIs
  <2>4. n \in Machines /\ n.state = m.state /\ n.sp = m.sp /\ n.flag = FALSE
    BY <2>3 DEF SameBut, Fields
  <2>5. process_suspend(m, r) =
          [n EXCEPT !.preempted = c, !.current = r, !.ret = "OK",
                    !.state = [[n.state EXCEPT ![c] = "SUSPENDED"] EXCEPT ![r] = "CALLED"]]
    <3> HIDE DEF q0
    <3>1. process_suspend(m, r) =
            [OnMainStack(m, q0) EXCEPT !.preempted = q0, !.current = r, !.ret = "OK",
              !.state = [[@ EXCEPT ![q0] = "SUSPENDED"] EXCEPT ![r] = "CALLED"]]
      BY <1>2, <1>5, <2>2 DEF process_suspend, StateOf, q0
    <3> QED
      BY <2>2, <3>1
  <2> HIDE DEF n, q0
  <2>6. st \in [Proc -> State]
    BY DEF Machines, State
  <2>7. t = [n EXCEPT !.preempted = c, !.current = r, !.ret = "OK", !.state = st]
    BY <2>1, <2>4, <2>5
  <2> HIDE DEF st, t
  <2>8. /\ t \in Machines /\ t.preempted = c /\ t.current = r /\ t.ret = "OK"
        /\ t.state = st /\ t.sp = n.sp /\ t.flag = n.flag /\ t.psp = n.psp
        /\ t.stack_ptr = n.stack_ptr
    BY <1>2, <2>4, <2>6, <2>7 DEF Machines, Pointer
  <2>9. s = t
    BY <1>1, <2>8
  <2> QED
    BY <2>3, <2>4, <2>8, <2>9 DEF st
<1>6. m.state[c] \in {"RUNNING", "CALLED"}
  BY DEF Sound
<1> HIDE DEF t, u, w
<1>7. ASSUME NEW r \in Listed, type[r] = "REALTIME",
             \A p \in Listed : type[p] = "REALTIME" => p = r
      PROVE  /\ s \in Machines /\ s.sp = m.sp
             /\ s.preempted = c /\ s.psp = "main" /\ s.stack_ptr[c] = "main"
             /\ \A q \in Proc : s.stack_ptr[q] \in {"main", m.stack_ptr[q]}
             /\ Interrupted(s.state, s.current, s.flag, c, m.state)
  <2>1. CASE m.state[c] = "RUNNING"
    BY <1>4, <1>7, <2>1 DEF Interrupted
  <2>2. CASE m.state[c] = "CALLED"
    BY <1>5, <1>7, <2>2 DEF Interrupted
  <2> QED
    BY <1>6, <2>1, <2>2
<1> QED
  BY <1>3, <1>7, OneRealtime DEF Switched

LEMMA ReturnFields ==
  ASSUME ListInv, IdInv, NEW m \in Machines, NEW c \in Listed, m.preempted = c,
         NEW u, u = ForEach(m, ReturnTask)
  PROVE  /\ SameBut(u, m, {"current", "psp", "preempted", "nullstate", "nullid"})
         /\ u.current = c /\ u.psp = m.stack_ptr[c] /\ u.preempted = NULL
<1>1. u = [m EXCEPT !.current = c, !.psp = m.stack_ptr[c], !.preempted = NULL,
                    !.nullstate = "NONE", !.nullid = 0]
  BY ReturnIs
<1>2. /\ c \in Pointer /\ NULL \in Pointer /\ "NONE" \in State
      /\ m.stack_ptr[c] \in Place \cup {NULL}
  BY ListedProcs DEF Pointer, State, Machines
<1>3. u \in Machines
  <2> DEFINE place == m.stack_ptr[c]
  <2>1. place \in Place \cup {NULL} /\ 0 \in Nat
    BY <1>2
  <2>2. u = [m EXCEPT !.current = c, !.psp = place, !.preempted = NULL,
                      !.nullstate = "NONE", !.nullid = 0]
    BY <1>1
  <2> HIDE DEF place
  <2> QED
    BY <1>2, <2>1, <2>2 DEF Machines
<1>4. \A x \in Fields \ {"current", "psp", "preempted", "nullstate", "nullid"} :
        u[x] = m[x]
  BY <1>1 DEF Machines, Fields
<1>5. u.current = c /\ u.psp = m.stack_ptr[c] /\ u.preempted = NULL
  BY <1>1 DEF Machines
<1> QED
  BY <1>3, <1>4, <1>5 DEF SameBut

\* What process_switch_called() is given, and what it makes of it.
Waits(m, c, st0) ==
  /\ m \in Machines /\ st0 \in [Proc -> State] /\ Sound(st0, c)
  /\ m.preempted = c /\ m.stack_ptr[c] = "main"
  /\ Interrupted(m.state, m.current, m.flag, c, st0)

Returned(s, m, c, st0) ==
  /\ s \in Machines /\ s.current = c /\ s.preempted = NULL
  /\ s.state = IF m.flag THEN Released(st0) ELSE st0
  /\ s.flag = FALSE /\ s.psp = "main" /\ s.sp = m.sp
  /\ s.saved = m.saved /\ s.stack_ptr = m.stack_ptr

LEMMA Leaves ==
  ASSUME Supported, ListInv, IdInv, TypeInv, NEW m, NEW c \in Listed, NEW st0,
         Waits(m, c, st0)
  PROVE  Returned(process_switch_called(m), m, c, st0)
<1> DEFINE s == process_switch_called(m)
<1> SUFFICES ASSUME m \in Machines, st0 \in [Proc -> State], Sound(st0, c),
                    m.preempted = c, m.stack_ptr[c] = "main",
                    Interrupted(m.state, m.current, m.flag, c, st0)
             PROVE  Returned(s, m, c, st0)
  BY DEF Waits
<1> DEFINE b == [m EXCEPT !.ret = "RESUME"]
           t == ForEach(b, ResumeTask)
           u == ForEach(t, ReturnTask)
           Unspoilt(n) == /\ n \in Machines /\ n.sp = m.sp
                          /\ n.saved = m.saved /\ n.stack_ptr = m.stack_ptr
           Restored(n) == /\ n.state = IF m.flag THEN Released(st0) ELSE st0
                          /\ n.flag = FALSE
<1>1. s = IF t.ret = "OK" THEN t ELSE u
  BY DEF process_switch_called
<1> HIDE DEF s
<1>2. c \in Proc /\ c # NULL /\ Listed \subseteq Proc
  BY ListedProcs DEF Listed
<1>3. /\ Unspoilt(b) /\ b.state = m.state /\ b.current = m.current
      /\ b.flag = m.flag /\ b.preempted = c /\ b.ret = "RESUME"
  BY DEF Machines
<1> HIDE DEF b
<1>4. m.flag \in BOOLEAN
  BY DEF Machines
\* when process_switch_called() has nothing to resume, its last loop returns to c
<1>5. ASSUME Unspoilt(t), Restored(t), t.preempted = c, t.ret # "OK"
      PROVE  /\ Unspoilt(s) /\ Restored(s)
             /\ s.current = c /\ s.preempted = NULL /\ s.psp = "main"
  <2> HIDE DEF t
  <2>1. /\ SameBut(u, t, {"current", "psp", "preempted", "nullstate", "nullid"})
        /\ u.current = c /\ u.psp = t.stack_ptr[c] /\ u.preempted = NULL
    BY <1>5, ReturnFields
  <2> HIDE DEF u
  <2>2. /\ u \in Machines /\ u.sp = t.sp /\ u.saved = t.saved
        /\ u.stack_ptr = t.stack_ptr /\ u.state = t.state /\ u.flag = t.flag
    BY <2>1 DEF SameBut, Fields
  <2>3. s = u
    BY <1>1, <1>5
  <2> QED
    BY <1>5, <2>1, <2>2, <2>3
<1>6. CASE \A p \in Listed : type[p] # "REALTIME"
  <2>1. t = b
    BY <1>6, NoRealtimeLoops
  <2>2. m.state = st0 /\ m.flag = FALSE
    BY <1>4, <1>6 DEF Interrupted
  <2> HIDE DEF t
  <2> QED
    BY <1>3, <1>5, <2>1, <2>2 DEF Returned
<1>7. ASSUME NEW r \in Listed, type[r] = "REALTIME",
             \A p \in Listed : type[p] = "REALTIME" => p = r
      PROVE  /\ Unspoilt(s) /\ Restored(s)
             /\ s.current = c /\ s.preempted = NULL /\ s.psp = "main"
  <2>1. t = process_resume(b, r)
    BY <1>3, <1>7, RealtimeLoops
  <2> HIDE DEF t, u
  <2>2. r \in Proc
    BY <1>2
  <2>3. CASE /\ m.flag = TRUE /\ st0[c] = "RUNNING"
             /\ m.state = [st0 EXCEPT ![r] = "CALLED"]
    <3> DEFINE n == ForEach(b, ReleaseTask)
    <3>1. /\ b \in Machines /\ b.state = [st0 EXCEPT ![r] = "CALLED"]
          /\ b.flag = TRUE
      BY <1>3, <2>3
    <3>2. SameBut(n, b, {"state", "psp"})
      BY <3>1, ReleaseIs
    <3>3. n.state = [p \in Proc |->
            IF p \in Listed /\ b.state[p] = "CALLED" THEN "RUNNING" ELSE b.state[p]]
      BY <3>1, ReleaseIs
    <3>4. t = [n EXCEPT !.flag = FALSE, !.ret = "RESUME"]
      BY <2>1, <3>1 DEF process_resume
    <3> HIDE DEF n
    <3>5. n.state = Released(st0)
      <4>1. ASSUME NEW p \in Proc
            PROVE  (IF p \in Listed /\ b.state[p] = "CALLED" THEN "RUNNING"
                    ELSE b.state[p])
                   = (IF st0[p] = "CALLED" THEN "RUNNING" ELSE st0[p])
        <5>1. CASE p = r
          <6>1. st0[r] \in {"RUNNING", "CALLED"} /\ b.state[r] = "CALLED"
            BY <2>2, <1>7, <3>1 DEF Sound, State
          <6> QED
            BY <1>7, <5>1, <6>1
        <5>2. CASE p # r
          <6>1. b.state[p] = st0[p] /\ (st0[p] = "CALLED" => p \in Listed)
            BY <3>1, <5>2 DEF Sound
          <6> QED
            BY <6>1
        <5> QED
          BY <5>1, <5>2
      <4> QED
        BY <3>3, <4>1 DEF Released
    <3>6. /\ n \in Machines /\ n.sp = b.sp /\ n.saved = b.saved
          /\ n.stack_ptr = b.stack_ptr /\ n.preempted = b.preempted
      BY <3>2 DEF SameBut, Fields
    <3>7. /\ t \in Machines /\ t.state = n.state /\ t.sp = n.sp /\ t.saved = n.saved
          /\ t.stack_ptr = n.stack_ptr /\ t.preempted = n.preempted
          /\ t.flag = FALSE /\ t.ret = "RESUME"
      BY <3>4, <3>6 DEF Machines
    <3> QED
      BY <1>3, <1>5, <2>3, <3>5, <3>6, <3>7
  <2>4. CASE /\ m.flag = FALSE /\ st0[c] = "CALLED" /\ r = c
             /\ m.state = [[st0 EXCEPT ![c] = "SUSPENDED"] EXCEPT ![r] = "CALLED"]
    <3>1. b.state = st0
      BY <1>3, <2>2, <2>4
    <3>2. FirstIn(b, {"SUSPENDED"}) = NULL
      <4> DEFINE S == {"SUSPENDED"}
      <4>1. \A p \in Listed : b.state[p] \notin S
        BY <1>2, <3>1 DEF Sound
      <4> HIDE DEF S
      <4>2. FirstIn(b, S) = NULL
        BY <4>1, FirstNone
      <4> QED
        BY <4>2 DEF S
    <3>3. t = [b EXCEPT !.ret = "RESUME"]
      BY <1>3, <2>1, <2>4, <3>2 DEF process_resume
    <3>4. /\ t \in Machines /\ t.state = b.state /\ t.sp = b.sp /\ t.saved = b.saved
          /\ t.stack_ptr = b.stack_ptr /\ t.preempted = b.preempted
          /\ t.flag = b.flag /\ t.ret = "RESUME"
      BY <1>3, <3>3 DEF Machines
    <3> QED
      BY <1>3, <1>5, <2>4, <3>1, <3>4
  <2>5. CASE /\ m.flag = FALSE /\ st0[c] = "CALLED" /\ r # c
             /\ m.state = [[st0 EXCEPT ![c] = "SUSPENDED"] EXCEPT ![r] = "CALLED"]
    <3> DEFINE st == [[b.state EXCEPT ![c] = "CALLED"] EXCEPT ![r] = "RUNNING"]
               q0 == FirstIn(b, {"SUSPENDED"})
    <3>1. q0 = c
      <4> DEFINE S == {"SUSPENDED"}
      <4>1. b.state[c] \in S /\ \A p \in Listed : b.state[p] \in S => p = c
        BY <1>2, <1>3, <2>2, <2>5 DEF Sound
      <4> HIDE DEF S
      <4>2. FirstIn(b, S) = c
        BY <4>1, FirstOnly
      <4> QED
        BY <4>2 DEF S
    <3>2. st = st0
      <4>1. st0[r] = "RUNNING"
        BY <1>2, <1>7, <2>2, <2>5 DEF Sound, State
      <4> QED
        BY <1>2, <1>3, <2>2, <2>5, <4>1
    <3> HIDE DEF q0
    <3>3. t = [b EXCEPT !.current = q0, !.psp = b.stack_ptr[q0], !.preempted = NULL,
                        !.nullstate = "NONE", !.nullid = 0, !.ret = "OK",
                        !.state = [[@ EXCEPT ![q0] = "CALLED"] EXCEPT ![r] = "RUNNING"]]
      BY <1>2, <1>3, <2>1, <2>5, <3>1 DEF process_resume, q0
    <3>4. t = [b EXCEPT !.current = c, !.psp = b.stack_ptr[c], !.preempted = NULL,
                        !.nullstate = "NONE", !.nullid = 0, !.ret = "OK",
                        !.state = st]
      BY <3>1, <3>3
    <3> HIDE DEF st
    <3>5. /\ st \in [Proc -> State] /\ b.stack_ptr[c] = "main" /\ c \in Pointer
          /\ NULL \in Pointer /\ "NONE" \in State
      BY <1>2, <1>3, <3>2 DEF Pointer, State
    <3>6. /\ t \in Machines /\ t.state = st /\ t.current = c /\ t.psp = "main"
          /\ t.preempted = NULL /\ t.ret = "OK" /\ t.flag = b.flag /\ t.sp = b.sp
          /\ t.saved = b.saved /\ t.stack_ptr = b.stack_ptr
      BY <1>3, <3>4, <3>5 DEF Machines, Place
    <3> QED
      BY <1>1, <1>3, <2>5, <3>2, <3>6
  <2>6. \/ /\ m.flag = TRUE /\ st0[c] = "RUNNING"
           /\ m.state = [st0 EXCEPT ![r] = "CALLED"]
        \/ /\ m.flag = FALSE /\ st0[c] = "CALLED"
           /\ m.state = [[st0 EXCEPT ![c] = "SUSPENDED"] EXCEPT ![r] = "CALLED"]
    BY <1>4, <1>7 DEF Interrupted
  <2> QED
    BY <2>3, <2>4, <2>5, <2>6
<1> QED
  BY <1>6, <1>7, OneRealtime DEF Returned

-----------------------------------------------------------------------------
(***************************************************************************)
(* The inductive invariant.  While the callback runs, what the kernel      *)
(* needs to be true is true of what the handler found, entry, rather than  *)
(* of the current process and the states, which the handler has changed.   *)
(***************************************************************************)
Prog(st, current) ==
  /\ QueueInv
  /\ process_list \in Pointer /\ next \in [Proc -> Pointer]
  /\ needspoll \in [Proc -> BOOLEAN] /\ poll_requested \in BOOLEAN
  /\ st \in [Proc -> State] /\ current \in Pointer
  /\ Well(stack) /\ TopOK(Top, current)
  /\ ListInv
  /\ Flat(st, current)

StackTypes ==
  /\ process_stack_ptr \in Place \cup {NULL}
  /\ saved \in [Place -> Stack] /\ sp \in Stack
  /\ process_preempted \in Pointer
  /\ suspend_flag \in BOOLEAN /\ armed \in BOOLEAN

Off ==
  /\ isr = "off"
  /\ Prog(state, process_current)
  /\ process_preempted = NULL /\ suspend_flag = FALSE /\ sp = "program"
  /\ armed => Schedulable(process_current)

On ==
  /\ isr = "callback"
  /\ Prog(entry.state, entry.current) /\ Schedulable(entry.current)
  /\ process_preempted = entry.current
  /\ stack_ptr[entry.current] = "main" /\ saved["main"] = "program"
  /\ process_stack_ptr \in Place /\ (process_stack_ptr = "main" => sp = "program")
  /\ state \in [Proc -> State] /\ process_current \in Pointer
  /\ Interrupted(state, process_current, suspend_flag, entry.current, entry.state)

SwitchInv == IdInv /\ TypeInv /\ StackTypes /\ (Off \/ On)

LEMMA ProgIs == Prog(state, process_current) <=> FlatInv
BY DEF Prog, ProcInv, DataInv, StackInv, FlatInv

LEMMA SameProg ==
  ASSUME NEW st, NEW current, Prog(st, current), QueueInv',
         UNCHANGED << process_list, next, stack >>,
         needspoll' \in [Proc -> BOOLEAN], poll_requested' \in BOOLEAN
  PROVE  Prog(st, current)'
<1>1. Listed' = Listed /\ ListInv'
  BY SameList DEF Prog
<1>2. Top' = Top
  BY DEF Top
<1>3. Flat(st, current)'
  BY <1>1 DEF Prog, Flat, Booting, Booted
<1> QED
  BY <1>1, <1>2, <1>3 DEF Prog

\* The kernel can do with nothing marked as called.
LEMMA ReleasedProg ==
  ASSUME NEW st, NEW current, Prog(st, current)
  PROVE  Prog(Released(st), current)
<1>1. st \in [Proc -> State] /\ Alive(st, Listed)
  BY DEF Prog, Flat
<1>2. /\ Released(st) \in [Proc -> State]
      /\ \A p \in Proc : Released(st)[p] =
           IF st[p] = "CALLED" THEN "RUNNING" ELSE st[p]
  BY <1>1 DEF Released, State
<1>3. Alive(Released(st), Listed)
  BY <1>1, <1>2 DEF Alive
<1>4. Marked(Frames(stack), Released(st))
  BY <1>2 DEF Marked
<1> QED
  BY <1>2, <1>3, <1>4 DEF Prog, Flat

\* What the handler needs of the program it interrupts.
LEMMA ProgSound ==
  ASSUME NEW st, NEW c, Prog(st, c), Schedulable(c)
  PROVE  Sound(st, c) /\ c \in Listed /\ c \in Proc
<1>1. c \in Listed /\ c \in Proc
  BY ListedProcs DEF Prog, Schedulable
<1>2. st \in [Proc -> State] /\ Alive(st, Listed)
  BY DEF Prog, Flat
<1>3. st[c] \in {"RUNNING", "CALLED"}
  BY <1>1, <1>2 DEF Alive, State
<1>4. ASSUME NEW p \in Proc, NEW q \in Proc, st[p] = "CALLED", st[q] = "CALLED"
      PROVE  p = q
  BY <1>4 DEF Prog, Flat, Marked, OneActive, Activation
<1> QED
  BY <1>1, <1>2, <1>3, <1>4 DEF Sound, Alive

\* Outside PROCESS_CONTEXT blocks, only the current process is marked as called.
LEMMA OnlyCurrent ==
  ASSUME NEW st, NEW c, Prog(st, c), ~At("context"), NEW p \in Proc, st[p] = "CALLED"
  PROVE  p = c
<1>1. /\ Well(stack) /\ TopOK(Top, c) /\ Ordered(stack) /\ Settled(stack, c)
      /\ OneActive(Frames(stack)) /\ Marked(Frames(stack), st)
  BY DEF Prog, Flat
<1>2. PICK f \in Frames(stack) : f.at \in {"calling", "done"} /\ f.p = p
  BY <1>1 DEF Marked
<1>3. Frames(stack) = Frames(Popped) \cup {Top}
  BY <1>1, FramesAre
<1>4. CASE f.at = "done"
  BY <1>1, <1>2, <1>4 DEF Settled, Frames
<1>5. CASE f.at = "calling"
  <2>1. Top.at # "calling"
    <3>1. Len(stack) \in DOMAIN stack
      BY <1>1, StackIs DEF Well
    <3> QED
      BY <1>1, <3>1 DEF Settled, Top
  <2>2. f \in Frames(Popped)
    BY <1>2, <1>3, <1>5, <2>1
  <2>3. Top.at \in Code
    BY <1>1, <1>5, <2>2, RestOrdered DEF Acting, Activation
  <2>4. Top.at = "thread"
    BY <2>3 DEF At, Code
  <2>5. f.p = Top.p
    BY <1>1, <1>2, <1>3, <1>5, <2>4 DEF OneActive, Activation
  <2> QED
    BY <1>1, <1>2, <2>4, <2>5 DEF TopOK
<1> QED
  BY <1>2, <1>4, <1>5

LEMMA FiniteList ==
  ASSUME ListInv
  PROVE  /\ IsFiniteSet(Listed) /\ Cardinality(Listed) \in Nat
         /\ Cardinality(Listed) <= Cardinality(Proc)
BY ListedProcs, ProcessAssumption, FS_Subset, FS_CardinalityType

LEMMA SwitchInit == DInit => SwitchInv
<1> SUFFICES ASSUME DInit PROVE SwitchInv
  OBVIOUS
<1>1. Init /\ Listed = {}
  BY ListInitInv DEF DInit
<1>2. Prog(state, process_current)
  BY <1>1, FlatInit, ProgIs
<1>3. Cardinality({}) = 0 /\ IdSpan \in Nat \ {0, 1}
  BY FS_EmptySet, DSwitchAssumption
<1>4. IdInv
  <2>1. 1 % IdSpan = 1 /\ 0 \in 0 .. IdSpan - 1 /\ 0 + 1 = 1
    BY <1>3
  <2> QED
    BY <1>1, <1>3, <2>1 DEF DInit, IdInv
<1>5. TypeInv
  BY DEF DInit, TypeInv
<1>6. StackTypes
  BY DEF DInit, StackTypes, Stack, Place, Pointer
<1> QED
  BY <1>2, <1>4, <1>5, <1>6 DEF SwitchInv, Off, DInit

\* A step of the kernel numbers the process it starts, if it starts one.
LEMMA KernelIds ==
  ASSUME Supported, FlatInv, IdInv, TypeInv, [Next]_vars, StartTask
  PROVE  IdInv' /\ TypeInv'
<1> DEFINE n == Cardinality(Listed)
<1>1. ListInv /\ Listed \subseteq Proc
  BY ListedProcs DEF FlatInv
<1>2. IsFiniteSet(Listed) /\ n \in Nat /\ n <= Cardinality(Proc)
  BY <1>1, FiniteList
<1>3. IdSpan \in Nat \ {0, 1} /\ Cardinality(Proc) \in Nat /\ Cardinality(Proc) < IdSpan
  BY DSwitchAssumption, Size DEF Supported
<1>4. CASE Listed' = Listed
  <2>1. Started = {}
    BY <1>4 DEF Started
  <2>2. \A p \in Proc : id'[p] = id[p] /\ type'[p] = type[p] /\ stack_ptr'[p] = stack_ptr[p]
    BY <2>1 DEF StartTask
  <2>3. /\ id' \in [Proc -> 0 .. IdSpan - 1] /\ type' \in [Proc -> {"NORMAL", "REALTIME"}]
        /\ stack_ptr' \in [Proc -> Place \cup {NULL}] /\ id_count' = id_count
    BY <2>1 DEF StartTask, IdInv, TypeInv
  <2>4. IdInv'
    BY <1>1, <1>4, <2>2, <2>3 DEF IdInv
  <2>5. TypeInv'
    BY <1>4, <2>2, <2>3 DEF TypeInv
  <2> QED
    BY <2>4, <2>5
<1>5. CASE \E p \in Proc : p \notin Listed /\ Listed' = Listed \cup {p}
  <2>1. PICK p \in Proc : p \notin Listed /\ Listed' = Listed \cup {p}
    BY <1>5
  <2>2. Started = {p}
    BY <2>1 DEF Started
  <2>3. Cardinality(Listed') = n + 1
    BY <1>2, <2>1, FS_AddElement
  <2>4. n + 1 <= Cardinality(Proc)
    <3>1. Listed' \in SUBSET Proc
      BY <1>1, <2>1
    <3>2. Cardinality(Listed') <= Cardinality(Proc)
      BY <3>1, ProcessAssumption, FS_Subset
    <3> QED
      BY <2>3, <3>2
  <2> HIDE DEF n
  <2>5. id_count = n + 1
    <3>1. (n + 1) % IdSpan = n + 1
      BY <1>2, <1>3, <2>4
    <3> QED
      BY <3>1 DEF IdInv, n
  <2>6. /\ n + 1 \in 0 .. IdSpan - 1 /\ n + 1 \in 1 .. n + 1
        /\ \A k \in 1 .. n : k \in 1 .. n + 1 /\ k # n + 1
    BY <1>2, <1>3, <2>4
  <2>7. /\ id' = [q \in Proc |-> IF q \in {p} THEN n + 1 ELSE id[q]]
        /\ type' = [q \in Proc |-> IF q \in {p} THEN "NORMAL" ELSE type[q]]
        /\ stack_ptr' = [q \in Proc |-> IF q \in {p} THEN NULL ELSE stack_ptr[q]]
        /\ id_count' = (n + 1 + 1) % IdSpan
    BY <2>2, <2>5 DEF StartTask
  <2>8. id'[p] = n + 1 /\ \A q \in Listed : id'[q] = id[q] /\ id[q] \in 1 .. n
    BY <1>1, <2>1, <2>7 DEF IdInv, n
  <2>9. IdInv'
    <3>1. id' \in [Proc -> 0 .. IdSpan - 1]
      BY <2>6, <2>7 DEF IdInv
    <3>2. id_count' = (Cardinality(Listed') + 1) % IdSpan
      BY <2>3, <2>7
    <3>3. \A q \in Listed' : id'[q] \in 1 .. Cardinality(Listed')
      BY <2>1, <2>3, <2>6, <2>8
    <3>4. \A q, r \in Listed' : id'[q] = id'[r] => q = r
      BY <2>1, <2>6, <2>8 DEF IdInv
    <3> QED
      BY <3>1, <3>2, <3>3, <3>4 DEF IdInv
  <2>10. TypeInv'
    <3>1. /\ type' \in [Proc -> {"NORMAL", "REALTIME"}]
          /\ stack_ptr' \in [Proc -> Place \cup {NULL}]
      BY <2>7 DEF TypeInv
    <3>2. ASSUME NEW q \in Proc, type'[q] = "REALTIME"
          PROVE  q \in RtProc /\ q \in Listed' /\ stack_ptr'[q] \in Place
      BY <2>1, <2>7, <3>2 DEF TypeInv
    <3> QED
      BY <3>1, <3>2 DEF TypeInv
  <2> QED
    BY <2>9, <2>10
<1> QED
  BY <1>4, <1>5, ListGrows

LEMMA KernelInv ==
  ASSUME Supported, SwitchInv, Kernel
  PROVE  SwitchInv'
<1>1. Off /\ isr = "off" /\ sp = "program" /\ [Next]_vars /\ StartTask
      /\ UNCHANGED << switchVars, armed >>
  BY DEF Kernel, Running, SwitchInv, On
<1>2. FlatInv
  BY <1>1, ProgIs DEF Off
<1>3. FlatInv'
  BY <1>1, <1>2, FlatNext
<1>4. Prog(state, process_current)'
  BY <1>3 DEF Prog, ProcInv, DataInv, StackInv, FlatInv
<1>5. armed' => Schedulable(process_current)'
  BY <1>1, <1>2, SchedulableNext DEF Off, switchVars
<1>6. IdInv' /\ TypeInv'
  BY <1>1, <1>2, KernelIds DEF SwitchInv
<1>7. StackTypes'
  BY <1>1 DEF SwitchInv, StackTypes, switchVars
<1> QED
  BY <1>1, <1>4, <1>5, <1>6, <1>7 DEF SwitchInv, Off, switchVars

\* The two calls that only use up one of the thread's: made for a process that is
\* listed, the current one.
LEMMA CallKept ==
  ASSUME SwitchInv, Running, Executing, Top.left > 0, stack' = Spent,
         UNCHANGED << queueVars, procVars, pollVars, process_current >>
  PROVE  /\ Prog(state, process_current)' /\ (Booted => Booted')
         /\ Listed' = Listed /\ process_current = Top.p
         /\ Booted \/ At("thread") => Top.p \in Listed
         /\ (Top.ev \notin {"none", "INIT"} => Booted)
<1>1. FlatInv
  BY ProgIs DEF SwitchInv, Off, On, Running
<1>2. QueueInv'
  BY <1>1 DEF FlatInv, ProcInv, DataInv, QueueInv, QueueTypeOK,
              WaitingAreMessages, Waiting, queueVars
<1>3. FlatInv' /\ FlatKept
  BY <1>1, <1>2, SpentStep
<1>4. Prog(state, process_current)'
  BY <1>3 DEF Prog, ProcInv, DataInv, StackInv, FlatInv
<1>5. Listed' = Listed
  BY SameList DEF procVars
<1>6. /\ Steady(Top, Listed) /\ Top \in Frames(stack) /\ Top \in GoodFrame
      /\ TopOK(Top, process_current)
  BY <1>1, TopMoves, FramesAre DEF FlatInv, ProcInv, StackInv
<1>7. ASSUME Booted \/ At("thread") PROVE Top.p \in Listed
  <2>1. CASE At("thread")
    BY <1>6, <2>1 DEF At, Steady, Activation
  <2>2. CASE Booted /\ At("context")
    <3>1. "context" \in Ops /\ Top.p \in Proc
      BY <1>6, <2>2 DEF At, Steady, GoodFrame, PLabels
    <3> QED
      BY <1>1, <2>2, <3>1, AllListed
  <2> QED
    BY <1>7, <2>1, <2>2 DEF Executing, At
<1>8. Top.ev \notin {"none", "INIT"} => Booted
  BY <1>1, <1>6 DEF FlatInv, Flat, Booting, BootFrame
<1>9. process_current = Top.p
  BY <1>6 DEF TopOK, Executing
<1> QED
  BY <1>3, <1>4, <1>5, <1>7, <1>8, <1>9 DEF FlatKept

LEMMA RealtimeInv ==
  ASSUME SwitchInv, RealtimeTaskInit
  PROVE  SwitchInv'
<1>1. /\ Running /\ At("thread") /\ Top.left > 0 /\ stack' = Spent /\ Top.p \in RtProc
      /\ UNCHANGED << queueVars, procVars, pollVars, process_current, id, id_count,
                      process_stack_ptr, sp, process_preempted, suspend_flag,
                      isr, entry, armed >>
      /\ type' = [type EXCEPT ![Top.p] = "REALTIME"]
      /\ stack_ptr' = [stack_ptr EXCEPT ![Top.p] = "sub"]
      /\ saved' = [saved EXCEPT !["sub"] = "sub"]
  BY DEF RealtimeTaskInit, MayCall
<1>2. /\ Prog(state, process_current)' /\ (Booted => Booted')
      /\ Listed' = Listed /\ Top.p \in Listed /\ process_current = Top.p
  BY <1>1, CallKept DEF Executing, At
<1>3. IdInv'
  BY <1>1, <1>2 DEF SwitchInv, IdInv
<1>4. TypeInv'
  BY <1>1, <1>2 DEF SwitchInv, TypeInv, Place
<1>5. StackTypes'
  BY <1>1 DEF SwitchInv, StackTypes, Place, Stack
<1>6. Off'
  BY <1>1, <1>2 DEF SwitchInv, Off, On, Running, Schedulable
<1> QED
  BY <1>3, <1>4, <1>5, <1>6 DEF SwitchInv

LEMMA ArmInv ==
  ASSUME Supported, SwitchInv, Arm
  PROVE  SwitchInv'
<1>1. /\ Running /\ Executing /\ Top.left > 0 /\ stack' = Spent
      /\ Top.ev \in ArmEvents /\ armed' = TRUE
      /\ UNCHANGED << queueVars, procVars, pollVars, process_current, taskVars,
                      switchVars >>
  BY DEF Arm, MayCall
<1>2. /\ Prog(state, process_current)' /\ (Booted => Booted')
      /\ Listed' = Listed /\ process_current = Top.p
      /\ Booted /\ Top.p \in Listed
  BY <1>1, CallKept DEF Supported
<1>3. Schedulable(process_current)'
  BY <1>1, <1>2 DEF Schedulable
<1>4. IdInv' /\ TypeInv'
  BY <1>1, <1>2 DEF SwitchInv, IdInv, TypeInv, taskVars
<1>5. StackTypes'
  BY <1>1 DEF SwitchInv, StackTypes, switchVars
<1>6. Off'
  BY <1>1, <1>2, <1>3 DEF SwitchInv, Off, On, Running, switchVars
<1> QED
  BY <1>4, <1>5, <1>6 DEF SwitchInv

\* What the handler does not touch.
LEMMA HandlerKeeps ==
  ASSUME IdInv, UnchangedByHandler, UNCHANGED pollVars
  PROVE  /\ UNCHANGED << queueVars, process_list, next, stack, id, id_count, type,
                         needspoll, poll_requested >>
         /\ Listed' = Listed /\ IdInv' /\ Top' = Top /\ (Booted => Booted')
         /\ \A st, c : Prog(st, c) => Prog(st, c)'
<1>1. UNCHANGED << queueVars, process_list, next, stack, id, id_count, type,
                   needspoll, poll_requested >>
  BY DEF UnchangedByHandler, pollVars
<1>2. Listed' = Listed /\ Walk' = Walk /\ Top' = Top
  BY <1>1, SameList, ListDefs, ListDefsNext DEF Top
<1>3. IdInv'
  BY <1>1, <1>2 DEF IdInv
<1>4. Booted => Booted'
  BY <1>1 DEF Booted
<1>5. ASSUME NEW st, NEW c, Prog(st, c) PROVE Prog(st, c)'
  <2>1. QueueInv'
    BY <1>1, <1>5 DEF Prog, QueueInv, QueueTypeOK, WaitingAreMessages, Waiting,
                      queueVars
  <2> QED
    BY <1>1, <1>5, <2>1, SameProg DEF Prog
<1> QED
  BY <1>1, <1>2, <1>3, <1>4, <1>5

LEMMA MachineIs ==
  ASSUME TypeInv, StackTypes, state \in [Proc -> State], process_current \in Pointer,
         NEW g \in Garbage
  PROVE  /\ Machine(g[1], g[2]) \in Machines
         /\ Machine(g[1], g[2]).state = state
         /\ Machine(g[1], g[2]).current = process_current
         /\ Machine(g[1], g[2]).preempted = process_preempted
         /\ Machine(g[1], g[2]).flag = suspend_flag
         /\ Machine(g[1], g[2]).psp = process_stack_ptr
         /\ Machine(g[1], g[2]).stack_ptr = stack_ptr
         /\ Machine(g[1], g[2]).saved = saved
         /\ Machine(g[1], g[2]).sp = sp
         /\ Machine(g[1], g[2]).ret = "SUSPEND"
<1>1. g[1] \in State /\ g[2] \in Nat
  BY DSwitchAssumption DEF Garbage
<1> QED
  BY <1>1 DEF Machine, Machines, TypeInv, StackTypes

LEMMA SaveIs ==
  ASSUME NEW m \in Machines, m.psp \in Place, NEW n, n = SAVE_CONTEXT(m)
  PROVE  /\ SameBut(n, m, {"saved"})
         /\ n.saved[m.psp] = m.sp
         /\ \A x \in Place \ {m.psp} : n.saved[x] = m.saved[x]
<1> DEFINE kept == [m.saved EXCEPT ![m.psp] = m.sp]
<1>1. m.psp # NULL
  BY DSwitchAssumption DEF Place
<1>2. n = [m EXCEPT !.saved = kept]
  BY <1>1 DEF SAVE_CONTEXT
<1>3. /\ kept \in [Place -> Stack] /\ kept[m.psp] = m.sp
      /\ \A x \in Place \ {m.psp} : kept[x] = m.saved[x]
  BY DEF Machines
<1> HIDE DEF kept
<1>4. n \in Machines /\ n.saved = kept
  BY <1>2, <1>3 DEF Machines
<1>5. \A x \in Fields \ {"saved"} : n[x] = m[x]
  BY <1>2 DEF Machines, Fields
<1> QED
  BY <1>3, <1>4, <1>5 DEF SameBut

LEMMA RestoreIs ==
  ASSUME NEW m \in Machines, m.psp \in Place, NEW n, n = RESTORE_CONTEXT(m)
  PROVE  SameBut(n, m, {"sp"}) /\ n.sp = m.saved[m.psp]
<1> DEFINE loaded == m.saved[m.psp]
<1>1. m.psp # NULL /\ loaded \in Stack
  BY DSwitchAssumption DEF Place, Machines
<1>2. n = [m EXCEPT !.sp = loaded]
  BY <1>1 DEF RESTORE_CONTEXT
<1> HIDE DEF loaded
<1>3. n \in Machines /\ n.sp = loaded
  BY <1>1, <1>2 DEF Machines
<1>4. \A x \in Fields \ {"sp"} : n[x] = m[x]
  BY <1>2 DEF Machines, Fields
<1> QED
  BY <1>3, <1>4 DEF SameBut, loaded

\* The stack the callback gets: the realtime process's, or the one the
\* interrupted process was given.
LEMMA SelectIs ==
  ASSUME Supported, ListInv, TypeInv, NEW m \in Machines, m.psp = "main",
         \A q \in Proc : m.stack_ptr[q] \in {"main", stack_ptr[q]},
         NEW n, n = RealtimeStack(m)
  PROVE  SameBut(n, m, {"psp"}) /\ n.psp \in Place
<1>1. n = ForEach(m, SelectStack)
  BY DEF RealtimeStack
<1>2. CASE \A p \in Listed : type[p] # "REALTIME"
  BY <1>1, <1>2, NoRealtimeLoops DEF SameBut, Place
<1>3. ASSUME NEW r \in Listed, type[r] = "REALTIME",
             \A p \in Listed : type[p] = "REALTIME" => p = r
      PROVE  SameBut(n, m, {"psp"}) /\ n.psp \in Place
  <2> DEFINE place == m.stack_ptr[r]
  <2>1. n = [m EXCEPT !.psp = place]
    BY <1>1, <1>3, RealtimeLoops
  <2>2. place \in Place
    BY <1>3, ListedProcs DEF TypeInv, Place
  <2> HIDE DEF place
  <2>3. n \in Machines /\ n.psp = place
    BY <2>1, <2>2 DEF Machines
  <2>4. \A x \in Fields \ {"psp"} : n[x] = m[x]
    BY <2>1 DEF Machines, Fields
  <2> QED
    BY <2>2, <2>3, <2>4 DEF SameBut
<1> QED
  BY <1>2, <1>3, OneRealtime

LEMMA SameInterrupted ==
  ASSUME NEW st, NEW q, NEW flag, NEW c, NEW st0, Interrupted(st, q, flag, c, st0),
         Listed' = Listed, type' = type
  PROVE  Interrupted(st, q, flag, c, st0)'
BY DEF Interrupted

LEMMA EnterInv ==
  ASSUME Supported, SwitchInv, IsrEnter
  PROVE  SwitchInv'
<1>0. PICK c, st0 : c = process_current /\ st0 = state
  OBVIOUS
<1>e. PICK g \in Garbage :
        LET n == SAVE_CONTEXT(process_switch_preempted(Machine(g[1], g[2])))
        IN  Become(RESTORE_CONTEXT(RealtimeStack(n)))
  BY DEF IsrEnter
<1> DEFINE m == Machine(g[1], g[2])
           s == process_switch_preempted(m)
           v == SAVE_CONTEXT(s)
           w == RealtimeStack(v)
           x == RESTORE_CONTEXT(w)
<1>1. Become(x)
  BY <1>e
<1>2. /\ Running /\ armed /\ armed' = FALSE /\ isr' = "callback"
      /\ entry' = [current |-> c, state |-> st0]
      /\ UnchangedByHandler /\ UNCHANGED pollVars
  BY <1>0 DEF IsrEnter
<1>3. /\ IdInv /\ TypeInv /\ StackTypes /\ Prog(st0, c) /\ Schedulable(c)
      /\ process_preempted = NULL /\ suspend_flag = FALSE /\ sp = "program"
  BY <1>0, <1>2 DEF SwitchInv, Off, On, Running
<1>4. /\ ListInv /\ st0 \in [Proc -> State] /\ c \in Pointer
      /\ Sound(st0, c) /\ c \in Listed /\ c \in Proc
  BY <1>3, ProgSound DEF Prog
<1>5. /\ m \in Machines /\ m.state = st0 /\ m.current = c
      /\ m.preempted = NULL /\ m.flag = FALSE /\ m.sp = "program"
      /\ m.stack_ptr = stack_ptr /\ m.ret = "SUSPEND"
  BY <1>0, <1>3, <1>4, MachineIs
<1> HIDE DEF m
<1>6. /\ s \in Machines /\ s.sp = "program"
      /\ s.preempted = c /\ s.psp = "main" /\ s.stack_ptr[c] = "main"
      /\ \A q \in Proc : s.stack_ptr[q] \in {"main", stack_ptr[q]}
      /\ Interrupted(s.state, s.current, s.flag, c, st0)
  <2>1. ListInv /\ IdInv /\ TypeInv /\ c \in Listed /\ Ready(m, c)
    BY <1>3, <1>4, <1>5 DEF Ready
  <2>2. Switched(s, m, c)
    BY <2>1, Enters
  <2> HIDE DEF s
  <2> QED
    BY <1>5, <2>2 DEF Switched
<1> HIDE DEF s
<1>7. SameBut(v, s, {"saved"}) /\ v.saved["main"] = "program"
  BY <1>6, SaveIs DEF Place
<1> HIDE DEF v
<1>8. /\ v \in Machines /\ v.state = s.state /\ v.current = s.current
      /\ v.preempted = c /\ v.flag = s.flag /\ v.psp = "main"
      /\ v.stack_ptr = s.stack_ptr
  BY <1>6, <1>7 DEF SameBut, Fields
<1>9. SameBut(w, v, {"psp"}) /\ w.psp \in Place
  BY <1>3, <1>4, <1>6, <1>8, SelectIs
<1> HIDE DEF w
<1>10. /\ w \in Machines /\ w.state = s.state /\ w.current = s.current
       /\ w.preempted = c /\ w.flag = s.flag
       /\ w.stack_ptr = s.stack_ptr /\ w.saved = v.saved
  BY <1>8, <1>9 DEF SameBut, Fields
<1>11. SameBut(x, w, {"sp"}) /\ x.sp = w.saved[w.psp]
  BY <1>9, <1>10, RestoreIs
<1> HIDE DEF x
<1>12. /\ x \in Machines /\ x.state = s.state /\ x.current = s.current
       /\ x.preempted = c /\ x.flag = s.flag /\ x.psp \in Place
       /\ x.stack_ptr = s.stack_ptr /\ x.saved["main"] = "program"
       /\ (x.psp = "main" => x.sp = "program")
  BY <1>7, <1>9, <1>10, <1>11 DEF SameBut, Fields
<1>13. /\ state' = s.state /\ process_current' = s.current
       /\ process_preempted' = c /\ suspend_flag' = s.flag
       /\ process_stack_ptr' \in Place /\ stack_ptr' = s.stack_ptr
       /\ saved'["main"] = "program" /\ (process_stack_ptr' = "main" => sp' = "program")
       /\ state' \in [Proc -> State] /\ process_current' \in Pointer
       /\ stack_ptr' \in [Proc -> Place \cup {NULL}] /\ saved' \in [Place -> Stack]
       /\ sp' \in Stack /\ suspend_flag' \in BOOLEAN
  <2>1. /\ state' = x.state /\ process_current' = x.current
        /\ process_preempted' = x.preempted /\ suspend_flag' = x.flag
        /\ process_stack_ptr' = x.psp /\ stack_ptr' = x.stack_ptr
        /\ saved' = x.saved /\ sp' = x.sp
    BY <1>1 DEF Become
  <2>2. /\ x.state \in [Proc -> State] /\ x.current \in Pointer
        /\ x.stack_ptr \in [Proc -> Place \cup {NULL}]
        /\ x.saved \in [Place -> Stack] /\ x.sp \in Stack /\ x.flag \in BOOLEAN
    BY <1>12 DEF Machines
  <2> QED
    BY <1>12, <2>1, <2>2
<1>14. /\ UNCHANGED << queueVars, process_list, next, stack, id, id_count, type,
                         needspoll, poll_requested >>
       /\ Listed' = Listed /\ IdInv' /\ (Booted => Booted')
       /\ \A st, q : Prog(st, q) => Prog(st, q)'
  BY <1>2, <1>3, HandlerKeeps
<1>15. Prog(entry.state, entry.current)' /\ Schedulable(entry.current)'
  <2>1. Prog(st0, c)'
    BY <1>3, <1>14
  <2>2. entry'.state = st0 /\ entry'.current = c
    BY <1>2
  <2>3. Booted' /\ c \in Listed'
    BY <1>3, <1>4, <1>14 DEF Schedulable
  <2> QED
    BY <2>1, <2>2, <2>3 DEF Schedulable
<1>16. Interrupted(state, process_current, suspend_flag, entry.current, entry.state)'
  <2>1. PICK st, q, flag : st = s.state /\ q = s.current /\ flag = s.flag
    OBVIOUS
  <2>2. Interrupted(st, q, flag, c, st0)'
    BY <1>6, <1>14, <2>1, SameInterrupted
  <2>3. /\ entry'.state = st0 /\ entry'.current = c
        /\ state' = st /\ process_current' = q /\ suspend_flag' = flag
    BY <1>2, <1>13, <2>1
  <2> QED
    BY <2>2, <2>3
<1>17. TypeInv'
  <2>1. ASSUME NEW p \in Proc, type'[p] = "REALTIME"
        PROVE  p \in RtProc /\ p \in Listed' /\ stack_ptr'[p] \in Place
    <3>1. p \in RtProc /\ p \in Listed /\ stack_ptr[p] \in Place
      BY <1>3, <1>14, <2>1 DEF TypeInv
    <3> QED
      BY <1>6, <1>13, <1>14, <3>1 DEF Place
  <2> QED
    BY <1>3, <1>13, <1>14, <2>1 DEF TypeInv
<1>18. StackTypes'
  BY <1>2, <1>4, <1>13 DEF StackTypes
<1>19. On'
  BY <1>2, <1>6, <1>13, <1>15, <1>16 DEF On
<1> QED
  BY <1>14, <1>17, <1>18, <1>19 DEF SwitchInv

LEMMA CallbackPollInv ==
  ASSUME SwitchInv, NEW p \in Proc, CallbackPoll(p)
  PROVE  SwitchInv'
<1>0. PICK c, st0 : c = entry.current /\ st0 = entry.state
  OBVIOUS
<1>1. /\ isr = "callback" /\ process_poll(p)
      /\ UNCHANGED << queueVars, procVars, process_current, stack, taskVars,
                      switchVars, armed >>
  BY DEF CallbackPoll
<1>2. /\ On /\ Prog(st0, c) /\ Schedulable(c)
      /\ Interrupted(state, process_current, suspend_flag, c, st0)
  BY <1>0, <1>1 DEF SwitchInv, Off, On
<1>3. Sound(st0, c) /\ c \in Listed /\ Listed \subseteq Proc
  BY <1>2, ProgSound, ListedProcs DEF Prog
<1>4. Listed' = Listed /\ Walk' = Walk
  BY <1>1, SameList, ListDefs, ListDefsNext DEF procVars
<1>6. needspoll \in [Proc -> BOOLEAN] /\ poll_requested \in BOOLEAN /\ QueueInv
  BY <1>2 DEF Prog
<1>7. QueueInv'
  BY <1>1, <1>6 DEF QueueInv, QueueTypeOK, WaitingAreMessages, Waiting, queueVars
<1>8. needspoll' \in [Proc -> BOOLEAN] /\ poll_requested' \in BOOLEAN
  BY <1>1, <1>6 DEF process_poll, pollVars
<1>9. Prog(st0, c)'
  BY <1>1, <1>2, <1>7, <1>8, SameProg DEF procVars
<1>10. /\ entry' = entry /\ stack' = stack /\ type' = type /\ id' = id
       /\ id_count' = id_count /\ stack_ptr' = stack_ptr /\ isr' = isr
       /\ process_stack_ptr' = process_stack_ptr /\ saved' = saved /\ sp' = sp
       /\ process_preempted' = process_preempted /\ suspend_flag' = suspend_flag
       /\ armed' = armed /\ state' = state /\ process_current' = process_current
  BY <1>1 DEF procVars, taskVars, switchVars
<1>11. Prog(entry.state, entry.current)' /\ Schedulable(entry.current)'
  <2>1. entry'.state = st0 /\ entry'.current = c
    BY <1>0, <1>10
  <2>2. Booted' /\ c \in Listed'
    BY <1>2, <1>3, <1>4, <1>10 DEF Schedulable, Booted
  <2> QED
    BY <1>9, <2>1, <2>2 DEF Schedulable
<1>12. Interrupted(state, process_current, suspend_flag, entry.current, entry.state)'
  BY <1>0, <1>2, <1>4, <1>10 DEF Interrupted
<1>13. On'
  BY <1>2, <1>10, <1>11, <1>12 DEF On
<1> QED
  BY <1>4, <1>10, <1>13 DEF SwitchInv, IdInv, TypeInv, StackTypes

LEMMA CallbackArmInv ==
  ASSUME SwitchInv, CallbackArm
  PROVE  SwitchInv'
<1>1. /\ isr = "callback" /\ armed' = TRUE
      /\ UNCHANGED << vars, taskVars, switchVars >>
  BY DEF CallbackArm
<1>2. /\ UNCHANGED << queueVars, process_list, next, stack, needspoll, poll_requested,
                      state, process_current, entry, type, id, id_count, stack_ptr,
                      isr, process_stack_ptr, saved, sp, process_preempted,
                      suspend_flag >>
  BY <1>1 DEF vars, procVars, pollVars, taskVars, switchVars
<1>3. On /\ Listed' = Listed /\ Walk' = Walk
  BY <1>1, <1>2, SameList, ListDefs, ListDefsNext DEF SwitchInv, Off
<1>4. PICK c, st0 : c = entry.current /\ st0 = entry.state
  OBVIOUS
<1>5. Prog(st0, c) /\ Schedulable(c)
  BY <1>3, <1>4 DEF On
<1>6. QueueInv'
  BY <1>2, <1>5 DEF Prog, QueueInv, QueueTypeOK, WaitingAreMessages, Waiting, queueVars
<1>8. Prog(st0, c)'
  BY <1>2, <1>5, <1>6, SameProg DEF Prog
<1>9. Prog(entry.state, entry.current)' /\ Schedulable(entry.current)'
  <2>1. entry'.state = st0 /\ entry'.current = c
    BY <1>2, <1>4
  <2>2. Booted' /\ c \in Listed'
    BY <1>2, <1>3, <1>5 DEF Schedulable, Booted
  <2> QED
    BY <1>8, <2>1, <2>2 DEF Schedulable
<1>10. Interrupted(state, process_current, suspend_flag, entry.current, entry.state)'
  BY <1>2, <1>3 DEF On, Interrupted
<1>11. On'
  BY <1>2, <1>3, <1>9, <1>10 DEF On
<1> QED
  BY <1>1, <1>2, <1>3, <1>11 DEF SwitchInv, IdInv, TypeInv, StackTypes

LEMMA ExitInv ==
  ASSUME Supported, SwitchInv, IsrExit
  PROVE  /\ SwitchInv'
         /\ process_current' = entry.current
         /\ state' = IF MistakenForIdle THEN Released(entry.state) ELSE entry.state
<1>0. PICK c, st0 : c = entry.current /\ st0 = entry.state
  OBVIOUS
<1>e. PICK g \in Garbage :
        LET n == process_switch_called(SAVE_CONTEXT(Machine(g[1], g[2])))
        IN  Become(RESTORE_CONTEXT(n))
  BY DEF IsrExit
<1> DEFINE b == Machine(g[1], g[2])
           m == SAVE_CONTEXT(b)
           s == process_switch_called(m)
           x == RESTORE_CONTEXT(s)
<1>1. Become(x)
  BY <1>e
<1>2. /\ isr = "callback" /\ isr' = "off" /\ UnchangedByHandler
      /\ UNCHANGED << pollVars, armed, entry >>
  BY DEF IsrExit
<1>3. /\ IdInv /\ TypeInv /\ StackTypes /\ Prog(st0, c) /\ Schedulable(c)
      /\ process_preempted = c /\ stack_ptr[c] = "main" /\ saved["main"] = "program"
      /\ process_stack_ptr \in Place /\ (process_stack_ptr = "main" => sp = "program")
      /\ state \in [Proc -> State] /\ process_current \in Pointer
      /\ Interrupted(state, process_current, suspend_flag, c, st0)
  BY <1>0, <1>2 DEF SwitchInv, Off, On
<1>4. /\ ListInv /\ st0 \in [Proc -> State]
      /\ Sound(st0, c) /\ c \in Listed /\ c \in Proc
  BY <1>3, ProgSound DEF Prog
<1>5. /\ b \in Machines /\ b.state = state /\ b.current = process_current
      /\ b.preempted = c /\ b.flag = suspend_flag /\ b.psp = process_stack_ptr
      /\ b.stack_ptr = stack_ptr /\ b.saved = saved /\ b.sp = sp
  BY <1>3, MachineIs
<1> HIDE DEF b
<1>6. /\ SameBut(m, b, {"saved"})
      /\ m.saved[b.psp] = b.sp
      /\ \A y \in Place \ {b.psp} : m.saved[y] = b.saved[y]
  BY <1>3, <1>5, SaveIs
<1> HIDE DEF m
<1>7. m.saved["main"] = "program"
  BY <1>3, <1>5, <1>6 DEF Place
<1>8. /\ m \in Machines /\ m.state = state /\ m.current = process_current
      /\ m.preempted = c /\ m.flag = suspend_flag /\ m.stack_ptr = stack_ptr
  BY <1>5, <1>6 DEF SameBut, Fields
<1>9. Waits(m, c, st0)
  BY <1>3, <1>4, <1>8 DEF Waits
<1>10. Returned(s, m, c, st0)
  BY <1>3, <1>4, <1>9, Leaves
<1> HIDE DEF s
\* what was CALLED has been released only if a realtime process was switched to
\* from what looked like an idle kernel
<1>20. /\ Released(st0) \in [Proc -> State] /\ Prog(Released(st0), c)
       /\ ~ MistakenForIdle /\ suspend_flag => Released(st0) = st0
       /\ MistakenForIdle => suspend_flag
  <2>1. Prog(Released(st0), c) /\ TopOK(Top, c)
    BY <1>3, ReleasedProg DEF Prog
  <2>2. ASSUME ~ MistakenForIdle, suspend_flag PROVE Released(st0) = st0
    <3>1. /\ \E r \in Listed : type[r] = "REALTIME"
          /\ st0[c] = "RUNNING"
      BY <1>3, <2>2 DEF Interrupted
    <3>2. ~At("context")
      <4>1. At("context") => Top.p = c
        BY <2>1 DEF At, TopOK
      <4> QED
        BY <1>0, <2>2, <3>1, <4>1 DEF MistakenForIdle
    <3>3. \A p \in Proc : st0[p] # "CALLED"
      BY <1>3, <3>1, <3>2, OnlyCurrent
    <3> QED
      BY <1>4, <3>3 DEF Released
  <2>3. ASSUME MistakenForIdle PROVE suspend_flag
    <3>1. /\ \E r \in Listed : type[r] = "REALTIME"
          /\ st0[Top.p] = "RUNNING" /\ Top.p = c
      BY <1>0, <2>1, <2>3 DEF MistakenForIdle, At, TopOK
    <3>2. suspend_flag \in BOOLEAN
      BY <1>3 DEF StackTypes
    <3> QED
      BY <1>3, <3>1, <3>2 DEF Interrupted
  <2> QED
    BY <2>1, <2>2, <2>3 DEF Prog
<1>22. PICK st1 : st1 = IF MistakenForIdle THEN Released(st0) ELSE st0
  OBVIOUS
<1>21. /\ st1 \in [Proc -> State] /\ Prog(st1, c)
       /\ st1 = IF suspend_flag THEN Released(st0) ELSE st0
  BY <1>3, <1>4, <1>20, <1>22
<1>11. /\ s \in Machines /\ s.state = st1 /\ s.current = c /\ s.preempted = NULL
       /\ s.flag = FALSE /\ s.psp = "main" /\ s.saved = m.saved
       /\ s.stack_ptr = stack_ptr
  BY <1>8, <1>10, <1>21 DEF Returned
<1>12. SameBut(x, s, {"sp"}) /\ x.sp = s.saved[s.psp]
  BY <1>11, RestoreIs DEF Place
<1> HIDE DEF x
<1>13. /\ x \in Machines /\ x.state = st1 /\ x.current = c /\ x.preempted = NULL
       /\ x.flag = FALSE /\ x.psp = "main" /\ x.saved \in [Place -> Stack]
       /\ x.stack_ptr = stack_ptr /\ x.sp = "program"
  <2>1. x \in Machines /\ x.sp = "program"
    BY <1>7, <1>11, <1>12 DEF SameBut
  <2>2. x.saved \in [Place -> Stack]
    BY <2>1 DEF Machines
  <2> QED
    BY <1>11, <1>12, <2>1, <2>2 DEF SameBut, Fields
<1>14. /\ state' = st1 /\ process_current' = c /\ process_preempted' = NULL
       /\ suspend_flag' = FALSE /\ process_stack_ptr' = "main"
       /\ saved' \in [Place -> Stack] /\ stack_ptr' = stack_ptr /\ sp' = "program"
  BY <1>1, <1>13 DEF Become
<1>15. /\ UNCHANGED << queueVars, process_list, next, stack, id, id_count, type,
                         needspoll, poll_requested >>
       /\ Listed' = Listed /\ IdInv' /\ (Booted => Booted')
       /\ \A st, q : Prog(st, q) => Prog(st, q)'
  BY <1>2, <1>3, HandlerKeeps
<1>16. Prog(state, process_current)' /\ Schedulable(process_current)'
  <2>1. Prog(st1, c)'
    BY <1>15, <1>21
  <2>2. Booted' /\ c \in Listed'
    BY <1>3, <1>4, <1>15 DEF Schedulable
  <2> QED
    BY <1>14, <2>1, <2>2 DEF Schedulable
<1>17. TypeInv'
  BY <1>3, <1>14, <1>15 DEF TypeInv
<1>18. StackTypes'
  BY <1>2, <1>3, <1>14 DEF StackTypes, Place, Stack, Pointer
<1>19. Off'
  BY <1>2, <1>14, <1>16 DEF Off
<1> QED
  BY <1>0, <1>14, <1>15, <1>17, <1>18, <1>19, <1>22 DEF SwitchInv

LEMMA SwitchStutter ==
  ASSUME SwitchInv, UNCHANGED dvars
  PROVE  SwitchInv'
<1>1. /\ UNCHANGED << queueVars, process_list, next, stack, needspoll, poll_requested,
                      state, process_current, entry, type, id, id_count, stack_ptr,
                      isr, process_stack_ptr, saved, sp, process_preempted,
                      suspend_flag, armed >>
  BY DEF dvars, vars, procVars, pollVars, taskVars, switchVars
<1>2. UnchangedByHandler /\ UNCHANGED pollVars
  BY <1>1 DEF UnchangedByHandler, pollVars
<1>3. /\ Listed' = Listed /\ IdInv' /\ (Booted => Booted')
      /\ \A st, q : Prog(st, q) => Prog(st, q)'
  BY <1>2, HandlerKeeps DEF SwitchInv
<1>4. PICK c, st0, q, st : /\ c = entry.current /\ st0 = entry.state
                           /\ q = process_current /\ st = state
  OBVIOUS
<1>5. entry'.current = c /\ entry'.state = st0 /\ process_current' = q /\ state' = st
  BY <1>1, <1>4
<1>6. CASE Off
  <2>1. Prog(st, q)'
    BY <1>3, <1>4, <1>6 DEF Off
  <2>2. armed' => Schedulable(process_current)'
    BY <1>1, <1>3, <1>6 DEF Off, Schedulable
  <2>3. Off'
    BY <1>1, <1>5, <1>6, <2>1, <2>2 DEF Off
  <2> QED
    BY <1>1, <1>3, <2>3 DEF SwitchInv, TypeInv, StackTypes
<1>7. CASE On
  <2>1. Prog(st0, c)'
    BY <1>3, <1>4, <1>7 DEF On
  <2>2. Schedulable(entry.current)'
    BY <1>1, <1>3, <1>7 DEF On, Schedulable
  <2>3. Interrupted(state, process_current, suspend_flag, entry.current, entry.state)'
    BY <1>1, <1>3, <1>7 DEF On, Interrupted
  <2>4. On'
    BY <1>1, <1>5, <1>7, <2>1, <2>2, <2>3 DEF On
  <2> QED
    BY <1>1, <1>3, <2>4 DEF SwitchInv, TypeInv, StackTypes
<1> QED
  BY <1>6, <1>7 DEF SwitchInv

LEMMA SwitchNext ==
  ASSUME Supported, SwitchInv, [DNext]_dvars
  PROVE  SwitchInv'
<1>1. Pollable \subseteq Proc
  BY ProcessAssumption
<1> QED
  BY <1>1, KernelInv, RealtimeInv, ArmInv, EnterInv, CallbackPollInv, CallbackArmInv,
     ExitInv, SwitchStutter DEF DNext

\* The kernel's and the handler's variables always have the values their C types
\* and uses call for, inside the handler too: no loop of the handler writes to a
\* process that is not one, and process_stack_ptr is one of the two buffers or
\* the null pointer (rtimer-arch.c, process.c).
THEOREM DSwitchTyping ==
  ASSUME Supported
  PROVE  DSpec => []DSwitchTypeOK
<1>1. SwitchInv => DSwitchTypeOK
  <2> SUFFICES ASSUME SwitchInv PROVE DSwitchTypeOK
    OBVIOUS
  <2>1. ProcessTypeOK
    <3>1. \E st, c : Prog(st, c)
      BY DEF SwitchInv, Off, On
    <3>2. PICK st, c : Prog(st, c)
      BY <3>1
    <3>3. stack \in Seq(Frame) /\ stack # << >>
      <4>1. stack \in Seq(GoodFrame) /\ stack # << >> /\ GoodFrame \subseteq Frame
        BY <3>2 DEF Prog, Well, GoodFrame
      <4> QED
        BY <4>1
    <3>4. state \in [Proc -> State] /\ process_current \in Pointer
      BY DEF SwitchInv, Off, On, Prog
    <3> QED
      BY <3>2, <3>3, <3>4 DEF Prog, QueueInv, ProcessTypeOK
  <2>2. id_count \in 0 .. IdSpan - 1
    <3>1. ListInv
      BY DEF SwitchInv, Off, On, Prog
    <3>2. Cardinality(Listed) + 1 \in Nat /\ IdSpan \in Nat \ {0, 1}
      BY <3>1, FiniteList, DSwitchAssumption
    <3>3. (Cardinality(Listed) + 1) % IdSpan \in 0 .. IdSpan - 1
      BY <3>2
    <3> QED
      BY <3>3 DEF SwitchInv, IdInv
  <2> QED
    BY <2>1, <2>2
    DEF SwitchInv, Off, On, IdInv, TypeInv, StackTypes, DSwitchTypeOK
<1> QED
  BY <1>1, SwitchInit, SwitchNext, PTL DEF DSpec

\* Whenever the handler is not running, the program is on its own stack: every
\* context switch to the realtime stack is undone, wherever the rtimer interrupts
\* the kernel and whatever the callback does (SAVE_CONTEXT, RESTORE_CONTEXT,
\* process_switch_called).
THEOREM ProgramOnItsStack ==
  ASSUME Supported
  PROVE  DSpec => []MainRestored
<1>1. SwitchInv => MainRestored
  BY DEF SwitchInv, Off, On, MainRestored
<1> QED
  BY <1>1, SwitchInit, SwitchNext, PTL DEF DSpec

\* While the callback runs, the current process is the realtime process, if one
\* is listed (process_switch_preempted).
THEOREM RealtimeCallback ==
  ASSUME Supported
  PROVE  DSpec => []CallbackIsRealtime
<1>1. SwitchInv => CallbackIsRealtime
  BY DEF SwitchInv, Off, On, Interrupted, CallbackIsRealtime
<1> QED
  BY <1>1, SwitchInit, SwitchNext, PTL DEF DSpec

\* The handler gives back the current process and every process state as it found
\* them, except that in a PROCESS_CONTEXT block of a process that is RUNNING it
\* releases the process that executes; there too it gives back all the rest
\* (process_suspend, process_resume, process_switch_called).
THEOREM PreemptionInvisible ==
  ASSUME Supported
  PROVE  DSpec => PreemptionTransparent
<1>1. ASSUME SwitchInv, [DNext]_dvars
      PROVE  [IsrExit => /\ process_current' = entry.current
                         /\ state' = IF MistakenForIdle THEN Released(entry.state)
                                     ELSE entry.state]_dvars
  BY <1>1, ExitInv
<1> QED
  BY <1>1, SwitchInit, SwitchNext, PTL DEF DSpec, PreemptionTransparent


=============================================================================
