----------------------------- MODULE SerialLine -----------------------------
(***************************************************************************)
(* Serial line input (core/dev/serial-line.c): the interrupt handler puts  *)
(* characters into a Ringbuf and polls the process; the process gathers    *)
(* them in buf, broadcasts a line by a pointer to buf, and tries to hold   *)
(* still, by an event posted to itself, until every process has seen it.   *)
(* The kernel is reduced to what the process can tell of it: the order of  *)
(* polls, queued events and the receivers of a broadcast.                  *)
(*                                                                         *)
(* A character is the pair of its line's number and its place in the line, *)
(* so that buf shows where each part of a delivered line comes from.       *)
(***************************************************************************)
EXTENDS Ringbuf

CONSTANTS
  END,         \* the end-of-line character
  NUL,         \* the terminator written into buf
  App,         \* the processes that listen for lines
  List,        \* the process list: a sequence of App and "serial"
  NUMEVENTS,   \* PROCESS_CONF_NUMEVENTS
  MaxLines,    \* bound: lines that arrive
  MaxLineLen,  \* bound: characters of a line
  MaxOther     \* bound: events other processes post

\* A character is neither the end of a line nor its terminator, and the process
\* list holds each process once.
ASSUME SerialAssumption ==
  /\ Byte = ((1 .. MaxLines) \X (1 .. MaxLineLen)) \cup {END}
  /\ END \notin (1 .. MaxLines) \X (1 .. MaxLineLen)
  /\ NUL \notin Byte
  /\ List \in Seq(App \cup {"serial"}) /\ "serial" \notin App
  /\ \A p \in App \cup {"serial"} : \E i \in DOMAIN List : List[i] = p
  /\ \A i, j \in DOMAIN List : List[i] = List[j] => i = j
  /\ MaxLines \in Nat \ {0}
  /\ {NUMEVENTS, MaxLineLen, MaxOther} \subseteq Nat

VARIABLES
  overflow,  \* serial_line_input_byte(): ignore until END
  poll,      \* needspoll of serial_line_process
  pc,        \* "kernel", or the place in serial_line_process
  wait,      \* what the process waits for: "any" event or "CONTINUE"
  buf, ptr,  \* the line being gathered
  queue,     \* the kernel's event queue: "line", "CONTINUE" or "other"
  receiver,  \* place in List of the next receiver of a broadcast, 0 for none
  heard,     \* ghost: what each listener found in buf
  held,      \* ghost: no line was broadcast without CONTINUE behind it
  line, col, \* environment: number of the current input line, and its length
  others     \* counts the events of other processes

kernelVars == << poll, queue, receiver, others >>
lineVars == << wait, buf, ptr, heard, held >>
inputVars == << overflow, line, col >>
vars == << ringVars, pc, kernelVars, lineVars, inputVars >>

Init ==
  /\ ringbuf_init
  /\ overflow = FALSE /\ poll = FALSE
  /\ pc = "kernel" /\ wait = "any"
  /\ buf = [i \in Cell |-> NUL] /\ ptr = 0
  /\ queue = << >> /\ receiver = 0
  /\ heard = [a \in App |-> << >>] /\ held = TRUE
  /\ line = 1 /\ col = 0 /\ others = 0

-----------------------------------------------------------------------------
\* Mutant: one character after an overflow is enough to go on.
ReceiveMutant(b) ==
  \/ PutOk(b) /\ overflow' = FALSE
  \/ PutFull /\ overflow' = TRUE

\* What serial_line_input_byte() does with the ring.
Receive(b) ==
  \/ ~overflow /\ PutOk(b) /\ overflow' = FALSE
  \/ ~overflow /\ PutFull /\ overflow' = TRUE
  \/ overflow /\ b = END /\ PutOk(b) /\ overflow' = FALSE
  \/ overflow /\ b = END /\ PutFull /\ overflow' = TRUE
  \/ overflow /\ b # END /\ UNCHANGED << ringVars, overflow >>

\* Mutant: only the end of a line wakes the process.
WakeMutant(b) == poll' = (poll \/ b = END)

Wake(b) == poll' = TRUE

\* serial_line_input_byte() with a character, and with the end of a line.
InputChar ==
  /\ line <= MaxLines /\ col < MaxLineLen
  /\ Receive(<< line, col + 1 >>)
  /\ col' = col + 1
  /\ Wake(<< line, col + 1 >>)
  /\ UNCHANGED << pc, queue, receiver, others, lineVars, line >>

InputEnd ==
  /\ line <= MaxLines
  /\ Receive(END)
  /\ line' = line + 1 /\ col' = 0
  /\ Wake(END)
  /\ UNCHANGED << pc, queue, receiver, others, lineVars >>

-----------------------------------------------------------------------------
\* serial_line_process is called with an event; it goes on when it waited for it.
Call(ev) ==
  IF wait = "any" \/ ev = wait
    THEN /\ pc' = "get"
         /\ wait' = "any"
         /\ ptr' = IF wait = "CONTINUE" THEN 0 ELSE ptr
    ELSE UNCHANGED << pc, wait, ptr >>

\* do_poll(), which goes before the next event and before the next receiver.
KernelPoll ==
  /\ pc = "kernel" /\ poll
  /\ poll' = FALSE
  /\ Call("POLL")
  /\ UNCHANGED << ringVars, queue, receiver, others, buf, heard, held, inputVars >>

\* do_event() with an event for one process.
KernelEvent ==
  /\ pc = "kernel" /\ ~poll /\ receiver = 0
  /\ queue # << >> /\ Head(queue) # "line"
  /\ queue' = Tail(queue)
  /\ IF Head(queue) = "CONTINUE" THEN Call("CONTINUE")
                                 ELSE UNCHANGED << pc, wait, ptr >>
  /\ UNCHANGED << ringVars, poll, receiver, others, buf, heard, held, inputVars >>

KernelBroadcast ==
  /\ pc = "kernel" /\ ~poll /\ receiver = 0
  /\ queue # << >> /\ Head(queue) = "line"
  /\ queue' = Tail(queue)
  /\ receiver' = 1
  /\ UNCHANGED << ringVars, pc, poll, others, lineVars, inputVars >>

\* The string a listener finds at buf.
String ==
  LET stop == CHOOSE i \in Cell : /\ buf[i] = NUL
                                  /\ \A j \in 0 .. i - 1 : buf[j] # NUL
  IN  [i \in 1 .. stop |-> buf[i - 1]]

\* The next receiver of a broadcast is called.  serial_line_process receives its
\* own event too.
KernelDeliver ==
  /\ pc = "kernel" /\ ~poll /\ receiver # 0
  /\ receiver' = IF receiver = Len(List) THEN 0 ELSE receiver + 1
  /\ \/ /\ List[receiver] = "serial"
        /\ Call("line")
        /\ UNCHANGED heard
     \/ /\ List[receiver] # "serial"
        /\ heard' = [heard EXCEPT ![List[receiver]] = Append(@, String)]
        /\ UNCHANGED << pc, wait, ptr >>
  /\ UNCHANGED << ringVars, poll, queue, others, buf, held, inputVars >>

\* process_post() of another process, called by the kernel between these calls.
OtherPost ==
  /\ pc = "kernel" /\ others < MaxOther
  /\ others' = others + 1
  /\ queue' = IF Len(queue) < NUMEVENTS THEN Append(queue, "other") ELSE queue
  /\ UNCHANGED << ringVars, pc, poll, receiver, lineVars, inputVars >>

-----------------------------------------------------------------------------
\* serial_line_process: ringbuf_get(), which interrupts cut into.
ThreadGet ==
  /\ pc = "get"
  /\ \/ GetTest /\ UNCHANGED pc
     \/ GetNothing /\ pc' = "kernel"
     \/ GetRead /\ UNCHANGED pc
     \/ GetAdvance /\ pc' = "got"
  /\ UNCHANGED << kernelVars, lineVars, inputVars >>

\* Mutant: buf is filled without looking at its end.
ThreadStoreMutant ==
  /\ pc = "got" /\ c # END
  /\ buf' = [i \in Cell |-> IF i = ptr THEN c ELSE buf[i]]
  /\ ptr' = ptr + 1
  /\ pc' = "get"
  /\ UNCHANGED << ringVars, kernelVars, wait, heard, held, inputVars >>

\* A character goes to buf unless buf is full.
ThreadStore ==
  /\ pc = "got" /\ c # END
  /\ IF ptr < Size - 1
       THEN buf' = [buf EXCEPT ![ptr] = c] /\ ptr' = ptr + 1
       ELSE UNCHANGED << buf, ptr >>
  /\ pc' = "get"
  /\ UNCHANGED << ringVars, kernelVars, wait, heard, held, inputVars >>

\* The line is terminated and broadcast, and the process posts itself CONTINUE;
\* each of the two posts may find the queue full.
Posted(q, e) == IF Len(q) < NUMEVENTS THEN Append(q, e) ELSE q

\* Mutant: the process goes on without waiting for the listeners.
ThreadLineMutant ==
  /\ pc = "got" /\ c = END
  /\ buf' = [buf EXCEPT ![ptr] = NUL]
  /\ queue' = Posted(queue, "line")
  /\ ptr' = 0 /\ pc' = "get"
  /\ UNCHANGED << ringVars, wait, poll, receiver, others, heard, held, inputVars >>

ThreadLine ==
  /\ pc = "got" /\ c = END
  /\ buf' = [buf EXCEPT ![ptr] = NUL]
  /\ queue' = Posted(Posted(queue, "line"), "CONTINUE")
  /\ IF Len(Posted(queue, "line")) < NUMEVENTS
       THEN /\ wait' = "CONTINUE" /\ pc' = "kernel"
            /\ ptr' = ptr + 1
            /\ UNCHANGED held
       ELSE /\ ptr' = 0 /\ pc' = "get"
            /\ held' = (held /\ Len(queue) = NUMEVENTS)
            /\ UNCHANGED wait
  /\ UNCHANGED << ringVars, poll, receiver, others, heard, inputVars >>

Kernel == KernelPoll \/ KernelEvent \/ KernelBroadcast \/ KernelDeliver
Thread == ThreadGet \/ ThreadStore \/ ThreadLine

Next == InputChar \/ InputEnd \/ OtherPost \/ Kernel \/ Thread

\* The processor never idles while the kernel or the process has something to do.
Spec == Init /\ [][Next]_vars /\ WF_vars(Kernel \/ Thread)

-----------------------------------------------------------------------------
SerialTypeOK ==
  /\ RingTypeOK
  /\ overflow \in BOOLEAN /\ poll \in BOOLEAN /\ held \in BOOLEAN
  /\ pc \in {"kernel", "get", "got"}
  /\ wait \in {"any", "CONTINUE"}
  /\ buf \in [Cell -> Byte \cup {NUL}]
  /\ ptr \in 0 .. Size
  /\ queue \in Seq({"line", "CONTINUE", "other"}) /\ Len(queue) <= NUMEVENTS
  /\ receiver \in 0 .. Len(List)

Prefix(s, n) == s = [i \in 1 .. Len(s) |-> << n, i >>]

\* What a listener hears is the beginning of one line that was sent: characters
\* dropped in an overflow, or for want of room in buf, are dropped up to the end
\* of a line, and lines are never run together (serial_line_input_byte,
\* serial_line_process) -- as long as the process could always hold still.
LinesIntact ==
  held => \A a \in App : \A k \in DOMAIN heard[a] :
            \E n \in 1 .. MaxLines : Prefix(heard[a][k], n)

\* Every listener hears the same lines, in the order in which they were sent and
\* none twice: buf does not change while one of them is still to be called, polls
\* and events between two receivers notwithstanding -- as long as the process could
\* always hold still (serial_line_process).
SameLines ==
  held =>
    /\ \A a, b \in App : \A k \in DOMAIN heard[a] \cap DOMAIN heard[b] :
         heard[a][k] = heard[b][k]
    /\ \A a \in App : \A k, m \in DOMAIN heard[a] :
         (k < m /\ heard[a][k] # << >> /\ heard[a][m] # << >>)
           => heard[a][k][1][1] < heard[a][m][1][1]

\* A character in the ring is fetched, even if the poll that announced it was
\* delivered while the process waited for something else (serial_line_input_byte,
\* serial_line_process).
InputServed == (ringbuf_elements > 0) ~> (ringbuf_elements = 0)
=============================================================================
