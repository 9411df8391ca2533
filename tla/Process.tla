------------------------------ MODULE Process ------------------------------
(***************************************************************************)
(* The Contiki process kernel (core/sys/process.c) under the main loop of  *)
(* platform/micaz/contiki-micaz-main.c.                                    *)
(*                                                                         *)
(* Everything the kernel runs outside interrupts is one C call stack, the  *)
(* variable stack: element 1 is main(), the last element is the function   *)
(* that is executing.  A frame's field "at" is the next statement of that  *)
(* function that reads or writes state an interrupt, or the code it calls, *)
(* can see; one action executes one such statement, and an interrupt may   *)
(* come between any two.                                                   *)
(*                                                                         *)
(* A process's thread is arbitrary code: each time it is activated it      *)
(* makes at most MaxOps calls to the kernel, of the kinds in Ops, and then *)
(* returns.  A PROCESS_CONTEXT block is a frame of its own on the thread's *)
(* frame: code that calls the kernel in the name of another process.       *)
(*                                                                         *)
(* The static variables of do_event() are fields of its frame, because     *)
(* only main() calls it.  Event data, names, the printed id and the        *)
(* protothread's own position are left out.                                *)
(***************************************************************************)
EXTENDS EventQueue, FiniteSets

CONSTANTS
  Proc,        \* the struct process objects
  NULL,        \* the null pointer, also PROCESS_BROADCAST
  Autostart,   \* the processes main() starts, in order
  Pollable,    \* the processes that interrupt handlers poll
  Events,      \* the events threads post, of "INIT", "MSG", "EXIT"
  Ops,         \* the kernel calls threads make
  MaxOps,      \* bound: kernel calls in one activation of a thread, and in
               \* one PROCESS_CONTEXT block
  MaxDepth     \* bound: no nesting call is made from a deeper stack

ASSUME ProcessAssumption ==
  /\ IsFiniteSet(Proc)
  /\ NULL \notin Proc
  /\ Autostart \in Seq(Proc)
  /\ Pollable \subseteq Proc
  /\ Events \subseteq {"INIT", "MSG", "EXIT"}
  /\ Message \subseteq [ev : Events, p : Proc \cup {NULL}]
  /\ MaxOps \in Nat

VARIABLES
  process_list,     \* head of the list of processes
  next,             \* p->next
  state,            \* p->state
  needspoll,        \* p->needspoll
  process_current,
  poll_requested,
  stack

procVars == << process_list, next, state >>
pollVars == << needspoll, poll_requested >>
vars == << queueVars, procVars, pollVars, process_current, stack >>

Pointer == Proc \cup {NULL}

State == {"NONE", "RUNNING", "CALLED", "SUSPENDED"}

\* Mutant: call_process() only refuses to enter a thread twice.
CallableMutant == State \ {"CALLED"}

\* The states with bit PROCESS_STATE_RUNNING set, those call_process() accepts.
Callable == {"RUNNING", "SUSPENDED"}

-----------------------------------------------------------------------------
(***************************************************************************)
(* The list.  Walk[k] is the pointer after following k links.              *)
(***************************************************************************)
Walk[k \in 0 .. Cardinality(Proc)] ==
  IF k = 0 THEN process_list
  ELSE IF Walk[k - 1] = NULL THEN NULL ELSE next[Walk[k - 1]]

\* The processes the loops over process_list meet.
Listed == {Walk[k] : k \in 0 .. Cardinality(Proc)} \ {NULL}

-----------------------------------------------------------------------------
(***************************************************************************)
(* Stack frames.                                                           *)
(*   main         boot, run, event                                         *)
(*   do_poll      poll, scan, ready, claim, pollnext       (cursor q)      *)
(*   do_event     bpoll, bcall, bnext                      (cursor q, ev)  *)
(*   call_process call, mark, calling, done, exiting       (p, ev)         *)
(*   a thread     thread                                   (p, ev, left)   *)
(*   a PROCESS_CONTEXT block  context               (p, ev, left, saved)   *)
(*   exit_process exit, tell, tellnext, unlink   (p, from, cursor q, saved)*)
(*   process_post_synch  synch                             (saved)         *)
(***************************************************************************)
Labels ==
  {"boot", "run", "event", "poll", "scan", "ready", "claim", "pollnext",
   "bpoll", "bcall", "bnext", "call", "mark", "calling", "done", "exiting",
   "thread", "context", "exit", "tell", "tellnext", "unlink", "synch"}

EventNumbers == {"none", "INIT", "MSG", "POLL", "EXIT", "EXITED"}

Frame ==
  [at : Labels, p : Pointer, q : Pointer, from : Pointer, saved : Pointer,
   ev : EventNumbers, left : Nat]

Blank ==
  [at |-> "boot", p |-> NULL, q |-> NULL, from |-> NULL, saved |-> NULL,
   ev |-> "none", left |-> 0]

CallFrame(p, ev) == [Blank EXCEPT !.at = "call", !.p = p, !.ev = ev]

\* exit_process(p, fromprocess), with old_current saved.
ExitFrame(p, from) ==
  [Blank EXCEPT !.at = "exit", !.p = p, !.from = from, !.saved = process_current]

SynchFrame == [Blank EXCEPT !.at = "synch", !.saved = process_current]

ThreadFrame(p, ev) ==
  [Blank EXCEPT !.at = "thread", !.p = p, !.ev = ev, !.left = MaxOps]

Top == stack[Len(stack)]

\* PROCESS_CONTEXT_BEGIN(p): PROCESS_CURRENT() is kept in tmp_current.
ContextFrame(p) ==
  [ThreadFrame(p, Top.ev) EXCEPT !.at = "context", !.saved = process_current]

At(l) == Top.at = l

\* The stack with its top frame replaced, and without its top frame.
Replaced(f) == [stack EXCEPT ![Len(stack)] = f]
Popped == SubSeq(stack, 1, Len(stack) - 1)

Goto(l) == Replaced([Top EXCEPT !.at = l])

-----------------------------------------------------------------------------
Init ==
  /\ QueueInit
  /\ process_list = NULL
  /\ next = [p \in Proc |-> NULL]
  /\ state = [p \in Proc |-> "NONE"]
  /\ needspoll = [p \in Proc |-> FALSE]
  /\ process_current = NULL
  /\ poll_requested = FALSE
  /\ stack = << Blank >>

-----------------------------------------------------------------------------
(***************************************************************************)
(* The calls a thread, main() or an interrupt handler makes.               *)
(***************************************************************************)
\* Mutant: the process is marked, the kernel is not told.
process_pollMutant(p) ==
  IF state[p] \in {"RUNNING", "CALLED"}
  THEN /\ needspoll' = [needspoll EXCEPT ![p] = TRUE]
       /\ UNCHANGED poll_requested
  ELSE UNCHANGED pollVars

process_poll(p) ==
  IF state[p] \in {"RUNNING", "CALLED"}
  THEN /\ needspoll' = [needspoll EXCEPT ![p] = TRUE]
       /\ poll_requested' = TRUE
  ELSE UNCHANGED pollVars

process_post(m) == PostOk(m) \/ PostFull

\* Mutant: no search of the list for a process that runs already.
process_startMutant(p, s) ==
  /\ next' = [next EXCEPT ![p] = process_list]
  /\ process_list' = p
  /\ state' = [state EXCEPT ![p] = "RUNNING"]
  /\ stack' = Append(Append(s, SynchFrame), CallFrame(p, "INIT"))

\* process_start(p), called from the stack s: link p and post it INIT
\* synchronously, unless it is on the list already.
process_start(p, s) ==
  IF p \in Listed
  THEN stack' = s /\ UNCHANGED procVars
  ELSE /\ next' = [next EXCEPT ![p] = process_list]
       /\ process_list' = p
       /\ state' = [state EXCEPT ![p] = "RUNNING"]
       /\ stack' = Append(Append(s, SynchFrame), CallFrame(p, "INIT"))

-----------------------------------------------------------------------------
(***************************************************************************)
(* main(): start the processes, then process_run() for ever.               *)
(***************************************************************************)
BootStart ==
  /\ At("boot") /\ Top.left < Len(Autostart)
  /\ process_start(Autostart[Top.left + 1],
                   Replaced([Top EXCEPT !.left = @ + 1]))
  /\ UNCHANGED << queueVars, pollVars, process_current >>

BootDone ==
  /\ At("boot") /\ Top.left >= Len(Autostart)
  /\ stack' = Goto("run")
  /\ UNCHANGED << queueVars, procVars, pollVars, process_current >>

\* Mutant: events wait until no process needs polling.
RunPollMutant ==
  /\ At("run")
  /\ stack' = IF poll_requested
              THEN Append(stack, [Blank EXCEPT !.at = "poll"])
              ELSE Goto("event")
  /\ UNCHANGED << queueVars, procVars, pollVars, process_current >>

RunPoll ==
  /\ At("run")
  /\ stack' = IF poll_requested
              THEN Append(Goto("event"), [Blank EXCEPT !.at = "poll"])
              ELSE Goto("event")
  /\ UNCHANGED << queueVars, procVars, pollVars, process_current >>

RunIdle ==
  /\ At("event") /\ nevents = 0
  /\ stack' = Goto("run")
  /\ UNCHANGED << queueVars, procVars, pollVars, process_current >>

\* do_event() with an event for one process; INIT revives the receiver.
RunUnicast ==
  /\ At("event") /\ TakeEvent
  /\ NextMessage.p # NULL
  /\ state' = IF NextMessage.ev = "INIT"
              THEN [state EXCEPT ![NextMessage.p] = "RUNNING"]
              ELSE state
  /\ stack' = Append(Goto("run"), CallFrame(NextMessage.p, NextMessage.ev))
  /\ UNCHANGED << process_list, next, pollVars, process_current >>

RunBroadcast ==
  /\ At("event") /\ TakeEvent
  /\ NextMessage.p = NULL
  /\ stack' = Append(Goto("run"),
                     [Blank EXCEPT !.at = "bpoll", !.q = process_list,
                                   !.ev = NextMessage.ev])
  /\ UNCHANGED << procVars, pollVars, process_current >>

-----------------------------------------------------------------------------
(***************************************************************************)
(* do_event(), the loop over a broadcast's receivers.                      *)
(***************************************************************************)
BroadcastPoll ==
  /\ At("bpoll")
  /\ stack' = IF Top.q = NULL THEN Popped
              ELSE IF poll_requested
              THEN Append(Goto("bcall"), [Blank EXCEPT !.at = "poll"])
              ELSE Goto("bcall")
  /\ UNCHANGED << queueVars, procVars, pollVars, process_current >>

BroadcastCall ==
  /\ At("bcall")
  /\ stack' = Append(Goto("bnext"), CallFrame(Top.q, Top.ev))
  /\ UNCHANGED << queueVars, procVars, pollVars, process_current >>

\* Mutant: a cursor on a process that has left the list goes back to its head.
BroadcastNextMutant ==
  /\ At("bnext")
  /\ stack' = Replaced([Top EXCEPT !.at = "bpoll",
                         !.q = IF @ \in Listed THEN next[@] ELSE process_list])
  /\ UNCHANGED << queueVars, procVars, pollVars, process_current >>

BroadcastNext ==
  /\ At("bnext")
  /\ stack' = Replaced([Top EXCEPT !.at = "bpoll", !.q = next[Top.q]])
  /\ UNCHANGED << queueVars, procVars, pollVars, process_current >>

-----------------------------------------------------------------------------
(***************************************************************************)
(* do_poll().                                                              *)
(***************************************************************************)
PollBegin ==
  /\ At("poll")
  /\ poll_requested' = FALSE
  /\ stack' = Replaced([Top EXCEPT !.at = "scan", !.q = process_list])
  /\ UNCHANGED << queueVars, procVars, needspoll, process_current >>

\* Mutant: the flag is cleared once more when the scan ends.
PollScanMutant ==
  /\ At("scan")
  /\ stack' = IF Top.q = NULL THEN Popped
              ELSE IF needspoll[Top.q] THEN Goto("ready") ELSE Goto("pollnext")
  /\ poll_requested' = (poll_requested /\ Top.q # NULL)
  /\ UNCHANGED << queueVars, procVars, needspoll, process_current >>

PollScan ==
  /\ At("scan")
  /\ stack' = IF Top.q = NULL THEN Popped
              ELSE IF needspoll[Top.q] THEN Goto("ready") ELSE Goto("pollnext")
  /\ UNCHANGED << queueVars, procVars, pollVars, process_current >>

PollReady ==
  /\ At("ready")
  /\ state' = [state EXCEPT ![Top.q] = "RUNNING"]
  /\ stack' = Goto("claim")
  /\ UNCHANGED << queueVars, process_list, next, pollVars, process_current >>

PollClaim ==
  /\ At("claim")
  /\ needspoll' = [needspoll EXCEPT ![Top.q] = FALSE]
  /\ stack' = Append(Goto("pollnext"), CallFrame(Top.q, "POLL"))
  /\ UNCHANGED << queueVars, procVars, poll_requested, process_current >>

PollNext ==
  /\ At("pollnext")
  /\ stack' = Replaced([Top EXCEPT !.at = "scan", !.q = next[Top.q]])
  /\ UNCHANGED << queueVars, procVars, pollVars, process_current >>

-----------------------------------------------------------------------------
(***************************************************************************)
(* call_process() and process_post_synch().                                *)
(***************************************************************************)
CallEnter ==
  /\ At("call")
  /\ IF state[Top.p] \in Callable
     THEN process_current' = Top.p /\ stack' = Goto("mark")
     ELSE stack' = Popped /\ UNCHANGED process_current
  /\ UNCHANGED << queueVars, procVars, pollVars >>

\* Mutant: the process is not marked as called.
CallThreadMutant ==
  /\ At("mark")
  /\ stack' = Append(Goto("calling"), ThreadFrame(Top.p, Top.ev))
  /\ UNCHANGED << queueVars, procVars, pollVars, process_current >>

CallThread ==
  /\ At("mark")
  /\ state' = [state EXCEPT ![Top.p] = "CALLED"]
  /\ stack' = Append(Goto("calling"), ThreadFrame(Top.p, Top.ev))
  /\ UNCHANGED << queueVars, process_list, next, pollVars, process_current >>

CallDone ==
  /\ At("done")
  /\ state' = [state EXCEPT ![Top.p] = "RUNNING"]
  /\ stack' = Popped
  /\ UNCHANGED << queueVars, process_list, next, pollVars, process_current >>

CallExit ==
  /\ At("exiting")
  /\ stack' = Replaced(ExitFrame(Top.p, Top.p))
  /\ UNCHANGED << queueVars, procVars, pollVars, process_current >>

SynchReturn ==
  /\ At("synch")
  /\ process_current' = Top.saved
  /\ stack' = Popped
  /\ UNCHANGED << queueVars, procVars, pollVars >>

-----------------------------------------------------------------------------
(***************************************************************************)
(* exit_process(p, fromprocess).                                           *)
(***************************************************************************)
\* Mutant: the exiting process keeps its state.
ExitBeginMutant ==
  /\ At("exit")
  /\ stack' = IF Top.p \notin Listed THEN Popped
              ELSE Replaced([Top EXCEPT !.at = "tell", !.q = process_list])
  /\ UNCHANGED << queueVars, procVars, pollVars, process_current >>

ExitBegin ==
  /\ At("exit")
  /\ \/ /\ Top.p \notin Listed
        /\ stack' = Popped
        /\ UNCHANGED state
     \/ /\ Top.p \in Listed /\ state[Top.p] # "NONE"
        /\ state' = [state EXCEPT ![Top.p] = "NONE"]
        /\ stack' = Replaced([Top EXCEPT !.at = "tell", !.q = process_list])
     \/ /\ Top.p \in Listed /\ state[Top.p] = "NONE"
        /\ stack' = Goto("unlink")
        /\ UNCHANGED state
  /\ UNCHANGED << queueVars, process_list, next, pollVars, process_current >>

\* Tell the other processes; q->next is read after q has handled EXITED.
ExitTell ==
  /\ At("tell") /\ Top.q # NULL
  /\ stack' = IF Top.q = Top.p THEN Goto("tellnext")
              ELSE Append(Goto("tellnext"), CallFrame(Top.q, "EXITED"))
  /\ UNCHANGED << queueVars, procVars, pollVars, process_current >>

ExitTellNext ==
  /\ At("tellnext")
  /\ stack' = Replaced([Top EXCEPT !.at = "tell", !.q = next[Top.q]])
  /\ UNCHANGED << queueVars, procVars, pollVars, process_current >>

\* The exiting process itself gets EXIT, unless it called for its own exit.
ExitThread ==
  /\ At("tell") /\ Top.q = NULL
  /\ IF Top.p # Top.from
     THEN /\ process_current' = Top.p
          /\ stack' = Append(Goto("unlink"), ThreadFrame(Top.p, "EXIT"))
     ELSE stack' = Goto("unlink") /\ UNCHANGED process_current
  /\ UNCHANGED << queueVars, procVars, pollVars >>

\* Mutant: old_current is not restored.
ExitUnlinkMutant ==
  /\ At("unlink")
  /\ IF Top.p = process_list
     THEN process_list' = next[Top.p] /\ UNCHANGED next
     ELSE /\ next' = [q \in Proc |-> IF q \in Listed /\ next[q] = Top.p
                                   THEN next[Top.p] ELSE next[q]]
          /\ UNCHANGED process_list
  /\ stack' = Popped
  /\ UNCHANGED << queueVars, state, pollVars, process_current >>

ExitUnlink ==
  /\ At("unlink")
  /\ IF Top.p = process_list
     THEN process_list' = next[Top.p] /\ UNCHANGED next
     ELSE /\ next' = [q \in Proc |-> IF q \in Listed /\ next[q] = Top.p
                                   THEN next[Top.p] ELSE next[q]]
          /\ UNCHANGED process_list
  /\ process_current' = Top.saved
  /\ stack' = Popped
  /\ UNCHANGED << queueVars, state, pollVars >>

-----------------------------------------------------------------------------
(***************************************************************************)
(* A thread: one kernel call, or the return to the kernel.                 *)
(***************************************************************************)
Spent == Replaced([Top EXCEPT !.left = @ - 1])

\* The code of a thread executes, in a PROCESS_CONTEXT block or outside.
Executing == Top.at \in {"thread", "context"}

MayCall(op) == Executing /\ Top.left > 0 /\ op \in Ops

MayNest(op) == MayCall(op) /\ Len(stack) < MaxDepth

ThreadPost(m) ==
  /\ MayCall("post") /\ process_post(m)
  /\ stack' = Spent
  /\ UNCHANGED << procVars, pollVars, process_current >>

ThreadPoll(p) ==
  /\ MayCall("poll") /\ process_poll(p)
  /\ stack' = Spent
  /\ UNCHANGED << queueVars, procVars, process_current >>

ThreadSynch(p) ==
  /\ MayNest("synch")
  /\ stack' = Append(Append(Spent, SynchFrame), CallFrame(p, "MSG"))
  /\ UNCHANGED << queueVars, procVars, pollVars, process_current >>

ThreadStart(p) ==
  /\ MayNest("start") /\ process_start(p, Spent)
  /\ UNCHANGED << queueVars, pollVars, process_current >>

\* process_exit(p)
ThreadExit(p) ==
  /\ MayNest("exit")
  /\ stack' = Append(Spent, ExitFrame(p, process_current))
  /\ UNCHANGED << queueVars, procVars, pollVars, process_current >>

\* PROCESS_CONTEXT_BEGIN(p): the code that follows runs in the name of p.
ContextBegin(p) ==
  /\ MayNest("context")
  /\ process_current' = p
  /\ stack' = Append(Spent, ContextFrame(p))
  /\ UNCHANGED << queueVars, procVars, pollVars >>

\* PROCESS_CONTEXT_END()
ContextEnd ==
  /\ At("context")
  /\ process_current' = Top.saved
  /\ stack' = Popped
  /\ UNCHANGED << queueVars, procVars, pollVars >>

\* The thread returns to call_process(), or to exit_process(), which ignores
\* the result; "end" lets a thread finish (PT_ENDED, PT_EXITED).
ThreadReturn(ended) ==
  /\ At("thread") /\ (ended => "end" \in Ops)
  /\ LET caller == stack[Len(stack) - 1]
         l == IF caller.at # "calling" THEN caller.at
              ELSE IF ended \/ Top.ev = "EXIT" THEN "exiting" ELSE "done"
     IN  stack' = [Popped EXCEPT ![Len(stack) - 1] = [caller EXCEPT !.at = l]]
  /\ UNCHANGED << queueVars, procVars, pollVars, process_current >>

\* An interrupt handler polls a process.
InterruptPoll(p) ==
  /\ process_poll(p)
  /\ UNCHANGED << queueVars, procVars, process_current, stack >>

-----------------------------------------------------------------------------
MainStep ==
  BootStart \/ BootDone \/ RunPoll \/ RunIdle \/ RunUnicast \/ RunBroadcast

EventStep == BroadcastPoll \/ BroadcastCall \/ BroadcastNext

PollStep == PollBegin \/ PollScan \/ PollReady \/ PollClaim \/ PollNext

CallStep == CallEnter \/ CallThread \/ CallDone \/ CallExit \/ SynchReturn

ExitStep == ExitBegin \/ ExitTell \/ ExitTellNext \/ ExitThread \/ ExitUnlink

ThreadStep ==
  \/ \E m \in Message : ThreadPost(m)
  \/ \E p \in Proc : ThreadPoll(p)
  \/ \E p \in Proc : ThreadSynch(p)
  \/ \E p \in Proc : ThreadStart(p)
  \/ \E p \in Proc : ThreadExit(p)
  \/ \E p \in Proc : ContextBegin(p)
  \/ ContextEnd
  \/ \E ended \in BOOLEAN : ThreadReturn(ended)

KernelStep ==
  MainStep \/ EventStep \/ PollStep \/ CallStep \/ ExitStep \/ ThreadStep

Next == KernelStep \/ \E p \in Pollable : InterruptPoll(p)

\* The processor keeps executing between interrupts.
Spec == Init /\ [][Next]_vars /\ WF_vars(KernelStep)

-----------------------------------------------------------------------------
ProcessTypeOK ==
  /\ QueueTypeOK
  /\ process_list \in Pointer
  /\ next \in [Proc -> Pointer]
  /\ state \in [Proc -> State]
  /\ needspoll \in [Proc -> BOOLEAN]
  /\ process_current \in Pointer
  /\ poll_requested \in BOOLEAN
  /\ stack \in Seq(Frame) /\ stack # << >>

\* PROCESS_CURRENT() read by a thread is the process the thread belongs to, and
\* in a PROCESS_CONTEXT block the block's process, however deeply
\* process_post_synch(), process_start(), process_exit() and blocks were nested
\* before (call_process, process_post_synch, exit_process, process.h:462).
CurrentIsRunner == Executing => process_current = Top.p

\* The list of processes always ends, so that the kernel's loops over it do
\* (process_start, exit_process).
ListEnds == Walk[Cardinality(Proc)] = NULL

\* p is still ahead of the cursor of the running do_poll().
Ahead(p, q) ==
  \E i, j \in 0 .. Cardinality(Proc) : i <= j /\ Walk[i] = q /\ Walk[j] = p

\* A poll request is never forgotten: while a listed process needs polling,
\* the flag is up or the running do_poll() has still to reach the process
\* (process_poll from an interrupt, do_poll).
NoLostPoll ==
  \A p \in Listed : needspoll[p] =>
    \/ poll_requested
    \/ \E i \in DOMAIN stack :
         \/ stack[i].at \in {"scan", "ready", "claim"} /\ Ahead(p, stack[i].q)
         \/ /\ stack[i].at = "pollnext" /\ stack[i].q # p
            /\ Ahead(p, stack[i].q)

\* A thread is never entered while another activation of it is unfinished
\* (the PROCESS_STATE_CALLED guard of call_process): its protothread position
\* would be overwritten.
OneActivation ==
  \A i, j \in DOMAIN stack :
    stack[i].at = "thread" /\ stack[j].at = "thread" /\ stack[i].p = stack[j].p
      => i = j

\* In the main loop, process_is_running() tells which processes are on the
\* list, the ones events and polls can reach (process_start, exit_process).
RunningIsListed ==
  Len(stack) = 1 => \A p \in Proc : state[p] # "NONE" <=> p \in Listed

\* call_process() only enters processes that are on the list.
CalledIsListed ==
  [][CallThread => Top.p \in Listed]_vars

\* Every poll of a listed process is answered (do_poll, process_run).
PollServed ==
  \A p \in Proc :
    (p \in Listed /\ needspoll[p]) ~> (p \notin Listed \/ ~needspoll[p])

\* A full event queue always gets room again (process_run, do_event).
QueueDrains == QueueFull ~> ~QueueFull

\* The loops over the list end and the kernel gets back to its main loop, also
\* when processes are started and end while their neighbours are being called,
\* unless polls never cease: those that do_event() serves between two receivers
\* can put its cursor back to the head of the list again and again (do_event,
\* do_poll, exit_process).  For programs that end processes but do not call
\* process_exit(): from handlers of EXITED it can keep the announcements going.
BackToMain == []<>(Len(stack) = 1) \/ []<>poll_requested
=============================================================================
