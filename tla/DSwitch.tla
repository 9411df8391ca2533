------------------------------ MODULE DSwitch ------------------------------
(***************************************************************************)
(* D-Switch, the preemption of cpu/avr/rtimer-arch.c over the process      *)
(* kernel: the Timer3 compare interrupt saves the interrupted context,     *)
(* makes a process of type REALTIME_TASK current, runs the rtimer callback *)
(* on that process's stack and switches back.                              *)
(*                                                                         *)
(* The handler runs with interrupts off, so nothing interleaves with it;   *)
(* it is two actions, up to the callback and after it.  What it may find   *)
(* half done is the kernel: it can come between any two kernel steps.      *)
(*                                                                         *)
(* A stack is known by name.  SAVE_CONTEXT stores the stack pointer in the *)
(* two bytes process_stack_ptr points to and RESTORE_CONTEXT loads it from *)
(* there: saved maps each such place, main_thread_stack ("main") and       *)
(* sub_thread_stack ("sub"), to the stack whose pointer it holds.          *)
(***************************************************************************)
EXTENDS Process

CONSTANTS
  RtProc,     \* the processes that call realtime_task_init() on themselves
  ArmEvents,  \* the events in whose handling threads set the rtimer
  IdSpan      \* number of values of p->id (uint8_t: 256)

ASSUME DSwitchAssumption ==
  /\ RtProc \subseteq Proc
  /\ ArmEvents \subseteq EventNumbers
  /\ IdSpan \in Nat \ {0, 1}
  /\ NULL \notin {"main", "sub"}  \* neither buffer is at the null pointer

VARIABLES
  id, id_count,        \* p->id, and the number the next started process gets
  type,                \* p->type
  stack_ptr,           \* p->stack_ptr
  process_stack_ptr,
  saved,               \* the stack pointers kept in the two stack buffers
  sp,                  \* the stack the processor runs on
  process_preempted,
  suspend_flag,
  armed,               \* a compare match is to come
  isr,                 \* "off", or "callback" inside the Timer3 handler
  entry                \* history: what the handler found when it was entered

taskVars == << id, id_count, type, stack_ptr >>
switchVars == << process_stack_ptr, saved, sp, process_preempted, suspend_flag,
                 isr, entry >>
dvars == << vars, taskVars, switchVars, armed >>

Place == {"main", "sub"}

\* The stacks the pointer can be in: the C stack of main(), the two buffers
\* as init_process_stack() fills them, or no stack at all.
Stack == {"program", "main", "sub", "garbage"}

-----------------------------------------------------------------------------
DInit ==
  /\ Init
  /\ id = [p \in Proc |-> 0] /\ id_count = 1
  /\ type = [p \in Proc |-> "NORMAL"]
  /\ stack_ptr = [p \in Proc |-> NULL]
  /\ process_stack_ptr = NULL
  /\ saved = [s \in Place |-> "garbage"]
  /\ sp = "program"
  /\ process_preempted = NULL
  /\ suspend_flag = FALSE
  /\ armed = FALSE
  /\ isr = "off"
  /\ entry = [current |-> NULL, state |-> state]

\* What process_start() also sets in the process it links.  Its assignments are
\* one step: the handler is not let in between linking a process and setting its
\* state, type and id.
Started == Listed' \ Listed

StartTask ==
  /\ id' = [p \in Proc |-> IF p \in Started THEN id_count ELSE id[p]]
  /\ id_count' = IF Started = {} THEN id_count ELSE (id_count + 1) % IdSpan
  /\ type' = [p \in Proc |-> IF p \in Started THEN "NORMAL" ELSE type[p]]
  /\ stack_ptr' = [p \in Proc |-> IF p \in Started THEN NULL ELSE stack_ptr[p]]

Running == isr = "off" /\ sp = "program"

\* A step of the kernel, or of another interrupt handler.
Kernel ==
  /\ Running /\ Next /\ StartTask
  /\ UNCHANGED << switchVars, armed >>

\* realtime_task_init(), called by a process for itself.
RealtimeTaskInit ==
  /\ Running /\ At("thread") /\ MayCall("realtime") /\ Top.p \in RtProc
  /\ type' = [type EXCEPT ![Top.p] = "REALTIME"]
  /\ stack_ptr' = [stack_ptr EXCEPT ![Top.p] = "sub"]
  /\ saved' = [saved EXCEPT !["sub"] = "sub"]
  /\ stack' = Spent
  /\ UNCHANGED << queueVars, procVars, pollVars, process_current, id, id_count,
                  process_stack_ptr, sp, process_preempted, suspend_flag,
                  isr, entry, armed >>

\* rtimer_set() with no timer pending.
Arm ==
  /\ Running /\ MayCall("arm") /\ Top.ev \in ArmEvents
  /\ armed' = TRUE
  /\ stack' = Spent
  /\ UNCHANGED << queueVars, procVars, pollVars, process_current, taskVars,
                  switchVars >>

-----------------------------------------------------------------------------
(***************************************************************************)
(* The handler, computed on a record m of the variables it works on.  The  *)
(* fields nullstate and nullid are what the null pointer's state and id    *)
(* read as: on AVR, the processor registers at those addresses.            *)
(***************************************************************************)
Machine(nullstate, nullid) ==
  [state |-> state, current |-> process_current, preempted |-> process_preempted,
   flag |-> suspend_flag, psp |-> process_stack_ptr, stack_ptr |-> stack_ptr,
   saved |-> saved, sp |-> sp, nullstate |-> nullstate, nullid |-> nullid,
   ret |-> "SUSPEND"]

IdOf(m, p) == IF p = NULL THEN m.nullid ELSE id[p]
StateOf(m, p) == IF p = NULL THEN m.nullstate ELSE m.state[p]

\* The list as a sequence, and a loop over it.
Chain ==
  LET n == CHOOSE k \in 0 .. Cardinality(Proc) :
             /\ Walk[k] = NULL
             /\ \A j \in 0 .. k - 1 : Walk[j] # NULL
  IN  [k \in 1 .. n |-> Walk[k - 1]]

ForEach(m, Body(_, _)) ==
  LET after[k \in 0 .. Len(Chain)] ==
        IF k = 0 THEN m ELSE Body(after[k - 1], Chain[k])
  IN  after[Len(Chain)]

\* The first process of the list in one of the states S, or NULL.
FirstIn(m, S) ==
  LET found == {k \in 1 .. Len(Chain) : m.state[Chain[k]] \in S}
  IN  IF found = {} THEN NULL
      ELSE Chain[CHOOSE k \in found : \A j \in found : k <= j]

\* Mutant: process_stack_ptr stays where it was.
OnMainStackMutant(m, p) ==
  [m EXCEPT !.stack_ptr[p] = "main", !.saved["main"] = "main"]

\* init_process_stack() on main_thread_stack, and process_stack_ptr set to it.
OnMainStack(m, p) ==
  [m EXCEPT !.stack_ptr[p] = "main", !.saved["main"] = "main", !.psp = "main"]

process_suspend(m, p) ==
  LET q == FirstIn(m, {"SUSPENDED", "CALLED"}) IN
  CASE m.preempted # NULL -> [m EXCEPT !.ret = "SUSPEND"]
    [] m.preempted = NULL /\ StateOf(m, m.current) = "RUNNING" ->
         [m EXCEPT !.state[p] = "CALLED", !.flag = TRUE, !.ret = "RUNNING"]
    [] OTHER ->
         IF q = NULL \/ StateOf(m, q) = "SUSPENDED"
         THEN [m EXCEPT !.ret = "SUSPEND"]
         ELSE [OnMainStack(m, q) EXCEPT
                 !.preempted = q, !.current = p, !.ret = "OK",
                 !.state = [[@ EXCEPT ![q] = "SUSPENDED"] EXCEPT ![p] = "CALLED"]]

\* The bodies of the three loops of process_switch_preempted().
SuspendTask(m, p) ==
  IF m.ret = "OK" \/ type[p] # "REALTIME" THEN m ELSE process_suspend(m, p)

PreemptTask(m, p) ==
  IF IdOf(m, p) # IdOf(m, m.current) THEN m
  ELSE [OnMainStack(m, p) EXCEPT !.preempted = p]

SwitchTask(m, p) ==
  IF type[p] # "REALTIME" THEN m ELSE [m EXCEPT !.current = p]

\* Mutant: the realtime process is not made current when nothing is called.
process_switch_preemptedMutant(m) ==
  LET suspended == ForEach(m, SuspendTask) IN
  IF suspended.ret = "OK" THEN suspended ELSE ForEach(suspended, PreemptTask)

process_switch_preempted(m) ==
  LET suspended == ForEach(m, SuspendTask) IN
  IF suspended.ret = "OK" THEN suspended
  ELSE ForEach(ForEach(suspended, PreemptTask), SwitchTask)

\* Mutant: the realtime process stays marked as called.
process_resumeMutant(m, p) ==
  LET q == FirstIn(m, {"SUSPENDED"}) IN
  IF m.flag THEN [m EXCEPT !.flag = FALSE, !.ret = "RESUME"]
  ELSE IF m.preempted = NULL \/ q = NULL THEN [m EXCEPT !.ret = "RESUME"]
  ELSE [m EXCEPT !.current = q, !.psp = m.stack_ptr[q], !.preempted = NULL,
                 !.nullstate = "NONE", !.nullid = 0, !.ret = "OK",
                 !.state = [@ EXCEPT ![q] = "CALLED"]]

\* The body of the loop of process_resume() while suspend_flag is set.
ReleaseTask(m, p) ==
  IF m.state[p] # "CALLED" THEN m
  ELSE [m EXCEPT !.state[p] = "RUNNING", !.psp = m.stack_ptr[p]]

process_resume(m, p) ==
  LET q == FirstIn(m, {"SUSPENDED"}) IN
  IF m.flag
  THEN [ForEach(m, ReleaseTask) EXCEPT !.flag = FALSE, !.ret = "RESUME"]
  ELSE IF m.preempted = NULL \/ q = NULL THEN [m EXCEPT !.ret = "RESUME"]
  ELSE [m EXCEPT !.current = q, !.psp = m.stack_ptr[q], !.preempted = NULL,
                 !.nullstate = "NONE", !.nullid = 0, !.ret = "OK",
                 !.state = [[@ EXCEPT ![q] = "CALLED"] EXCEPT ![p] = "RUNNING"]]

\* The bodies of the two loops of process_switch_called().
ResumeTask(m, p) ==
  IF m.ret = "OK" \/ type[p] # "REALTIME" THEN m ELSE process_resume(m, p)

ReturnTask(m, p) ==
  IF IdOf(m, p) # IdOf(m, m.preempted) THEN m
  ELSE [m EXCEPT !.current = p, !.psp = m.stack_ptr[p], !.preempted = NULL,
                 !.nullstate = "NONE", !.nullid = 0]

process_switch_called(m) ==
  LET resumed == ForEach([m EXCEPT !.ret = "RESUME"], ResumeTask) IN
  IF resumed.ret = "OK" THEN resumed ELSE ForEach(resumed, ReturnTask)

SAVE_CONTEXT(m) ==
  IF m.psp = NULL THEN m ELSE [m EXCEPT !.saved[m.psp] = m.sp]

RESTORE_CONTEXT(m) ==
  [m EXCEPT !.sp = IF m.psp = NULL THEN "garbage" ELSE m.saved[m.psp]]

\* The handler's loop that points process_stack_ptr to the realtime stack.
SelectStack(m, p) ==
  IF type[p] # "REALTIME" THEN m ELSE [m EXCEPT !.psp = m.stack_ptr[p]]

RealtimeStack(m) == ForEach(m, SelectStack)

Become(m) ==
  /\ state' = m.state
  /\ process_current' = m.current
  /\ process_preempted' = m.preempted
  /\ suspend_flag' = m.flag
  /\ process_stack_ptr' = m.psp
  /\ stack_ptr' = m.stack_ptr
  /\ saved' = m.saved
  /\ sp' = m.sp

UnchangedByHandler ==
  UNCHANGED << queueVars, process_list, next, stack, id, id_count, type >>

-----------------------------------------------------------------------------
\* What reading through the null pointer yields.
Garbage == State \X (0 .. IdSpan - 1)

\* ISR(TIMER3_COMPA_vect) up to the callback.
IsrEnter ==
  /\ Running /\ armed
  /\ \E g \in Garbage :
       LET m == SAVE_CONTEXT(process_switch_preempted(Machine(g[1], g[2])))
       IN  Become(RESTORE_CONTEXT(RealtimeStack(m)))
  /\ armed' = FALSE
  /\ isr' = "callback"
  /\ entry' = [current |-> process_current, state |-> state]
  /\ UnchangedByHandler /\ UNCHANGED pollVars

\* The callback polls a process.
CallbackPoll(p) ==
  /\ isr = "callback" /\ process_poll(p)
  /\ UNCHANGED << queueVars, procVars, process_current, stack, taskVars,
                  switchVars, armed >>

\* The callback sets the rtimer again; rtimer_run_next() schedules it.
CallbackArm ==
  /\ isr = "callback" /\ "rearm" \in Ops
  /\ armed' = TRUE
  /\ UNCHANGED << vars, taskVars, switchVars >>

\* ISR(TIMER3_COMPA_vect) after the callback.
IsrExit ==
  /\ isr = "callback"
  /\ \E g \in Garbage :
       LET m == process_switch_called(SAVE_CONTEXT(Machine(g[1], g[2])))
       IN  Become(RESTORE_CONTEXT(m))
  /\ isr' = "off"
  /\ UnchangedByHandler /\ UNCHANGED << pollVars, armed, entry >>

DNext ==
  \/ Kernel
  \/ RealtimeTaskInit
  \/ Arm
  \/ IsrEnter
  \/ \E p \in Pollable : CallbackPoll(p)
  \/ CallbackArm
  \/ IsrExit

DSpec == DInit /\ [][DNext]_dvars

-----------------------------------------------------------------------------
DSwitchTypeOK ==
  /\ ProcessTypeOK
  /\ id \in [Proc -> 0 .. IdSpan - 1] /\ id_count \in 0 .. IdSpan - 1
  /\ type \in [Proc -> {"NORMAL", "REALTIME"}]
  /\ stack_ptr \in [Proc -> Place \cup {NULL}]
  /\ process_stack_ptr \in Place \cup {NULL}
  /\ saved \in [Place -> Stack] /\ sp \in Stack
  /\ process_preempted \in Pointer
  /\ suspend_flag \in BOOLEAN /\ armed \in BOOLEAN
  /\ isr \in {"off", "callback"}

\* The interrupted program continues on its own stack ("restore main" in the
\* handler, rtimer-arch.c:968).
MainRestored == isr = "off" => sp = "program"

\* The states st with nothing marked as called.
Released(st) == [p \in Proc |-> IF st[p] = "CALLED" THEN "RUNNING" ELSE st[p]]

MistakenForIdle ==
  /\ At("context") /\ entry.state[Top.p] = "RUNNING"
  /\ \E r \in Listed : type[r] = "REALTIME"

\* Preemption is invisible to the program it interrupts: the handler leaves
\* PROCESS_CURRENT() and the state of every process as it found them
\* (process_suspend, process_resume, process_switch_called).  With one exception:
\* in a PROCESS_CONTEXT block the current process is not the executing one, and
\* when it is RUNNING the handler takes the kernel for idle and, on the way back
\* from a realtime process, releases the process that executes.
PreemptionTransparent ==
  [][IsrExit => /\ process_current' = entry.current
                /\ state' = IF MistakenForIdle THEN Released(entry.state)
                            ELSE entry.state]_dvars

\* In the main loop every listed process is ready to take the next event: none
\* is left in a state in which call_process() drops what it is given
\* (process_suspend, process_resume; process.h:377, "The handing of the event is
\* deferred until the target process is scheduled by the kernel").
ReadyInMain ==
  isr = "off" /\ Len(stack) = 1 => \A p \in Listed : state[p] \in Callable

\* The callback runs as the realtime process, so that what it sets up belongs
\* to that process (process_switch_preempted).
CallbackIsRealtime ==
  isr = "callback" /\ (\E p \in Listed : type[p] = "REALTIME")
    => process_current \in Listed /\ type[process_current] = "REALTIME"
=============================================================================
