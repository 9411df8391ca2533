# D-Switch in TLA+

D-Switch is Contiki 2.6 for the micaz node (AVR ATmega128) with one addition:
the rtimer interrupt can preempt a running process and run a callback as a
"realtime" process on a stack of its own. This directory specifies the core of
that system, model-checks it on small instances with TLC and proves part of it
with TLAPS. Paths below are relative to `src/contiki-2.6/`.

## 1. Inventory

| Component | Source | State | Operations | Interacts through |
|---|---|---|---|---|
| Event queue | `core/sys/process.c` | `fevent`, `nevents`, `events[]` | `process_post`, the head of `do_event` | called by threads and `main` |
| Process kernel | `core/sys/process.c` | process list, `state`, `needspoll`, `process_current`, `poll_requested`, the C stack | `process_start`, `process_exit`, `process_post_synch`, `process_poll`, `process_run` | threads call it while it calls them; interrupts poll |
| D-Switch | `cpu/avr/rtimer-arch.c` | `process_preempted`, `suspend_flag`, `process_stack_ptr`, two stack buffers, `p->type`, `p->id`, `p->stack_ptr` | the Timer3 handler: `process_switch_preempted`, the callback, `process_switch_called` | interrupts the kernel anywhere and writes the same process structures |
| rtimer | `core/sys/rtimer.c`, `cpu/avr/rtimer-arch.c` | `next_rtimer`, `rtimer->time`, TCNT3, OCR3A, OCF3A, OCIE3A | `rtimer_set`, `rtimer_run_next`, `rtimer_arch_schedule` | set by the program and by callbacks, fired by the handler |
| Event timers | `core/sys/etimer.c`, `timer.c`, `cpu/avr/dev/clock.c` | `timerlist`, `next_expiration`, the clock | set, reset, restart, adjust, stop, the etimer process | polled by the clock interrupt, posts TIMER events, is told of exits |
| Callback timers | `core/sys/ctimer.c` | `ctimer_list` | set, reset, restart, stop, the ctimer process | uses event timers, runs callbacks in another process's context |
| Serial line | `core/dev/serial-line.c`, `core/lib/ringbuf.c` | the byte ring, `overflow`, `buf`, `ptr` | input of a byte, the serial process | the interrupt fills the ring and polls; lines are broadcast as a pointer to `buf` |
| CX-MAC | `core/net/mac/cxmac.c` | radio and duty cycle flags, the stream, the power cycle's protothread | send, input, power cycle, on, off | ctimers, the radio, the one `packetbuf` |
| Reliable unicast | `core/net/rime/runicast.c`, `stunicast.c` | packet id, `is_tx`, transmission count, queue buffer, timer | open, close, send, receive, retransmit | MAC layer below, ctimers |
| Packet buffers | `core/net/packetbuf.c`, `queuebuf.c` | one packet, a pool | copy in, copy out, allocate | shared by everything that sends |

What makes each correct, and what is hard about it:

* *Event queue.* Every posted message is delivered once, in order, or its post
  fails. Hard: wrapping indices held in a narrow type.
* *Process kernel.* No event or poll of a live process is forgotten, a thread is
  never entered twice, `PROCESS_CURRENT()` is the executing process, the list
  and the states agree. Hard: re-entrance. A handler can start, exit or call any
  process while the kernel is in the middle of walking the list; interrupts poll
  at any point.
* *D-Switch.* The interrupted program cannot tell that it was interrupted. Hard:
  the handler reads and writes process structures between any two steps of the
  kernel, and finds the interrupted process by searching for its state and id.
* *rtimer.* Every timer set fires, at its time. Hard: the slot is tested and
  filled with interrupts on; compare flags outlive their purpose.
* *Timers.* A timer expires once its interval has passed and not before, and its
  owner is told. Hard: the clock wraps, the event queue is full, timers are set
  again or stopped while their event is under way, their process ends.
* *Serial line.* Listeners get lines. Hard: a ring without a lock, overflow, and
  one buffer that is read by everybody while the next characters come in.
* *CX-MAC.* The radio sleeps, and wakes. Hard: half a dozen flags that switch it
  from four contexts, over a channel that loses what it likes.
* *Reliable unicast.* "Sent" means received. Hard: ids of two bits, late and
  repeated acknowledgements, a time-out reported from inside the call.

`PROJECT.json` lists the hazards with the line where each bites and the
properties that watch it.

## 2. Modules

| Module | What it is |
|---|---|
| `BoundedFifo` | what the two rings promise: a bounded sequence |
| `EventQueue` | the ring of `process.c` |
| `Process`, `Process_proofs`, `ProcessLife_proofs` | the kernel under `main()`, extends `EventQueue`; the ring's types, safety and refinement of `BoundedFifo`, the kernel's types and `CurrentIsRunner`; the process list, activations and polls |
| `DSwitch`, `DSwitch_proofs` | the Timer3 handler over the kernel, extends `Process`; all its safety properties |
| `Rtimer`, `Rtimer_proofs` | `rtimer_set()` against the compare unit; types, `PendingIsScheduled`, `OnTime` |
| `Ringbuf` | the byte ring between interrupt and process |
| `SerialLine`, `SerialLine_proofs` | serial input on that ring, extends `Ringbuf`; types, `GetsOldest` and refinement of `BoundedFifo` by the ring, `LinesIntact`, `SameLines` |
| `Etimer` | event timers and the round of the kernel that they see |
| `Ctimer`, `Ctimer_proofs` | callback timers, extends `Etimer`; all safety properties of both |
| `ReliableUnicast` | what reliable unicast promises |
| `Runicast`, `Runicast_proofs` | `runicast.c` on `stunicast.c`, and that they keep the promise |
| `Cxmac`, `Cxmac_proofs` | duty cycling of several nodes on one channel; types, `RadioAgrees`, `TwoCycles` |
| `MC*` | instances for TLC |

**EventQueue.** `PostOk` and `PostFull` are the two results of
`process_post()`, `TakeEvent` the removal in `do_event()`. `PostSlot` keeps the
cast to the counter type before the remainder. The slot contents are abstract.

**Process.** The variable `stack` is the C call stack: element 1 is `main()`,
the last element is the executing function, and a frame's `at` is its next
statement that touches shared state. One action is one such statement, so a
poll from an interrupt (`InterruptPoll`), and in `DSwitch` a preemption, comes
between any two. Frames hold what the C functions keep in locals: loop cursors,
the saved `process_current`, the event. A thread is arbitrary code: at each
activation it makes up to `MaxOps` kernel calls of the kinds in `Ops` and
returns, or ends. Statements no interrupt can tell apart share an action
(`process_post()` as a whole, the assignments of `process_start()`). A
`PROCESS_CONTEXT_BEGIN(p)` ... `PROCESS_CONTEXT_END(p)` block is a frame too
(`ContextBegin`, `ContextEnd`): while it is executed `process_current` is `p`,
in any state, and what the block calls and who interrupts it find that. `ctimer.c`
has two such blocks, around each callback function and in `ctimer_set()`.

**DSwitch.** The handler runs with interrupts off, so it is two actions,
`IsrEnter` up to the callback and `IsrExit` after it; each computes the C
functions one after the other on a record of the variables they work on. A
stack pointer is abstracted to the stack it points into: `program`, a buffer,
or `garbage`. Reading through the null pointer yields arbitrary values (on this
processor it reads registers). `StartTask` adds to the kernel's steps the
fields D-Switch put into `struct process`. The handler is not let in between
the individual assignments of `process_start()` and `ExitUnlink`; no passing
run depends on that, because its programs neither restart nor end processes.

**Rtimer.** `rtimer_set()` is four actions, `SetTest`, `SetFields`, `SetNext`
and `SetSchedule`; `Fire` and `FireAgain` are the handler with a callback that
ends or sets a timer again. `Tick` is the counter, which does not advance while
an enabled interrupt waits: the handler is entered within a tick.

**Ringbuf, SerialLine.** `ringbuf_put()` runs in the interrupt handler and is
one step; `ringbuf_get()` is three, and bytes arrive between them. A character
is the pair of its line's number and its place in the line, so that buffers show
where their contents come from. Of the kernel there is what the serial process
can tell: polls before the next event and the next receiver, the queue with its
limit, the receivers of a broadcast. The ghost `held` becomes false when a line
is broadcast without room for the CONTINUE event behind it.

**Etimer, Ctimer.** The code reads the clock only to take differences, so each
time is kept as its distance from the clock: `elapsed[t]` since the start of
timer `t`, `ahead` until `next_expiration`. `elapsed` does not wrap and tells
what really passed; `Expired` and `update_time` see it modulo `ClockSpan`.
`etimer_process` walks its list one timer per step, and ticks come between; the
threads of the processes are arbitrary code that sets, resets, adjusts and
stops its timers, fills the queue, ends, exits others, and is started again.
Threads and `etimer_process` are not cut into one another: there is no preemption
among them. A callback timer is named by the event timer inside it.
The end of a process is `Exit` in three forms: its thread ends (`AppEnd`), another
process exits it (`AppExit`), or a callback function that runs in its name does
(`CallbackExit`). `Exit` goes up to the EXITED event, which `etimer_process`
handles by the two loops of `etimer.c:95-107`; `ExitedHead` and `ExitedNext` follow
them pointer by pointer. When another process is the caller, the thread of the
process is called with EXIT after that, with its timers gone and free to set
others, and then returns to the caller (`exiter`). What other processes
do when they are told EXITED is left out, and so is a thread that handles EXIT and
exits a third process.

**Runicast.** One sender and one receiver, which share nothing but the air. A
frame stays in the air until the sender has made `MaxAge` further transmissions
and may be received never, late or many times; so may the acknowledgement it
causes. Frames carry the number of their message as a ghost; the code sees the
id. `Transmit` is the whole of a transmission with the report that comes back
before the call returns, so that a message may time out inside
`runicast_send()`.

**Cxmac.** A node is the record of the static variables of `cxmac.c`, the
locals of `send_packet()` while it runs, and the frame in the radio's FIFO.
While a node is in `send_packet()` it does nothing else: the power cycle is a
callback timer, the input a process. A frame reaches any subset of the radios
that are on and whose FIFO is empty. The framer may fail to make a strobe or an
acknowledgement of one. Durations are left out; their order is
kept: a train has `MaxStrobes` strobes, a stream lasts `StreamCycles` calls of
`cpowercycle()`.

## 3. Runs

| Run | Asks | Result |
|---|---|---|
| `process_sched` | `ProcessTypeOK`, `NoLostPoll`, refinement of `BoundedFifo`, and, under fairness, `PollServed`, `QueueDrains` | holds |
| `process_lifecycle` | `OneActivation`, `RunningIsListed`, `CalledIsListed` and, under fairness, `BackToMain`, with processes polled, ending, being sent EXIT, posting synchronously and restarting, so that the list changes under every loop | holds |
| `process_exit` | `CurrentIsRunner`, `ListEnds` with `process_exit()` called by and on anyone, and in other processes' contexts | holds |
| `dswitch` | `MainRestored`, `CallbackIsRealtime`, `PreemptionTransparent` with one realtime process and with contexts | holds |
| `rtimer` | `PendingIsScheduled`, `OnTime`, `Fires` when no pending timer is set over | holds |
| `serial_line` | the ring as a FIFO; `LinesIntact` and `SameLines` as long as CONTINUE could be posted behind every line (`held`); `InputServed` | holds |
| `ctimer` | `ListSound`, `EndedHaveNoTimers`, `NextIsEarliest`, `ListsAgree`, `NotEarly`, `ExpiredServed` | holds |
| `runicast` | `SendingIsArmed`, refinement of `ReliableUnicast`, `SendEnds` | holds |
| `cxmac` | `RadioAgrees`, `TwoCycles`, `Listens`, `BackOffEnds` | holds |
| `dswitch_two` | `ReadyInMain` with two realtime processes | violated |
| `rtimer_race` | `Fires` when a timer is set while one is pending | violated |
| `cxmac_answer` | `AwaitsAnswer`: after a packet that needs an answer the radio stays on | violated |

The three violations are disagreements between the code and its comments; the
findings in `PROJECT.json` quote both. More disagreements can be seen by
changing an instance:

* *A process that exits itself.* With `Ops` `{"exit"}` a thread may call
  `process_exit()` on its own process and yield; `call_process()` then marks it as
  running although it is off the list, and `RunningIsListed` is violated.
* *A timer that fires during start-up.* With `ArmEvents` `{"INIT"}` the handler
  can come before any process is current; it then reads through the null
  pointer, and `MainRestored` is violated in `DSwitch`.
* *Preemption of a called process.* With `Ops` `{"poll", "synch", "realtime",
  "arm"}` and `MaxOps` 2 in `DSwitch`, a thread that was called by another is
  interrupted, the first process marked CALLED is taken for it, and
  `PreemptionTransparent` is violated.
* *A preemption in a `PROCESS_CONTEXT` block.* When the block's process is RUNNING,
  which it is in `ctimer_process` for every callback function, the handler finds
  the current process not CALLED and takes the kernel for idle
  (`rtimer-arch.c:563-580`). On the way back from a realtime process,
  `process_resume()` then releases every process that is marked CALLED: the one
  that executes, too, which a synchronous post can then enter a second time.
  `PreemptionTransparent` states this case (`MistakenForIdle`) and claims the
  states unchanged in every other; without the exception it is violated in
  `dswitch`.
* *A realtime process that ends.* Preempted in the middle of its exit it is given
  back the state it had lost: `RunningIsListed` is violated in `DSwitch`.
* *Timers set over a pending one* run at the pending one's time: `OnTime` is
  violated in the instance of `rtimer_race`. `rtimer.h` says that `rtimer_set()`
  returns non-zero when the task could be scheduled; it always returns
  `RTIMER_OK`, which is 0.
* *A serial line with the queue nearly full.* Without `held` in `LinesIntact` and
  `SameLines`: when one place is left in the queue the line is broadcast, the
  CONTINUE event is not, and the buffer is overwritten before it is read, against
  the comment "Wait until all processes have handled the serial line event".
* *A callback timer set again while its event is under way* is called by the old
  event, before its new interval has passed, and is off `ctimer_list` when the
  new event comes: `ListsAgree` without its exception (`overtaken`).
* *A timer set after the end.* `exit_process()` announces EXITED first and sends
  EXIT to the process after that (`process.c:165-176`). An event timer that the
  thread sets when it handles EXIT, or that a callback function sets in the name of
  a process that has ended, is on the list with nobody to remove it:
  `EndedHaveNoTimers` without its exception (`orphans`).

What holds only under restrictions, seen while choosing the instances:

* `BackToMain` is not claimed for programs that call `process_exit()`. From
  handlers of EXITED they can exit and start processes for ever; TLC finds such a
  behaviour in the instance of `process_lifecycle` with `Ops`
  `{"start", "exit", "end"}`, nothing pollable and `MaxDepth` 9, where the process
  at the cursor of the announcements is put back on the list again and again. Nor
  is it claimed while polls never cease: `do_event()` serves them between two
  receivers, and a process that is polled can end, start again and stand
  before the cursor once more. The formula has this exception in it.
* `NoLostPoll` is not claimed for programs that restart processes:
  `process_start()` keeps the `needspoll` flag of the earlier life.
* `RunningIsListed` and `CalledIsListed` are not claimed for programs that post
  INIT events to processes that may end: `do_event()` marks the receiver running
  without putting it on the list.
* `NextIsEarliest` is not claimed after timers were removed with their process:
  `update_time()` is not called then (`settled`).
* `NotEarly` is claimed for intervals and delays that fit the clock
  (`EtimerAssumption`); an interval of 0xffff never expires, since
  `timer_expired()` adds one to the difference. Starts ahead of the clock, which
  `etimer_adjust()` and an early `etimer_reset()` can make, expire at once and
  are excluded by the guards of these two actions.
* `RunicastReliable` needs that frames do not outlive as many transmissions as there
  are ids (`RunicastAssumption`). Retransmissions, a second apart, outlast the
  milliseconds a frame is in the air; but with `max_retransmissions` 1, or a MAC
  layer that drops packets at once, nothing in the code keeps a program from
  using up the ids faster, and of such programs it is asked. It also needs that messages are not sent from the
  `timedout` callback: the id of such a message is advanced under it, so that no
  acknowledgement of it is ever accepted.

### Bounds

*Process, DSwitch.* `MaxOps` is 1: one kernel call per activation. A handler
that makes several calls differs from several activations only in that nothing
else is dispatched in between, and nesting, not the number of calls in a row, is
what the properties are about. `MaxDepth` stops nested calls at 6 to 12 frames;
a nesting call adds two or three frames, so every process can be on the stack at
once and be called once more, which the `CALLED` guard refuses. Two processes
suffice for a scan with a process before and one behind the cursor, three for a
process removed between two others. Queues of 1 and 2 slots fill and wrap;
`process_sched` uses 2 slots with the narrowest counter `QueueAssumption`
admits. In `process_lifecycle` messages go to all processes, and EXIT also to one
(`MCBroadcasts`): a broadcast is what walks the list. No symmetry reduction is used: the processes are started in an order.

*Rtimer.* The clock has 5 values and delays up to 3, so the counter wraps
several times while a flag stays set.

*SerialLine.* A ring of 4 cells and lines of up to 4 characters: the ring and
the line buffer both overflow within a line, and wrap with the second. One
listener comes before and one after the serial process on the list.

*Ctimer.* Two event timers and one callback timer of one process, a clock of 5
values, intervals of 2, delays of service up to `MaxLag` 1: the clock wraps
within two intervals. The list has up to three timers, those of the process in any
places, so that both loops of an exit find something to remove at the head, next to
it and behind a timer of another process. The queue has one place, and a process
fills it, but not while `etimer_process` asks to be polled (`AppPost`). The process
is exited by itself, by a callback function, and by one without timers. An
instance with two processes, one event timer and one callback timer, where a
process is exited from the thread of one that uses timers, has 132,748 states and
satisfies the same properties; the two instances together are too large for a run.

*Runicast.* Ids of two bits as in the code; frames that live as long as
`RunicastAssumption` lets them; five messages, so that ids are used again; up to
three transmissions of each.

*Cxmac.* Two nodes, and addresses of an absent station and of everybody; trains
of two strobes; two packets or switchings in all, which is enough for a
collision, a stream with a second packet, and a protocol switched off while its
node waits. `Listens` and `BackOffEnds` are about what happens after them;
`RadioAgrees` and `TwoCycles` are proved for any number of them.

### Fairness

`Process` assumes weak fairness of `KernelStep`: the processor goes on executing
between interrupts. Interrupts have no fairness and may come without pause
between any two steps; threads return because they make finitely many calls.
`Rtimer` assumes weak fairness of `Tick`, `Handler` and `SetStep`: the counter
runs, an enabled interrupt whose flag is set is taken, and the program finishes
the call it is in. `SerialLine` assumes it of the kernel and the serial process
together (`Kernel \/ Thread`), `Ctimer` of the kernel with the return of threads,
and of the clock. `Runicast` assumes only that the retransmission timer expires;
nothing is assumed of the air. `Cxmac` assumes it, for each node, of the power
cycle's timer, of the loop of strobes, and of the driver's process that reads
the FIFO. `DSwitch` claims safety only.

## 4. Proofs

All theorems are for every value of the constants that the named assumptions
admit. The assumptions say that the constants have their C types, and
`QueueAssumption` that the ring fits its counter.

* `QueueTyping`, `QueueSafe`, `RingIsFifo`. Invariant: types, and every waiting
  position holds a message. The ring arithmetic is in `SlotArithmetic`; the
  refinement shows that a post appends to `Waiting` and a removal takes its head.
* `ProcessTyping`, `CurrentProcess`. `CurrentIsRunner` speaks of the top of the
  stack only and is not inductive: when a frame is popped, what must be right is
  the value that frame saved. `StackInv` adds, for every two adjacent frames,
  that nothing stands on a thread but a function that saved that thread's own
  process (`Linked`), and for the top frame what it knows about
  `process_current` between being entered and running the thread (`TopOK`).
  Three lemmas (`ReplaceWell`, `PushWell`, `PopWell`) say what going on, calling
  and returning do to such a stack; every action is then one of the three. The
  type invariant needs the same invariant, because a return must find a caller
  and a cursor that is followed must not be null.
  `ContextBegin` and `ContextEnd` are a call and a return: their frame saved what
  the block replaced.
* `ListsEnd`, without any assumption on the program. `Linear` says that the links
  from `process_list` spell out a sequence of distinct processes that ends with
  the null pointer. Two lemmas about links alone, `PrependChain` and
  `RemoveInside` (with `RemoveHead`), give the sequence after the two changes the
  kernel makes, `process_start()`'s and `exit_process()`'s; from the sequence
  follows what the recursive function `Walk` computes (`WalkIsChain`).
* `SingleActivation`, `RunningListed`, `ListedCalled`, for programs in which no
  process is exited from outside (`NoForcedExit`: nobody calls `process_exit()`,
  nobody posts INIT; processes may end, be sent EXIT and be started again).
  `OneActivation` is not inductive, since the guard of `call_process()` reads
  `state`, and `do_poll()` overwrites the state of the process at its cursor
  without looking at it. `LifeInv` ties the three together: which frames may stand
  on which (`Calls`: below a `do_poll()` there is only `main()` or a broadcast
  that `main()` dispatched, so that no activation is below it), which state a
  process has by the frame it is in, and that state and list agree (`Consistent`),
  and what the executing function has read and still relies on (`Knows`: the
  process at the cursor of `do_poll()` is on the list although its thread may have
  ended it).
* `NothingForgotten`: `NoLostPoll` for programs in which no process ends. `PollInv`
  adds to `LifeInv` that no process off the list wants to be polled. The
  interesting steps are `PollBegin`, after which everybody is ahead of the
  cursor, `PollNext`, which passes only the process that was just polled, and
  `process_start()`, which shifts the list under the cursors. The assumption is
  needed: a process that ends before its poll and is started again has its old
  request back, and no flag is up.
* `DSwitchTyping`, `ProgramOnItsStack`, `RealtimeCallback`, `PreemptionInvisible`: all
  properties of `DSwitch`, for any number of processes, slots and timers, under
  `Supported`, which says for which programs the handler is meant to work.
  `PreemptionInvisible` says of these that the handler gives back the current
  process and all states as it found them, except that in a `PROCESS_CONTEXT` block
  of a RUNNING process it releases the executing process:
  - at most one realtime process; the run `dswitch_two` shows what happens with two;
  - contexts only of processes that `main()` starts;
  - no `process_post_synch()`, `process_start()` or `process_exit()` from a thread,
    no process that ends and no events of the kernel's own (INIT, EXIT, EXITED) but
    those of booting:
    `process_suspend()` takes the first process of the list that is marked CALLED
    for the interrupted one, and an activation inside another marks two; one
    interrupted inside `exit_process()` is not on the list any more;
  - the rtimer is not set by what `main()` starts while it boots, since between two
    of them `process_current` is the null pointer, and `PROCESS_CURRENT()->id` in
    the handler then reads a register of the processor;
  - fewer processes than ids (`IdSpan`), since the handler tells processes apart by
    id.

  None of the four is inductive. Outside the handler the kernel's invariant `Prog`
  holds of the states and the current process (`PollInv` with `OneCalled`: at most
  one process is marked CALLED, and it is the current one), and the saved pointers
  are those of an idle handler (`Off`); inside, `Prog` holds of what the handler
  found (`entry`), and `Interrupted` says in which of two ways the states differ
  from that, by whether a realtime process is listed and which process was
  interrupted (`On`). The handler's four loops are shown to write to exactly the
  processes meant: a list is followed by a sequence of distinct processes
  (`ListsEnd`), and ids on it differ. In the run's instance TLC found `SwitchInv`
  to hold in every reachable state before it was proved.
* `RtimerTyping`, `NeverStranded`, `FiresOnTime`. The last two assume
  `~Overwrite`; `rtimer_race` shows the need for it. The
  invariant says that while `rtimer_set()` is under way the interrupt is off and
  the slot is the call's own (`CallInv`), that otherwise the interrupt is on
  exactly when the slot is filled (`SlotInv`), and that an enabled flag is never
  stale (`FlagInv`).
* `RingTyping`, `RingGetsOldest`, `RingbufIsFifo`, about the byte ring for every
  size `ringbuf.h` admits. The invariant says that every byte between the
  pointers was put and that, while `ringbuf_get()` is under way, the ring is not
  empty and the byte read is its head. Puts append behind the head, so that they
  cannot disturb it.
* `SerialTyping`, `WholeLines`, `EqualLines`, `SerialRingIsFifo`, for every number
  of listeners and every length of line, ring and queue (`SerialAssumption`).
  The ring and the line buffer may overflow; `WholeLines` and `EqualLines` say
  nothing of what is heard once the event queue refused a CONTINUE (`held`). The
  invariant, `SerialInv`, is needed in five parts: the bytes in the ring, with the
  one on its way from it, form lines or beginnings of lines (`StreamInv`); the
  buffer holds the beginning of the line whose byte was stored last (`FillInv`);
  the event of a line waits before the CONTINUE event behind it, and the buffer is
  closed until that (`TurnInv`); the listeners before the next receiver have heard
  exactly one line more than those behind it (`HeardInv`); and the numbers of the
  lines grow from what was heard over the buffer and the ring to what is being
  sent (`OrderInv`).
* `RunicastTyping`, `SendingArmed`, `RunicastIsReliable`, for every number of
  packet ids and every age of frames with `MaxAge + 1 < IdSpan`. What must be
  shown is that an acknowledgement is accepted only for the message that is being
  sent (`AckIsCurrent`). The invariant says that a frame is at least as old as
  the number of messages accepted after its own (`FramesAge`), and that its id
  lies exactly that many steps behind `sndnxt` (`FramesId`); a frame whose id is
  `sndnxt` is then zero messages behind, since it cannot be `IdSpan` behind.
* `NoneEarly`, for clocks of every width that satisfies `EtimerAssumption`. The
  invariant (`TimesOK`) bounds the time since a timer was set by its interval and
  the delay of service, over setting, resetting, adjusting and the clock; the
  remainder `timer_expired()` sees is then the time itself. It needs nothing about
  the lists.
* `CtimerTyping`, `NeverTwice`, `NoTimerOfTheDead`, `FirstIsNext`,
  `CallbacksComing`, for any number of processes and timers, in one inductive
  invariant (`CtimerInv`): to keep a timer from being inserted twice one must know
  that a timer on the list has its process, and to remove the timers of a process
  that it is the process that uses them (`OwnerInv`); that an event on its way
  belongs to no running timer but one that was set after it (`WaitingInv`) ties
  the two lists to the queue; and that `etimer_process` is not in its loop while a
  thread of an application runs (`PlaceInv`) keeps its place in the list valid.
  `NoTimerOfTheDead` rests on `ExitedList`: the two loops of the EXITED handler leave
  exactly the timers of other processes, whatever the list. The end of the first
  loop is the first timer of another process; of the second it is shown, round by
  round, that everything up to `t` belongs to others and that every round
  shortens what is left. A timer that is set after the end is in the property's
  exception, and `OwnerInv` says of it what it says of any other.
  `NextIsEarliest` is proved from what `update_time()` computes, a minimum over
  differences that wrap; `TimesOK` shows that they do not.
* `CxmacTyping`, `RadioKnown`, `TwoPeriods`, for any number of nodes, packets and
  switchings. `TwoCycles` is not inductive. What must be added (`AwakeOK`) is how
  the count of wake periods is tied to the other flags: a wait that begins has
  counted none, one that was marked by `cpowercycle()` at most one, a node that is
  switched off has its timer called once more at most, and in the second period
  `radio_is_on` is set whenever the radio is on, so that `off()` works. A program
  can keep the radio on by calling `turn_off(1)` again and again; the count starts
  anew at `turn_off()`.

The lists are reasoned about without induction over data: what a loop or a
recursive function over a list computes is stated by an explicit function and
shown to satisfy its defining equation, and where a first exception must be found
it is the least of a finite set of numbers (`Least`). Filtering a list (`Without`)
is written as a recursive function for this reason.

Every safety property of the passing runs is stated by a theorem. Only
model-checked: the liveness properties (fairness and ENABLED are out of the prover's
reach), and the programs outside a theorem's hypotheses that a run includes
(`NoForcedExit`, `NoneEnds`, `~Overwrite` and `Supported` are the hypotheses about
programs; the plan says how the last could be weakened).

## 5. Not modelled

* Event data, process names and printing; the contents of saved contexts;
  `process_alloc_event()`.
* `core/lib/list.c`, `memb.c`, `packetbuf.c`, `queuebuf.c`: sequential library
  code; what it does to its callers' state is part of their models.
* `core/net/mac/csma.c`: the micaz configuration puts `nullmac` in its place.
* Of CX-MAC: announcements (switched off in the micaz configuration), power
  accounting (writes statistics of its own only), the encounter list and busy
  waiting (they move strobes in time, and time is not modelled).
* Register-level drivers, the network stacks the micaz images do not build (uIP,
  RPL, 6LoWPAN), other platforms and processors, applications, tools.
* `src/nano-RK`: a second operating system, by far the larger part of the
  repository together with vendored code and register headers; nothing of it is
  linked with the Contiki images. The models cover the scheduling and
  communication core and thereby a small share of the repository's lines.

## 6. Plan

1. `EventQueue`, `Process`, `DSwitch`, `Rtimer` (done).
2. `Ringbuf`, `SerialLine`, `Etimer`, `Ctimer`, `Runicast`, `Cxmac` (done).
3. A realtime callback that sends while `send_packet()` is under way: `Cxmac`
   with the one packet buffer and the D-Switch handler.
4. Proofs of every safety property (done). `Supported` could be weakened: processes
   that end and `process_exit()` need an invariant for a process that is interrupted
   inside `exit_process()`, when it is off the list and its state is NONE.
