------------------------------- MODULE Etimer -------------------------------
(***************************************************************************)
(* Event timers (core/sys/etimer.c, core/sys/timer.c, the tick interrupt   *)
(* of cpu/avr/dev/clock.c).  etimer_process, polled at every tick, walks   *)
(* the list of timers and posts a TIMER event for each that has expired; a *)
(* post that fails because the event queue is full is tried again.         *)
(*                                                                         *)
(* The code reads the clock, of the 16-bit type clock_time_t, only to take *)
(* differences of times.  Each time is therefore kept as its distance from *)
(* the clock: elapsed[t] is clock_time() - start, ahead is next_expiration *)
(* - clock_time().  elapsed does not wrap, so that it tells what really    *)
(* passed; the code sees it modulo ClockSpan.                              *)
(*                                                                         *)
(* The kernel is reduced to its round: process_run() serves the polls and  *)
(* then handles one event.                                                 *)
(***************************************************************************)
EXTENDS Integers, Sequences, FiniteSets

CONSTANTS
  Proc,       \* the processes that own timers
  CTIMER,     \* ctimer_process
  NONE,       \* PROCESS_NONE, the null pointer
  ETimer,     \* the event timers of the processes
  CTimer,     \* the event timers inside callback timers
  Owner,      \* the process that uses an event timer
  NUMEVENTS,  \* PROCESS_CONF_NUMEVENTS
  ClockSpan,  \* 2^w for the w-bit type clock_time_t
  Interval,   \* the intervals that are set
  MaxLag      \* bound: ticks that pass until an expired timer is served

Timer == ETimer \cup CTimer

\* An interval and the delay of its service fit the clock: on the AVR the clock
\* wraps after 512 seconds.
ASSUME EtimerAssumption ==
  /\ ClockSpan \in Nat \ {0}
  /\ MaxLag \in Nat /\ NUMEVENTS \in Nat \ {0}
  /\ Interval \subseteq Nat \ {0} /\ Interval # {}
  /\ \A i \in Interval : i + MaxLag < ClockSpan - 1
  /\ Owner \in [ETimer -> Proc]
  /\ ETimer \cap CTimer = {} /\ NONE \notin Timer
  /\ NONE \notin Proc /\ CTIMER \notin Proc /\ NONE # CTIMER

VARIABLES
  timerlist,        \* the linked list of timers, first to last
  p,                \* timer -> the process to tell, NONE once expired
  elapsed,          \* ticks since timer.start of each timer
  interval,         \* timer.interval of each timer
  ahead,            \* ticks until next_expiration
  polled,           \* needspoll of etimer_process
  scan,             \* the place of etimer_process in the list, 0 outside its loop
  queue,            \* the kernel's event queue: pairs of receiver and timer
  turn,             \* what process_run() does next
  cur,              \* the process whose thread executes
  alive,            \* the processes that run
  exiter,           \* the caller of process_exit() whose call cur handles, or NONE
  settled,          \* ghost: update_time() saw every change of the list
  overtaken,        \* ghost: callback timers set while an event for them was waiting
  orphans           \* ghost: timers set in the name of a process that had ended

timeVars == << elapsed, ahead >>
listVars == << timerlist, p, interval, settled >>
kernelVars == << queue, turn, cur, alive, exiter >>
ghostVars == << overtaken, orphans >>
etimerVars == << timeVars, listVars, polled, scan, kernelVars, ghostVars >>

\* How many ticks are left until the timer is due: negative when it is late.
left(t) == interval[t] - elapsed[t]

Listed == {timerlist[i] : i \in DOMAIN timerlist}
Queued(t) == \E i \in DOMAIN queue : queue[i][2] = t

\* What is left of a list without the timers of T.
Without(list, T) ==
  LET kept[i \in 0 .. Len(list)] ==
        IF i = 0 THEN << >>
        ELSE IF list[i] \in T THEN kept[i - 1] ELSE Append(kept[i - 1], list[i])
  IN  kept[Len(list)]

EtimerInit ==
  /\ timerlist = << >>
  /\ p = [t \in Timer |-> NONE]
  /\ interval = [t \in Timer |-> CHOOSE i \in Interval : TRUE]
  /\ elapsed = [t \in Timer |-> interval[t] + MaxLag]
  /\ ahead = 0
  /\ polled = FALSE /\ scan = 0
  /\ queue = << >> /\ turn = "apps" /\ cur = NONE
  /\ alive = Proc /\ exiter = NONE
  /\ settled = TRUE /\ overtaken = {} /\ orphans = {}

-----------------------------------------------------------------------------
\* Mutant: an interval is over one tick too soon.
ExpiredMutant(t) == interval[t] <= (elapsed[t] + 1) % ClockSpan

\* timer_expired().
Expired(t) == interval[t] < (elapsed[t] + 1) % ClockSpan

\* How far ahead of the clock a timer expires, as update_time() sees it.
Distance(t, el, iv) == (iv[t] - el[t]) % ClockSpan

\* Mutant: the head of the list is taken for the timer that expires first.
update_timeMutant(list, el, iv) ==
  ahead' = IF list = << >> THEN 0 ELSE Distance(Head(list), el, iv)

\* update_time(), with the list and the timers as they are after the change.
update_time(list, el, iv) ==
  LET D == {Distance(list[i], el, iv) : i \in DOMAIN list}
  IN  ahead' = IF list = << >> THEN 0 ELSE CHOOSE d \in D : \A e \in D : d <= e

\* Mutant: the search for the timer on the list is left out.
OnListMutant(t) == FALSE

\* add_timer() finds the timer on the list.
OnList(t) == p[t] # NONE /\ t \in Listed

\* add_timer(), called by who, after start and interval have been set.
add_timer(t, who) ==
  LET list == IF OnList(t) THEN timerlist ELSE << t >> \o timerlist
  IN  /\ polled' = TRUE
      /\ timerlist' = list
      /\ p' = IF OnList(t) THEN p ELSE [p EXCEPT ![t] = who]
      /\ update_time(list, elapsed', interval')
      /\ settled' = TRUE
      /\ overtaken' = IF Queued(t) /\ t \in CTimer THEN overtaken \cup {t} ELSE overtaken \ {t}
      /\ orphans' = IF who \in alive \cup {CTIMER} THEN orphans \ {t}
                                                 ELSE orphans \cup {t}

etimer_set(t, i, who) ==
  /\ elapsed' = [elapsed EXCEPT ![t] = 0]
  /\ interval' = [interval EXCEPT ![t] = i]
  /\ add_timer(t, who)

\* A periodic timer is reset after it has expired and before it is MaxLag late.
etimer_reset(t, who) ==
  /\ -MaxLag < left(t) /\ left(t) <= 0
  /\ elapsed' = [elapsed EXCEPT ![t] = @ - interval[t]]
  /\ UNCHANGED interval
  /\ add_timer(t, who)

etimer_restart(t, who) ==
  /\ elapsed' = [elapsed EXCEPT ![t] = 0]
  /\ UNCHANGED interval
  /\ add_timer(t, who)

\* etimer_adjust() by one tick, earlier or later, of a timer that is running and
\* goes on running; the start may not come to lie ahead of the clock.
etimer_adjust(t, d) ==
  /\ t \in Listed /\ left(t) > 0 /\ left(t) + d > 0 /\ elapsed[t] - d >= 0
  /\ elapsed' = [elapsed EXCEPT ![t] = @ - d]
  /\ update_time(timerlist, elapsed', interval)
  /\ settled' = TRUE
  /\ UNCHANGED << timerlist, p, interval, polled, ghostVars >>

\* etimer_stop() recomputes the time only if it took the timer off the list.
etimer_stop(t) ==
  /\ timerlist' = Without(timerlist, {t})
  /\ p' = [p EXCEPT ![t] = NONE]
  /\ IF t \in Listed
       THEN update_time(timerlist', elapsed, interval) /\ settled' = TRUE
       ELSE UNCHANGED << ahead, settled >>
  /\ UNCHANGED << elapsed, interval, polled, ghostVars >>

-----------------------------------------------------------------------------
\* The tick interrupt, at any moment.  It polls etimer_process if there is a timer.
\* The bound: time does not run away from a timer on the list that is MaxLag late;
\* how late the others are no longer matters then.
Tick ==
  /\ \A t \in Listed : left(t) > -MaxLag
  /\ elapsed' = [t \in Timer |-> IF left(t) > -MaxLag THEN elapsed[t] + 1 ELSE elapsed[t]]
  /\ ahead' = IF timerlist = << >> THEN 0 ELSE (ahead - 1) % ClockSpan
  /\ polled' = (polled \/ timerlist # << >>)
  /\ UNCHANGED << listVars, scan, kernelVars, ghostVars >>

\* do_poll() reaches etimer_process.
RunPoll ==
  /\ turn = "poll" /\ scan = 0
  /\ IF polled THEN scan' = 1 /\ UNCHANGED turn
               ELSE turn' = "event" /\ UNCHANGED scan
  /\ polled' = FALSE
  /\ UNCHANGED << timeVars, listVars, queue, cur, alive, exiter, ghostVars >>

\* Mutant: the full queue is noticed one event too late.
QueueFullMutant == Len(queue) = NUMEVENTS + 1

\* process_post() would fail.
QueueFull == Len(queue) = NUMEVENTS

\* Mutant: etimer_process does not ask to be called again.
ScanFullMutant == scan' = scan + 1 /\ UNCHANGED polled

\* The queue is full: etimer_process asks to be called again, and looks at the
\* next timer.
ScanFull == scan' = scan + 1 /\ polled' = TRUE

\* The event is posted, the timer removed, and the walk starts again.
ScanPost(t) ==
  /\ queue' = Append(queue, << p[t], t >>)
  /\ timerlist' = Without(timerlist, {t})
  /\ p' = [p EXCEPT ![t] = NONE]
  /\ update_time(timerlist', elapsed, interval)
  /\ settled' = TRUE
  /\ scan' = 1
  /\ UNCHANGED << elapsed, interval, polled >>

\* One round of etimer_process's loop over the list, and the end of the loop.
ScanStep ==
  /\ scan \in DOMAIN timerlist
  /\ LET t == timerlist[scan] IN
       \/ /\ ~Expired(t)
          /\ scan' = scan + 1
          /\ UNCHANGED << queue, timeVars, listVars, polled >>
       \/ /\ Expired(t) /\ ~QueueFull
          /\ ScanPost(t)
       \/ /\ Expired(t) /\ QueueFull
          /\ ScanFull
          /\ UNCHANGED << queue, timeVars, listVars >>
  /\ UNCHANGED << turn, cur, alive, exiter, ghostVars >>

ScanEnd ==
  /\ scan > Len(timerlist)
  /\ scan' = 0
  /\ turn' = "event"
  /\ UNCHANGED << timeVars, listVars, polled, queue, cur, alive, exiter, ghostVars >>

-----------------------------------------------------------------------------
\* The kernel calls a process of an application: polled by some driver, or with
\* the event at the head of the queue.  An event for a process that does not run
\* is dropped.
RunApps ==
  /\ turn = "apps"
  /\ turn' = "poll"
  /\ cur' \in alive \cup {NONE}
  /\ UNCHANGED << timeVars, listVars, polled, scan, queue, alive, exiter,
                  ghostVars >>

RunEvent ==
  /\ turn = "event"
  /\ turn' = "apps"
  /\ \/ queue = << >> /\ UNCHANGED << queue, cur >>
     \/ /\ queue # << >> /\ Head(queue)[1] # CTIMER
        /\ queue' = Tail(queue)
        /\ cur' = IF Head(queue)[1] \in alive THEN Head(queue)[1] ELSE NONE
  /\ UNCHANGED << timeVars, listVars, polled, scan, alive, exiter, ghostVars >>

\* The thread returns: to exit_process(), if it was called for its exit.
Return ==
  /\ cur # NONE
  /\ cur' = exiter /\ exiter' = NONE
  /\ UNCHANGED << timeVars, listVars, polled, scan, queue, turn, alive, ghostVars >>

\* The thread of the process that is called uses its timers.
AppTimer ==
  /\ cur # NONE
  /\ \E t \in {u \in ETimer : Owner[u] = cur} :
       \/ \E i \in Interval : etimer_set(t, i, cur)
       \/ etimer_reset(t, cur)
       \/ etimer_restart(t, cur)
       \/ \E d \in {-1, 1} : etimer_adjust(t, d)
       \/ etimer_stop(t)
  /\ UNCHANGED << scan, kernelVars >>

\* The process fills the queue with events to itself that are not TIMER.  The bound:
\* not while etimer_process asks to be called, or it could take every place that
\* becomes free and leave none to the timers.
AppPost ==
  /\ cur # NONE /\ ~polled /\ ~QueueFull
  /\ queue' = queue \o [i \in 1 .. NUMEVENTS - Len(queue) |-> << cur, NONE >>]
  /\ UNCHANGED << timeVars, listVars, polled, scan, turn, cur, alive, exiter,
                  ghostVars >>

\* list->next = list->next->next, for the element before place i.
Unlink(list, i) ==
  [j \in 1 .. Len(list) - 1 |-> IF j < i THEN list[j] ELSE list[j + 1]]

\* etimer_process is told that q has exited: the loop that takes its timers off the
\* head of the list,
ExitedHead(list, q) ==
  LET head[k \in 0 .. Len(list)] ==
        IF k = 0 THEN list
        ELSE IF head[k - 1] # << >> /\ p[Head(head[k - 1])] = q
        THEN Tail(head[k - 1])
        ELSE head[k - 1]
  IN  head[Len(list)]

\* Mutant: the walk steps on after it has removed a timer.
ExitedNextMutant(w, q) ==
  IF w.t >= Len(w.list) THEN w
  ELSE [list |-> IF p[w.list[w.t + 1]] = q THEN Unlink(w.list, w.t + 1) ELSE w.list,
        t |-> w.t + 1]

\* and one round of the loop over the others: the timer behind place t is removed or
\* becomes the next t.
ExitedNext(w, q) ==
  IF w.t >= Len(w.list) THEN w
  ELSE IF p[w.list[w.t + 1]] = q
  THEN [w EXCEPT !.list = Unlink(w.list, w.t + 1)]
  ELSE [w EXCEPT !.t = w.t + 1]

\* What the two loops leave of the list.
Exited(list, q) ==
  LET rest == ExitedHead(list, q)
      walk[k \in 0 .. Len(rest)] ==
        IF k = 0 THEN [list |-> rest, t |-> 1] ELSE ExitedNext(walk[k - 1], q)
  IN  walk[Len(rest)].list

\* exit_process(q), up to the EXITED event that etimer_process handles before
\* anything else happens.  update_time() is not called.
Exit(q) ==
  /\ q \in alive
  /\ alive' = alive \ {q}
  /\ timerlist' = Exited(timerlist, q)
  /\ settled' = (settled /\ timerlist' = timerlist)
  /\ UNCHANGED << timeVars, p, interval, polled, scan, queue, ghostVars >>

\* The thread of the process ends.
AppEnd ==
  /\ Exit(cur)
  /\ cur' = NONE
  /\ UNCHANGED << turn, exiter >>

\* process_exit() of another process, by cur or, if that is NONE, by a process that
\* uses no timers.  The thread of the process then gets EXIT: it runs when its timers
\* have gone already, and may set others.  The bound: no process is exited from a
\* thread that handles EXIT.
AppExit ==
  /\ exiter = NONE /\ (cur = NONE => turn = "apps")
  /\ \E q \in Proc \ {cur} : Exit(q) /\ cur' = q
  /\ exiter' = cur
  /\ turn' = IF cur = NONE THEN "poll" ELSE turn

\* A process that has ended is started again.
AppStart ==
  /\ cur = NONE /\ turn = "apps"
  /\ turn' = "poll"
  /\ \E q \in Proc \ alive : alive' = alive \cup {q} /\ cur' = q
  /\ UNCHANGED << timeVars, listVars, polled, scan, queue, exiter, ghostVars >>

-----------------------------------------------------------------------------
EtimerTypeOK ==
  /\ timerlist \in Seq(Timer)
  /\ p \in [Timer -> Proc \cup {CTIMER, NONE}]
  /\ elapsed \in [Timer -> Int] /\ ahead \in 0 .. ClockSpan - 1
  /\ interval \in [Timer -> Interval]
  /\ polled \in BOOLEAN /\ settled \in BOOLEAN
  /\ scan \in 0 .. Len(timerlist) + 1
  /\ queue \in Seq((Proc \cup {CTIMER}) \X (Timer \cup {NONE}))
  /\ Len(queue) <= NUMEVENTS
  /\ turn \in {"apps", "poll", "event"}
  /\ cur \in Proc \cup {NONE} /\ alive \subseteq Proc
  /\ exiter \in Proc \cup {NONE}
  /\ overtaken \subseteq Timer /\ orphans \subseteq Timer

\* The linked list never closes into a cycle and no expired timer is on it: no
\* timer is inserted twice, although add_timer() looks for it on the list only
\* when its process pointer is not null (add_timer, etimer_stop, etimer_process).
ListSound ==
  /\ \A i, j \in DOMAIN timerlist : i # j => timerlist[i] # timerlist[j]
  /\ \A t \in Listed : p[t] # NONE

\* When a timer's event is posted its interval has passed, wherever the clock has
\* wrapped, and the timer is taken off the list with the post (timer_expired,
\* etimer_process).
NotEarly ==
  [][\A t \in Timer :
       Len(queue') > Len(queue) /\ queue'[Len(queue')][2] = t
         => left(t) <= 0 /\ p[t] = queue'[Len(queue')][1]]_etimerVars

\* An expired timer does not stay on the list for ever: its event is posted,
\* although the queue was full when it was tried, or the timer is set again,
\* stopped, or removed with its process (etimer_process).
ExpiredServed ==
  \A t \in Timer : []<>~(t \in Listed /\ left(t) <= 0)

\* No timer of a process that has ended is on the list, wherever on it its timers
\* were -- except one that was set after the end: by a callback function that ran
\* in the name of the process, or by its own thread when it handled EXIT, which
\* exit_process() sends after EXITED (etimer_process, exit_process).
EndedHaveNoTimers ==
  \A t \in Listed : p[t] \in alive \cup {CTIMER} \/ t \in orphans

\* While no timer is late, etimer_next_expiration_time() is when the first of them
\* expires -- unless timers have been removed with their process, after which it
\* is not computed anew (update_time, etimer_stop, etimer_adjust).
NextIsEarliest ==
  settled /\ timerlist # << >> /\ (\A t \in Listed : left(t) > 0) =>
    /\ \A t \in Listed : ahead <= left(t)
    /\ \E t \in Listed : ahead = left(t)
=============================================================================
