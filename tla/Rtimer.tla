------------------------------- MODULE Rtimer -------------------------------
(***************************************************************************)
(* The rtimer (core/sys/rtimer.c) over Timer3's compare unit               *)
(* (rtimer_arch_schedule and the head of the interrupt handler in          *)
(* cpu/avr/rtimer-arch.c).  There is one slot, next_rtimer.  rtimer_set()  *)
(* runs in the program with interrupts on, so the handler can come between *)
(* any two of its statements; the handler, its callback and the program's  *)
(* rtimer_arch_schedule() run with interrupts off and are single steps.    *)
(***************************************************************************)
EXTENDS Naturals

CONSTANTS
  Timer,      \* the struct rtimer objects
  NULL,       \* the null pointer
  Span,       \* number of values of TCNT3 (2^16)
  MaxDelay,   \* bound: how far ahead a timer is set
  Overwrite   \* whether the program calls rtimer_set() while a timer is pending

ASSUME RtimerAssumption ==
  /\ NULL \notin Timer
  /\ Span \in Nat \ {0}
  /\ MaxDelay \in Nat /\ MaxDelay < Span
  /\ Overwrite \in BOOLEAN

VARIABLES
  next_rtimer,
  time,        \* rtimer->time
  now,         \* TCNT3
  ocr,         \* OCR3A
  match,       \* OCF3A: the counter has reached ocr
  enabled,     \* OCIE3A
  call,        \* the program's rtimer_set(): statement, timer, time and "first"
  awaited      \* history: the program called rtimer_set(t), t has yet to fire

rvars == << next_rtimer, time, now, ocr, match, enabled, call, awaited >>
timerUnit == << ocr, match, enabled >>

Time == 0 .. Span - 1
Delay == 1 .. MaxDelay

NoCall == [at |-> "none", t |-> NULL, when |-> 0, first |-> FALSE]

RInit ==
  /\ next_rtimer = NULL
  /\ time = [t \in Timer |-> 0]
  /\ now = 0 /\ ocr = 0 /\ match = FALSE /\ enabled = FALSE
  /\ call = NoCall
  /\ awaited = [t \in Timer |-> FALSE]

\* Mutant: a compare match of an earlier schedule is left in the flag.
rtimer_arch_scheduleMutant(t) ==
  /\ ocr' = t
  /\ enabled' = TRUE
  /\ UNCHANGED match

\* TCNT3 counts and reaches OCR3A.  The handler is entered within a tick.
Tick ==
  /\ ~(match /\ enabled)
  /\ now' = (now + 1) % Span
  /\ match' = (match \/ now' = ocr)
  /\ UNCHANGED << next_rtimer, time, ocr, enabled, call, awaited >>

\* rtimer_arch_schedule(): set the compare register, clear the flag, enable.
rtimer_arch_schedule(t) ==
  /\ ocr' = t
  /\ match' = FALSE
  /\ enabled' = TRUE

\* Mutant: the sum of the clock and the delay is not reduced to 16 bits.
SetTestMutant(t, d) ==
  /\ call.at = "none"
  /\ Overwrite \/ next_rtimer = NULL
  /\ call' = [at |-> "fields", t |-> t, when |-> now + d,
              first |-> next_rtimer = NULL]
  /\ awaited' = [awaited EXCEPT ![t] = TRUE]
  /\ UNCHANGED << next_rtimer, time, now, timerUnit >>

\* rtimer_set(t, when): first = (next_rtimer == NULL).
SetTest(t, d) ==
  /\ call.at = "none"
  /\ Overwrite \/ next_rtimer = NULL
  /\ call' = [at |-> "fields", t |-> t, when |-> (now + d) % Span,
              first |-> next_rtimer = NULL]
  /\ awaited' = [awaited EXCEPT ![t] = TRUE]
  /\ UNCHANGED << next_rtimer, time, now, timerUnit >>

\* Mutant: the time of the timer is not stored.
SetFieldsMutant ==
  /\ call.at = "fields"
  /\ call' = [call EXCEPT !.at = "next"]
  /\ UNCHANGED << next_rtimer, time, now, timerUnit, awaited >>

SetFields ==
  /\ call.at = "fields"
  /\ time' = [time EXCEPT ![call.t] = call.when]
  /\ call' = [call EXCEPT !.at = "next"]
  /\ UNCHANGED << next_rtimer, now, timerUnit, awaited >>

SetNext ==
  /\ call.at = "next"
  /\ next_rtimer' = call.t
  /\ call' = [call EXCEPT !.at = "schedule"]
  /\ UNCHANGED << time, now, timerUnit, awaited >>

\* Mutant: only a timer set over a pending one is scheduled.
SetScheduleMutant ==
  /\ call.at = "schedule"
  /\ IF ~call.first THEN rtimer_arch_schedule(call.when) ELSE UNCHANGED timerUnit
  /\ call' = NoCall
  /\ UNCHANGED << next_rtimer, time, now, awaited >>

SetSchedule ==
  /\ call.at = "schedule"
  /\ IF call.first THEN rtimer_arch_schedule(call.when) ELSE UNCHANGED timerUnit
  /\ call' = NoCall
  /\ UNCHANGED << next_rtimer, time, now, awaited >>

\* The handler: disable the interrupt and rtimer_run_next().  The callback of
\* next_rtimer ends (there is none when the slot is empty), or it calls
\* rtimer_set(t, now + d) on the emptied slot and t is scheduled.
Fire ==
  /\ match /\ enabled
  /\ next_rtimer' = NULL
  /\ match' = FALSE /\ enabled' = FALSE
  /\ awaited' = [t \in Timer |-> awaited[t] /\ t # next_rtimer]
  /\ UNCHANGED << time, now, ocr, call >>

FireAgain(t, d) ==
  /\ match /\ enabled /\ next_rtimer # NULL
  /\ next_rtimer' = t
  /\ time' = [time EXCEPT ![t] = (now + d) % Span]
  /\ rtimer_arch_schedule((now + d) % Span)
  /\ awaited' = [awaited EXCEPT ![next_rtimer] = FALSE]
  /\ UNCHANGED << now, call >>

Handler ==
  \/ Fire
  \/ \E t \in Timer, d \in Delay : FireAgain(t, d)

SetStep == SetFields \/ SetNext \/ SetSchedule

RNext ==
  \/ Tick
  \/ \E t \in Timer, d \in Delay : SetTest(t, d)
  \/ SetStep
  \/ Handler

\* The counter runs, the handler is entered and the program finishes a call it
\* has begun.
RSpec ==
  /\ RInit /\ [][RNext]_rvars
  /\ WF_rvars(Tick) /\ WF_rvars(Handler) /\ WF_rvars(SetStep)

-----------------------------------------------------------------------------
RtimerTypeOK ==
  /\ next_rtimer \in Timer \cup {NULL}
  /\ time \in [Timer -> Time]
  /\ now \in Time /\ ocr \in Time
  /\ match \in BOOLEAN /\ enabled \in BOOLEAN
  /\ call \in [at : {"none", "fields", "next", "schedule"},
               t : Timer \cup {NULL}, when : Time, first : BOOLEAN]
  /\ awaited \in [Timer -> BOOLEAN]

\* A timer in the slot is never stranded: either the compare interrupt is
\* enabled for its time, or the rtimer_set() that put it there is about to
\* schedule it (rtimer_set, rtimer_run_next).
PendingIsScheduled ==
  next_rtimer # NULL =>
    \/ enabled /\ ocr = time[next_rtimer]
    \/ call.at = "schedule" /\ call.first /\ call.when = time[next_rtimer]

\* The callback of a timer runs at the time the timer was set to, not before
\* (rtimer.h:100, "time The time when the task is to be executed").
OnTime ==
  [][Handler /\ next_rtimer # NULL => now = time[next_rtimer]]_rvars

\* Every timer the program sets fires (rtimer.h:107, "This function schedules a
\* real-time task at a specified time in the future").
Fires == \A t \in Timer : awaited[t] ~> ~awaited[t]
=============================================================================
