---------------------------- MODULE Rtimer_proofs ----------------------------
(***************************************************************************)
(* Proofs about Rtimer: its types for every use of rtimer_set(), and, for  *)
(* programs that set a timer only when none is pending, that no timer is   *)
(* stranded and every callback runs at its time.                           *)
(***************************************************************************)
EXTENDS Rtimer, TLAPS

\* rtimer_set() in progress: it found the slot empty and the interrupt off, and
\* nobody else has touched them since.
CallInv ==
  call.at # "none" =>
    /\ call.t \in Timer
    /\ call.first
    /\ ~enabled
    /\ call.at \in {"fields", "next"} => next_rtimer = NULL
    /\ call.at \in {"next", "schedule"} => time[call.t] = call.when
    /\ call.at = "schedule" => next_rtimer = call.t

\* Between calls the interrupt is on exactly when a timer is pending, and the
\* compare register holds the timer's time.
SlotInv ==
  call.at = "none" =>
    /\ next_rtimer = NULL <=> ~enabled
    /\ next_rtimer # NULL => ocr = time[next_rtimer]

\* The interrupt is never taken on a stale compare flag.
FlagInv == match /\ enabled => now = ocr

RInv == RtimerTypeOK /\ CallInv /\ SlotInv /\ FlagInv

-----------------------------------------------------------------------------
\* A sum reduced to the width of the counter is a time (TCNT3).
LEMMA WrappedTime == \A n \in Nat : n % Span \in Time
BY RtimerAssumption DEF Time

\* The initial state of the timer is well typed (rtimer_init).
LEMMA RtimerInitType == RInit => RtimerTypeOK
<1> SUFFICES ASSUME RInit PROVE RtimerTypeOK
  OBVIOUS
<1>1. 0 \in Time
  BY RtimerAssumption DEF Time
<1>2. call \in [at : {"none", "fields", "next", "schedule"},
                t : Timer \cup {NULL}, when : Time, first : BOOLEAN]
  BY <1>1 DEF RInit, NoCall
<1>3. awaited \in [Timer -> BOOLEAN]
  BY DEF RInit
<1>4. time \in [Timer -> Time]
  BY <1>1 DEF RInit
<1>5. match \in BOOLEAN /\ enabled \in BOOLEAN
  BY DEF RInit
<1>6. next_rtimer \in Timer \cup {NULL} /\ now \in Time /\ ocr \in Time
  BY <1>1 DEF RInit
<1> QED
  BY <1>2, <1>3, <1>4, <1>5, <1>6 DEF RtimerTypeOK

\* Every step of the timer keeps the types (rtimer_set, rtimer_run_next,
\* rtimer_arch_schedule).
LEMMA RtimerStepType == RtimerTypeOK /\ [RNext]_rvars => RtimerTypeOK'
<1> SUFFICES ASSUME RtimerTypeOK, [RNext]_rvars PROVE RtimerTypeOK'
  OBVIOUS
<1> USE RtimerAssumption DEF RtimerTypeOK, timerUnit
<1>0. Time \subseteq Nat /\ 0 \in Time /\ Delay \subseteq Nat
  BY DEF Time, Delay
<1>1. CASE Tick
  BY <1>0, <1>1, WrappedTime DEF Tick
<1>2. ASSUME NEW t \in Timer, NEW d \in Delay, SetTest(t, d)
      PROVE RtimerTypeOK'
  BY <1>0, <1>2, WrappedTime DEF SetTest
<1>3. CASE SetFields
  BY <1>3 DEF SetFields
<1>4. CASE SetNext
  BY <1>4 DEF SetNext
<1>5. CASE SetSchedule
  BY <1>0, <1>5 DEF SetSchedule, rtimer_arch_schedule, NoCall
<1>6. CASE Fire
  BY <1>6 DEF Fire
<1>7. ASSUME NEW t \in Timer, NEW d \in Delay, FireAgain(t, d)
      PROVE RtimerTypeOK'
  <2>1. awaited' \in [Timer -> BOOLEAN]
    BY <1>7 DEF FireAgain
  <2>2. (now + d) % Span \in Time
    BY <1>0, WrappedTime
  <2>3. /\ next_rtimer' \in Timer \cup {NULL}
        /\ time' \in [Timer -> Time]
        /\ now' \in Time /\ ocr' \in Time
        /\ match' \in BOOLEAN /\ enabled' \in BOOLEAN
    BY <1>7, <2>2 DEF FireAgain, rtimer_arch_schedule
  <2> QED
    BY <1>7, <2>1, <2>3 DEF FireAgain
<1>8. CASE UNCHANGED rvars
  BY <1>8 DEF rvars
<1> QED
  BY <1>1, <1>2, <1>3, <1>4, <1>5, <1>6, <1>7, <1>8
  DEF RNext, SetStep, Handler

\* The variables of the rtimer keep their types, and times stay within 16 bits,
\* whenever rtimer_set() is called (rtimer_set, rtimer_arch_schedule).
THEOREM RtimerTyping == RSpec => []RtimerTypeOK
BY RtimerInitType, RtimerStepType, PTL DEF RSpec

-----------------------------------------------------------------------------
\* The initial state has no timer and the interrupt off (rtimer_arch_init).
LEMMA RtimerInitInv == RInit => RInv
BY RtimerInitType DEF RInit, RInv, CallInv, SlotInv, FlagInv, NoCall

\* Every step keeps the invariant when no timer is set over a pending one
\* (rtimer_set, rtimer_run_next and the interrupt handler).
LEMMA RtimerStepInv ==
  ASSUME ~Overwrite PROVE RInv /\ [RNext]_rvars => RInv'
<1> SUFFICES ASSUME RInv, [RNext]_rvars PROVE CallInv' /\ SlotInv' /\ FlagInv'
  BY RtimerStepType DEF RInv
<1> USE RtimerAssumption DEF RInv, RtimerTypeOK, timerUnit, CallInv, SlotInv, FlagInv
<1>1. CASE Tick
  BY <1>1 DEF Tick
<1>2. ASSUME NEW t \in Timer, NEW d \in Delay, SetTest(t, d)
      PROVE CallInv' /\ SlotInv' /\ FlagInv'
  BY <1>2 DEF SetTest
<1>3. CASE SetFields
  BY <1>3 DEF SetFields
<1>4. CASE SetNext
  BY <1>4 DEF SetNext
<1>5. CASE SetSchedule
  BY <1>5 DEF SetSchedule, rtimer_arch_schedule, NoCall
<1>6. CASE Fire
  BY <1>6 DEF Fire
<1>7. ASSUME NEW t \in Timer, NEW d \in Delay, FireAgain(t, d)
      PROVE CallInv' /\ SlotInv' /\ FlagInv'
  BY <1>7 DEF FireAgain, rtimer_arch_schedule
<1>8. CASE UNCHANGED rvars
  BY <1>8 DEF rvars
<1> QED
  BY <1>1, <1>2, <1>3, <1>4, <1>5, <1>6, <1>7, <1>8
  DEF RNext, SetStep, Handler

\* A timer in the slot is never stranded, at any speed of the counter and any
\* interleaving of rtimer_set() with the interrupt, as long as timers are set
\* only when none is pending (rtimer_set, rtimer_run_next).
THEOREM NeverStranded == ASSUME ~Overwrite PROVE RSpec => []PendingIsScheduled
<1>1. RInv => PendingIsScheduled
  BY RtimerAssumption
  DEF RInv, RtimerTypeOK, CallInv, SlotInv, PendingIsScheduled
<1> QED
  BY <1>1, RtimerInitInv, RtimerStepInv, PTL DEF RSpec

\* Under the same condition every callback runs at the time its timer was set
\* to: no stale compare flag or register ever starts it (rtimer_arch_schedule
\* and the interrupt handler).
THEOREM FiresOnTime == ASSUME ~Overwrite PROVE RSpec => OnTime
<1>1. RInv /\ [RNext]_rvars =>
        [Handler /\ next_rtimer # NULL => now = time[next_rtimer]]_rvars
  <2> SUFFICES ASSUME RInv, Handler, next_rtimer # NULL
               PROVE now = time[next_rtimer]
    OBVIOUS
  <2>1. match /\ enabled
    BY DEF Handler, Fire, FireAgain
  <2> QED
    BY <2>1 DEF RInv, CallInv, SlotInv, FlagInv
<1> QED
  BY <1>1, RtimerInitInv, RtimerStepInv, PTL DEF RSpec, OnTime
=============================================================================
