---------------------------- MODULE Ctimer_proofs ----------------------------
(***************************************************************************)
(* Proofs about event timers and callback timers, for any number of them,  *)
(* of processes, and clocks of any width.                                  *)
(*                                                                         *)
(* No timer expires early.  The code sees the time that has passed modulo  *)
(* ClockSpan; the proof is that this is the time itself, because no timer  *)
(* is left unserved for as long as the clock takes to come round.  Nothing *)
(* is needed about the lists.                                              *)
(*                                                                         *)
(* The rest is about the lists: what list_remove() and list_push() do to a *)
(* list without duplicates, and the inductive invariant of the two lists,  *)
(* the event queue and the time of the next expiration.                    *)
(***************************************************************************)
EXTENDS Ctimer, FiniteSetTheorems, SequenceTheorems, TLAPS

TimesOK ==
  /\ interval \in [Timer -> Interval]
  /\ elapsed \in [Timer -> Int]
  /\ \A t \in Timer : 0 <= elapsed[t] /\ elapsed[t] <= interval[t] + MaxLag

QueueOK ==
  /\ \E S : queue \in Seq(S)
  /\ Len(queue) <= NUMEVENTS

TimeInv == TimesOK /\ QueueOK

\* The event t is posted in the name of its process when its interval has passed.
PostedInTime ==
  \A t \in Timer :
    Len(queue') > Len(queue) /\ queue'[Len(queue')][2] = t
      => left(t) <= 0 /\ p[t] = queue'[Len(queue')][1]

-----------------------------------------------------------------------------
\* A number smaller than the modulus is its own remainder.
LEMMA SmallMod ==
  ASSUME NEW x \in Nat, NEW m \in Nat \ {0}, x < m
  PROVE  x % m = x
OBVIOUS

\* timer_expired() is not deceived by the width of the clock.
LEMMA ExpiredIsOver ==
  ASSUME TimesOK, NEW t \in Timer, Expired(t)
  PROVE  left(t) <= 0
<1>0. /\ interval[t] \in Interval /\ elapsed[t] \in Int
      /\ 0 <= elapsed[t] /\ elapsed[t] <= interval[t] + MaxLag
  BY DEF TimesOK
<1>1. /\ interval[t] \in Nat /\ elapsed[t] + 1 \in Nat
      /\ elapsed[t] + 1 < ClockSpan /\ ClockSpan \in Nat \ {0}
  <2>1. /\ interval[t] \in Nat /\ MaxLag \in Nat /\ ClockSpan \in Nat \ {0}
        /\ interval[t] + MaxLag < ClockSpan - 1
    BY <1>0, EtimerAssumption
  <2> QED
    BY <1>0, <2>1
<1>2. (elapsed[t] + 1) % ClockSpan = elapsed[t] + 1
  BY <1>1, SmallMod
<1> QED
  BY <1>0, <1>1, <1>2 DEF Expired, left

\* Setting a timer, in any of the ways there are, leaves the times in order.
LEMMA SetKeepsTimes ==
  ASSUME TimesOK, NEW t \in Timer, NEW who,
         \/ \E i \in Interval : etimer_set(t, i, who)
         \/ etimer_reset(t, who)
         \/ etimer_restart(t, who)
         \/ \E d \in {-1, 1} : etimer_adjust(t, d)
         \/ etimer_stop(t)
  PROVE  TimesOK'
<1>0. /\ interval[t] \in Int /\ elapsed[t] \in Int /\ MaxLag \in Nat
      /\ \A i \in Interval : i \in Int /\ 0 < i
  <2>1. /\ MaxLag \in Nat
        /\ \A i \in Interval : i \in Int /\ 0 < i
    BY EtimerAssumption
  <2>2. interval[t] \in Interval /\ elapsed[t] \in Int
    BY DEF TimesOK
  <2> QED
    BY <2>1, <2>2
<1>1. CASE \E i \in Interval : etimer_set(t, i, who)
  BY <1>0, <1>1 DEF TimesOK, etimer_set
<1>2. CASE etimer_reset(t, who)
  <2>1. elapsed' = [elapsed EXCEPT ![t] = elapsed[t] - interval[t]]
        /\ UNCHANGED interval
    BY <1>2 DEF etimer_reset
  <2>2. /\ 0 <= elapsed[t] - interval[t]
        /\ elapsed[t] - interval[t] <= interval[t] + MaxLag
    BY <1>0, <1>2 DEF etimer_reset, left, TimesOK
  <2> QED
    BY <1>0, <2>1, <2>2 DEF TimesOK
<1>3. CASE etimer_restart(t, who)
  <2>1. elapsed' = [elapsed EXCEPT ![t] = 0] /\ UNCHANGED interval
    BY <1>3 DEF etimer_restart
  <2>2. 0 <= interval[t] + MaxLag
    BY <1>0 DEF TimesOK
  <2> QED
    BY <2>1, <2>2 DEF TimesOK
<1>4. CASE \E d \in {-1, 1} : etimer_adjust(t, d)
  <2>1. PICK d \in {-1, 1} : etimer_adjust(t, d)
    BY <1>4
  <2>2. /\ elapsed' = [elapsed EXCEPT ![t] = elapsed[t] - d] /\ UNCHANGED interval
        /\ interval[t] - elapsed[t] + d > 0 /\ elapsed[t] - d >= 0
    BY <2>1 DEF etimer_adjust, left
  <2>3. elapsed[t] - d <= interval[t] + MaxLag /\ elapsed[t] - d \in Int
    BY <1>0, <2>2
  <2> QED
    BY <1>0, <2>2, <2>3 DEF TimesOK
<1>5. CASE etimer_stop(t)
  BY <1>5 DEF etimer_stop, TimesOK
<1> QED
  BY <1>1, <1>2, <1>3, <1>4, <1>5

\* What the prover needs to know about the queue when it grows,
LEMMA QueueGrows ==
  ASSUME QueueOK, NEW x
  PROVE  /\ Len(queue) \in Nat
         /\ \E S : Append(queue, x) \in Seq(S)
         /\ Len(Append(queue, x)) = Len(queue) + 1
         /\ Append(queue, x)[Len(queue) + 1] = x
<1>1. PICK S : queue \in Seq(S)
  BY DEF QueueOK
<1> DEFINE T == S \cup {x}
<1>2. queue \in Seq(T) /\ x \in T
  BY <1>1
<1> HIDE DEF T
<1>3. Append(queue, x) \in Seq(T)
  BY <1>2
<1>4. /\ Len(queue) \in Nat
      /\ Len(Append(queue, x)) = Len(queue) + 1
      /\ Append(queue, x)[Len(queue) + 1] = x
  BY <1>2
<1> QED
  BY <1>3, <1>4

\* and when it shrinks.
LEMMA QueueShrinks ==
  ASSUME QueueOK, queue # << >>
  PROVE  /\ Len(queue) \in Nat
         /\ \E S : Tail(queue) \in Seq(S)
         /\ Len(Tail(queue)) = Len(queue) - 1
<1>1. PICK S : queue \in Seq(S)
  BY DEF QueueOK
<1>2. Tail(queue) \in Seq(S)
  BY <1>1
<1>3. Len(queue) \in Nat /\ Len(Tail(queue)) = Len(queue) - 1
  BY <1>1
<1> QED
  BY <1>2, <1>3

\* Or takes in a sequence.
LEMMA Concatenation ==
  ASSUME NEW T, NEW a \in Seq(T), NEW b \in Seq(T)
  PROVE  /\ a \o b \in Seq(T) /\ Len(a \o b) = Len(a) + Len(b)
         /\ \A i \in 1 .. Len(b) : (a \o b)[Len(a) + i] = b[i]
OBVIOUS

\* The times do not change and the queue does not grow.
LEMMA QuietStep ==
  ASSUME TimeInv, UNCHANGED << elapsed, interval >>,
         \/ UNCHANGED queue
         \/ queue # << >> /\ queue' = Tail(queue)
  PROVE  TimeInv' /\ PostedInTime
<1>1. TimesOK'
  BY DEF TimeInv, TimesOK
<1>2. CASE UNCHANGED queue
  <2>1. Len(queue) \in Nat
    BY QueueGrows DEF TimeInv
  <2>2. PostedInTime
    BY <1>2, <2>1 DEF PostedInTime
  <2>3. QueueOK'
    BY <1>2 DEF TimeInv, QueueOK
  <2> QED
    BY <1>1, <2>2, <2>3 DEF TimeInv
<1>3. CASE queue # << >> /\ queue' = Tail(queue)
  <2>1. /\ Len(queue) \in Nat /\ Len(queue) <= NUMEVENTS /\ NUMEVENTS \in Nat
        /\ Len(queue') = Len(queue) - 1
    BY <1>3, QueueShrinks, EtimerAssumption DEF TimeInv, QueueOK
  <2>2. \E S : queue' \in Seq(S)
    BY <1>3, QueueShrinks DEF TimeInv
  <2>3. Len(queue') <= NUMEVENTS
    BY <2>1
  <2>4. PostedInTime
    BY <2>1 DEF PostedInTime
  <2> QED
    BY <1>1, <2>2, <2>3, <2>4 DEF TimeInv, QueueOK
<1> QED
  BY <1>2, <1>3

\* A timer is set, the queue is not touched.
LEMMA SetStep ==
  ASSUME TimeInv, NEW t \in Timer, NEW who, UNCHANGED queue,
         \/ \E i \in Interval : etimer_set(t, i, who)
         \/ etimer_reset(t, who)
         \/ etimer_restart(t, who)
         \/ \E d \in {-1, 1} : etimer_adjust(t, d)
         \/ etimer_stop(t)
  PROVE  TimeInv' /\ PostedInTime
<1>1. TimesOK'
  BY SetKeepsTimes DEF TimeInv
<1>2. Len(queue) \in Nat
  BY QueueGrows DEF TimeInv
<1>3. PostedInTime
  BY <1>2 DEF PostedInTime
<1>4. QueueOK'
  BY DEF TimeInv, QueueOK
<1> QED
  BY <1>1, <1>3, <1>4 DEF TimeInv

-----------------------------------------------------------------------------
\* The clock: a timer whose delay is at its bound does not grow older.
LEMMA ClockStep ==
  ASSUME TimeInv, Clock
  PROVE  TimeInv' /\ PostedInTime
<1>1. /\ elapsed' = [t \in Timer |-> IF left(t) > -MaxLag THEN elapsed[t] + 1
                                                         ELSE elapsed[t]]
      /\ UNCHANGED << interval, queue >>
  BY DEF Clock, Tick, listVars, kernelVars
<1>2. TimesOK'
  <2>1. ASSUME NEW t \in Timer
        PROVE  /\ elapsed'[t] \in Int /\ 0 <= elapsed'[t]
               /\ elapsed'[t] <= interval[t] + MaxLag
    <3>1. /\ interval[t] \in Int /\ elapsed[t] \in Int /\ MaxLag \in Int
          /\ 0 <= elapsed[t] /\ elapsed[t] <= interval[t] + MaxLag
      <4>1. interval[t] \in Interval /\ elapsed[t] \in Int
        BY DEF TimeInv, TimesOK
      <4>2. MaxLag \in Int /\ \A i \in Interval : i \in Int
        BY EtimerAssumption
      <4> QED
        BY <4>1, <4>2 DEF TimeInv, TimesOK
    <3>2. elapsed'[t] = IF interval[t] - elapsed[t] > -MaxLag THEN elapsed[t] + 1
                                                              ELSE elapsed[t]
      BY <1>1 DEF left
    <3> QED
      BY <3>1, <3>2
  <2>2. elapsed' \in [Timer -> Int]
    <3>1. elapsed' = [t \in Timer |-> elapsed'[t]]
      BY <1>1
    <3> QED
      BY <2>1, <3>1
  <2> QED
    BY <1>1, <2>1, <2>2 DEF TimeInv, TimesOK
<1>3. Len(queue) \in Nat
  BY QueueGrows DEF TimeInv
<1>4. PostedInTime
  BY <1>1, <1>3 DEF PostedInTime
<1>5. QueueOK'
  BY <1>1 DEF TimeInv, QueueOK
<1> QED
  BY <1>2, <1>4, <1>5 DEF TimeInv

\* etimer_process, one timer of its list.
LEMMA ScanInv ==
  ASSUME TimeInv, ScanStep
  PROVE  TimeInv' /\ PostedInTime
<1> DEFINE t == timerlist[scan]
<1>1. CASE Expired(t) /\ ~QueueFull /\ ScanPost(t)
  <2>1. /\ queue' = Append(queue, << p[t], t >>)
        /\ UNCHANGED << elapsed, interval >>
    BY <1>1 DEF ScanPost
  <2>2. /\ Len(queue) \in Nat /\ Len(queue') = Len(queue) + 1
        /\ queue'[Len(queue) + 1] = << p[t], t >>
        /\ Len(queue) <= NUMEVENTS /\ Len(queue) # NUMEVENTS /\ NUMEVENTS \in Nat
    BY <1>1, <2>1, QueueGrows, EtimerAssumption DEF TimeInv, QueueOK, QueueFull
  <2>3. \E S : queue' \in Seq(S)
    BY <2>1, QueueGrows DEF TimeInv
  <2>4. Len(queue') <= NUMEVENTS
    BY <2>2
  <2>5. ASSUME NEW u \in Timer, queue'[Len(queue')][2] = u
        PROVE  left(u) <= 0 /\ p[u] = queue'[Len(queue')][1]
    <3>1. u = t /\ queue'[Len(queue')][1] = p[t]
      BY <2>2, <2>5
    <3> HIDE DEF t
    <3>2. left(u) <= 0
      BY <1>1, <3>1, ExpiredIsOver DEF TimeInv
    <3> QED
      BY <3>1, <3>2
  <2>6. PostedInTime
    BY <2>5 DEF PostedInTime
  <2>7. TimesOK'
    BY <2>1 DEF TimeInv, TimesOK
  <2> QED
    BY <2>3, <2>4, <2>6, <2>7 DEF TimeInv, QueueOK
<1>2. CASE ~(Expired(t) /\ ~QueueFull /\ ScanPost(t))
  <2>1. UNCHANGED << elapsed, interval, queue >>
    BY <1>2 DEF ScanStep, timeVars, listVars
  <2> QED
    BY <2>1, QuietStep
<1> QED
  BY <1>1, <1>2

\* A process fills the queue: with events that are not of a timer.
LEMMA PostInv ==
  ASSUME TimeInv, AppPost
  PROVE  TimeInv' /\ PostedInTime
<1> DEFINE n == NUMEVENTS - Len(queue)
           more == [i \in 1 .. n |-> << cur, NONE >>]
<1>1. PICK S : queue \in Seq(S)
  BY DEF TimeInv, QueueOK
<1>2. Len(queue) \in Nat /\ n \in Nat /\ NUMEVENTS \in Nat
  BY <1>1, EtimerAssumption DEF TimeInv, QueueOK
<1> DEFINE T == S \cup {<< cur, NONE >>}
<1>3. queue \in Seq(T) /\ << cur, NONE >> \in T
  BY <1>1
<1>4. queue' = queue \o more /\ UNCHANGED << elapsed, interval >>
  BY DEF AppPost, timeVars, listVars
<1> HIDE DEF T, n
<1>5. more \in Seq(T) /\ Len(more) = n
  BY <1>2, <1>3
<1>6. /\ queue' \in Seq(T) /\ Len(queue') = Len(queue) + n
      /\ \A i \in 1 .. n : (queue \o more)[Len(queue) + i] = more[i]
  <2> HIDE DEF more
  <2> QED
    BY <1>3, <1>4, <1>5, Concatenation
<1>7. Len(queue') <= NUMEVENTS
  BY <1>2, <1>6 DEF n
<1>8. Len(queue') > Len(queue) => queue'[Len(queue')] = << cur, NONE >>
  <2> SUFFICES ASSUME Len(queue') > Len(queue)
               PROVE  queue'[Len(queue')] = << cur, NONE >>
    OBVIOUS
  <2>1. n \in 1 .. n
    BY <1>2, <1>6
  <2>2. more[n] = << cur, NONE >>
    BY <2>1
  <2> HIDE DEF more
  <2> QED
    BY <1>4, <1>6, <2>1, <2>2
<1>9. PostedInTime
  BY <1>8, EtimerAssumption DEF PostedInTime
<1>10. TimesOK' /\ QueueOK'
  BY <1>4, <1>6, <1>7 DEF TimeInv, TimesOK, QueueOK
<1> QED
  BY <1>9, <1>10 DEF TimeInv

-----------------------------------------------------------------------------
LEMMA TimeInit == Init => TimeInv
<1> SUFFICES ASSUME Init PROVE TimeInv
  OBVIOUS
<1> DEFINE d == CHOOSE i \in Interval : TRUE
<1>1. d \in Interval
  BY EtimerAssumption
<1>2. /\ interval = [t \in Timer |-> d]
      /\ elapsed = [t \in Timer |-> interval[t] + MaxLag]
      /\ queue = << >>
  BY DEF Init, EtimerInit
<1> HIDE DEF d
<1>3. MaxLag \in Nat /\ NUMEVENTS \in Nat /\ d \in Nat
  BY <1>1, EtimerAssumption
<1>4. TimesOK
  BY <1>1, <1>2, <1>3 DEF TimesOK
<1>5. queue \in Seq({}) /\ Len(queue) <= NUMEVENTS
  BY <1>2, <1>3
<1> QED
  BY <1>4, <1>5 DEF TimeInv, QueueOK

LEMMA TimeNext == TimeInv /\ [Next]_vars => TimeInv' /\ PostedInTime
<1> SUFFICES ASSUME TimeInv, [Next]_vars PROVE TimeInv' /\ PostedInTime
  OBVIOUS
<1>1. CASE UNCHANGED vars
  BY <1>1, QuietStep DEF vars, etimerVars, timeVars, listVars, kernelVars
<1>2. CASE Clock
  BY <1>2, ClockStep
<1>3. CASE Kernel
  <2>1. CASE ScanStep
    BY <2>1, ScanInv
  <2>2. CASE RunPoll \/ ScanEnd \/ RunApps \/ Return
    BY <2>2, QuietStep DEF RunPoll, ScanEnd, RunApps, Return, timeVars, listVars
  <2>3. CASE RunEvent
    BY <2>3, QuietStep DEF RunEvent, timeVars, listVars
  <2>4. CASE CtimerEvent
    BY <2>4, QuietStep DEF CtimerEvent, timeVars, listVars
  <2> QED
    BY <1>3, <2>1, <2>2, <2>3, <2>4 DEF Kernel
<1>4. CASE App
  <2>1. CASE AppTimer
    <3>1. UNCHANGED queue
      BY <2>1 DEF AppTimer, kernelVars
    <3>2. PICK t \in ETimer :
            \/ \E i \in Interval : etimer_set(t, i, cur)
            \/ etimer_reset(t, cur)
            \/ etimer_restart(t, cur)
            \/ \E d \in {-1, 1} : etimer_adjust(t, d)
            \/ etimer_stop(t)
      BY <2>1 DEF AppTimer
    <3>3. t \in Timer
      BY DEF Timer
    <3> QED
      BY <3>1, <3>2, <3>3, SetStep
  <2>2. CASE AppPost
    BY <2>2, PostInv
  <2>3. CASE AppStart \/ AppExit \/ AppEnd \/ CallbackExit
    BY <2>3, QuietStep DEF AppStart, AppExit, AppEnd, CallbackExit, Exit, timeVars, listVars
  <2>4. CASE CtimerSet \/ CtimerReset \/ CtimerStop
    <3>1. UNCHANGED queue
      BY <2>4 DEF CtimerSet, CtimerReset, CtimerStop, kernelVars
    <3>2. PICK t \in CTimer :
            \/ \E i \in Interval : etimer_set(t, i, CTIMER)
            \/ etimer_reset(t, CTIMER)
            \/ etimer_restart(t, CTIMER)
            \/ etimer_stop(t)
      BY <2>4 DEF CtimerSet, CtimerReset, CtimerStop
    <3>3. t \in Timer
      BY DEF Timer
    <3> QED
      BY <3>1, <3>2, <3>3, SetStep
  <2> QED
    BY <1>4, <2>1, <2>2, <2>3, <2>4 DEF App
<1> QED
  BY <1>1, <1>2, <1>3, <1>4 DEF Next

\* No TIMER event is posted before the interval of its timer has passed, and it is
\* posted to the process the timer was set for, whatever the width of the clock, as
\* long as an interval and the delay of its service fit the clock.
THEOREM NoneEarly == Spec => NotEarly
<1>1. TimeInv /\ [Next]_vars =>
        [\A t \in Timer :
           Len(queue') > Len(queue) /\ queue'[Len(queue')][2] = t
             => left(t) <= 0 /\ p[t] = queue'[Len(queue')][1]]_etimerVars
  BY TimeNext DEF PostedInTime
<1>2. TimeInv /\ [Next]_vars => TimeInv'
  BY TimeNext
<1> QED
  BY <1>1, <1>2, TimeInit, PTL DEF Spec, NotEarly

-----------------------------------------------------------------------------
\* Every set of numbers that is not empty has a least element: {1 .. n : n \in T}
\* has a minimal element, since strict inclusion of finite sets is well founded.
LEMMA Least ==
  ASSUME NEW T \in SUBSET Nat, T # {}
  PROVE  \E x \in T : \A y \in T : x <= y
<1> DEFINE F == {1 .. n : n \in T}
<1>1. F \subseteq FiniteSubsetsOf(Nat) /\ F # {}
  <2>1. ASSUME NEW n \in T PROVE 1 .. n \in FiniteSubsetsOf(Nat)
    <3>1. n \in Int /\ 1 .. n \in SUBSET Nat
      OBVIOUS
    <3>2. IsFiniteSet(1 .. n)
      BY <3>1, FS_Interval
    <3> QED
      BY <3>1, <3>2 DEF FiniteSubsetsOf
  <2> QED
    BY <2>1
<1>2. IsWellFoundedOn(StrictSubsetOrdering(Nat), FiniteSubsetsOf(Nat))
  BY FS_StrictSubsetOrderingWellFounded
<1>3. PICK I \in F : \A J \in F : ~ (<<J, I>> \in StrictSubsetOrdering(Nat))
  <2> HIDE DEF F
  <2> QED
    BY <1>1, <1>2, WFMin
<1>4. PICK m \in T : I = 1 .. m
  OBVIOUS
<1>5. ASSUME NEW n \in T PROVE m <= n
  <2>1. SUFFICES ASSUME n < m PROVE FALSE
    OBVIOUS
  <2>2. 1 .. n \in SUBSET Nat /\ 1 .. m \in SUBSET Nat /\ 1 .. n \subseteq 1 .. m /\ 1 .. n # 1 .. m
    <3>1. m \in 1 .. m /\ m \notin 1 .. n
      BY <2>1
    <3> QED
      BY <3>1, <2>1
  <2>3. << 1 .. n, 1 .. m >> \in StrictSubsetOrdering(Nat)
    BY <2>2 DEF StrictSubsetOrdering
  <2> QED
    BY <1>3, <1>4, <2>3
<1> QED
  BY <1>5

LEMMA NatInd ==
  ASSUME NEW S, 0 \in S, \A n \in Nat : n \in S => n + 1 \in S
  PROVE  Nat \subseteq S
<1> DEFINE T == Nat \ S
<1>1. SUFFICES ASSUME T # {} PROVE FALSE
  OBVIOUS
<1>2. PICK x \in T : \A y \in T : x <= y
  <2> HIDE DEF T
  <2>1. T \in SUBSET Nat
    BY DEF T
  <2> QED
    BY <1>1, <2>1, Least
<1>3. x - 1 \in Nat /\ x - 1 \notin T
  BY <1>2
<1> QED
  BY <1>2, <1>3

\* The elements of a list, and that it holds none of them twice.
Ran(s) == {s[i] : i \in DOMAIN s}
Distinct(s) == \A i, j \in DOMAIN s : i # j => s[i] # s[j]

LEMMA AppendList ==
  ASSUME NEW S, NEW s \in Seq(S), NEW x \in S
  PROVE  /\ Append(s, x) \in Seq(S) /\ Ran(Append(s, x)) = Ran(s) \cup {x}
         /\ Distinct(s) /\ x \notin Ran(s) => Distinct(Append(s, x))
<1>1. /\ Append(s, x) \in Seq(S) /\ Len(Append(s, x)) = Len(s) + 1 /\ Len(s) \in Nat
      /\ \A i \in 1 .. Len(s) : Append(s, x)[i] = s[i]
      /\ Append(s, x)[Len(s) + 1] = x
  BY AppendProperties
<1> DEFINE n == Len(s)
           t == Append(s, x)
<1>2. DOMAIN s = 1 .. n /\ DOMAIN t = 1 .. n + 1 /\ n \in Nat
  BY <1>1
<1> HIDE DEF n, t
<1>3. /\ \A i \in 1 .. n : i \in 1 .. n + 1 /\ t[i] = s[i] /\ i # n + 1
      /\ \A i \in 1 .. n + 1 : i \in 1 .. n \/ i = n + 1
      /\ n + 1 \in 1 .. n + 1 /\ t[n + 1] = x
  BY <1>1, <1>2 DEF n, t
<1>4. Ran(t) = Ran(s) \cup {x}
  BY <1>2, <1>3 DEF Ran
<1>5. ASSUME Distinct(s), x \notin Ran(s) PROVE Distinct(t)
  BY <1>2, <1>3, <1>5 DEF Distinct, Ran
<1> QED
  BY <1>1, <1>4, <1>5 DEF t

LEMMA PrependList ==
  ASSUME NEW S, NEW s \in Seq(S), NEW x \in S
  PROVE  /\ << x >> \o s \in Seq(S) /\ Ran(<< x >> \o s) = Ran(s) \cup {x}
         /\ Distinct(s) /\ x \notin Ran(s) => Distinct(<< x >> \o s)
<1> DEFINE n == Len(s)
           t == << x >> \o s
<1>1. /\ t \in Seq(S) /\ Len(t) = n + 1 /\ t[1] = x /\ n \in Nat
      /\ \A i \in 1 .. n : t[i + 1] = s[i]
  OBVIOUS
<1>2. DOMAIN s = 1 .. n /\ DOMAIN t = 1 .. n + 1
  BY <1>1
<1> HIDE DEF n, t
<1>3. /\ \A i \in 1 .. n : i + 1 \in 1 .. n + 1 /\ t[i + 1] = s[i] /\ i \in Nat /\ i > 0
      /\ \A i \in 1 .. n + 1 : i = 1 \/ (i - 1 \in 1 .. n /\ (i - 1) + 1 = i)
      /\ 1 \in 1 .. n + 1
  BY <1>1, <1>2
<1>4. Ran(t) = Ran(s) \cup {x}
  <2>1. ASSUME NEW i \in 1 .. n + 1 PROVE t[i] \in Ran(s) \cup {x}
    <3>1. CASE i = 1
      BY <1>1, <3>1
    <3>2. CASE i # 1
      <4>1. t[i] = s[i - 1] /\ i - 1 \in 1 .. n
        BY <1>3, <3>2
      <4> QED
        BY <1>2, <4>1 DEF Ran
    <3> QED
      BY <3>1, <3>2
  <2>2. ASSUME NEW i \in 1 .. n PROVE s[i] \in Ran(t)
    BY <1>2, <1>3 DEF Ran
  <2>3. x \in Ran(t)
    BY <1>1, <1>2, <1>3 DEF Ran
  <2> QED
    BY <1>2, <2>1, <2>2, <2>3 DEF Ran
<1>5. ASSUME Distinct(s), x \notin Ran(s) PROVE Distinct(t)
  <2>1. ASSUME NEW i \in 1 .. n + 1, NEW j \in 1 .. n + 1, i # j PROVE t[i] # t[j]
    <3>1. \A k \in 1 .. n + 1 : k # 1 => t[k] = s[k - 1] /\ k - 1 \in 1 .. n
      BY <1>3
    <3>2. \A k \in 1 .. n : s[k] # x
      BY <1>2, <1>5 DEF Ran
    <3>3. CASE i = 1 \/ j = 1
      BY <1>1, <2>1, <3>1, <3>2, <3>3
    <3>4. CASE i # 1 /\ j # 1
      <4>1. i - 1 # j - 1
        BY <2>1
      <4> QED
        BY <1>2, <1>5, <3>1, <3>4, <4>1 DEF Distinct
    <3> QED
      BY <3>3, <3>4
  <2> QED
    BY <1>2, <2>1 DEF Distinct
<1> QED
  BY <1>1, <1>4, <1>5 DEF t

LEMMA TailList ==
  ASSUME NEW S, NEW s \in Seq(S), s # << >>
  PROVE  /\ Tail(s) \in Seq(S) /\ Head(s) \in S /\ Head(s) \in Ran(s)
         /\ Ran(Tail(s)) \subseteq Ran(s) /\ Ran(s) = Ran(Tail(s)) \cup {Head(s)}
<1> DEFINE n == Len(s)
           t == Tail(s)
<1>1. /\ t \in Seq(S) /\ Len(t) = n - 1 /\ Head(s) = s[1] /\ n \in Nat /\ n > 0
      /\ \A i \in 1 .. n - 1 : t[i] = s[i + 1]
      /\ DOMAIN s = 1 .. n /\ DOMAIN t = 1 .. n - 1
  <2>1. t \in Seq(S) /\ Len(t) = n - 1 /\ \A i \in 1 .. n - 1 : t[i] = s[i + 1]
    BY HeadTailProperties
  <2> HIDE DEF t
  <2> QED
    BY <2>1
<1>2. Head(s) \in S
  BY HeadTailProperties
<1> HIDE DEF n, t
<1>3. /\ \A i \in 1 .. n - 1 : i + 1 \in 1 .. n
      /\ \A i \in 1 .. n : i = 1 \/ (i - 1 \in 1 .. n - 1 /\ (i - 1) + 1 = i)
      /\ 1 \in 1 .. n
  BY <1>1
<1>4. Ran(t) \subseteq Ran(s) /\ Head(s) \in Ran(s)
  BY <1>1, <1>3 DEF Ran
<1>5. ASSUME NEW i \in 1 .. n PROVE s[i] \in Ran(t) \cup {Head(s)}
  <2>1. CASE i = 1
    BY <1>1, <2>1
  <2>2. CASE i # 1
    <3>1. i - 1 \in 1 .. n - 1 /\ t[i - 1] = s[i]
      BY <1>1, <1>3, <2>2
    <3> QED
      BY <1>1, <3>1 DEF Ran
  <2> QED
    BY <2>1, <2>2
<1>6. Ran(s) \subseteq Ran(t) \cup {Head(s)}
  BY <1>1, <1>5 DEF Ran
<1> QED
  BY <1>1, <1>2, <1>4, <1>6 DEF t

\* The recursive function of Without exists.
LEMMA WithoutUnfolds ==
  ASSUME NEW list, Len(list) \in Nat, NEW T
  PROVE  \E f : /\ f = [i \in 0 .. Len(list) |->
                          IF i = 0 THEN << >>
                          ELSE IF list[i] \in T THEN f[i - 1] ELSE Append(f[i - 1], list[i])]
                /\ Without(list, T) = f[Len(list)]
<1> DEFINE N == Len(list)
           Next1(f, i) == IF list[i] \in T THEN f[i - 1] ELSE Append(f[i - 1], list[i])
           Good(n, f) == f = [i \in 0 .. n |-> IF i = 0 THEN << >> ELSE Next1(f, i)]
           S == {n \in Nat : \E f : Good(n, f)}
<1>1. 0 \in S
  <2> DEFINE f == [i \in 0 .. 0 |-> << >>]
  <2>1. Good(0, f)
    OBVIOUS
  <2> QED
    BY <2>1
<1>2. ASSUME NEW n \in Nat, n \in S PROVE n + 1 \in S
  <2>1. PICK f : Good(n, f)
    BY <1>2
  <2>2. f = [i \in 0 .. n |-> IF i = 0 THEN << >> ELSE Next1(f, i)]
    BY <2>1
  <2> DEFINE x == IF list[n + 1] \in T THEN f[n] ELSE Append(f[n], list[n + 1])
             g == [i \in 0 .. n + 1 |-> IF i = n + 1 THEN x ELSE f[i]]
  <2> HIDE DEF x
  <2>3. /\ g[n + 1] = x /\ \A i \in 0 .. n : g[i] = f[i]
        /\ DOMAIN g = 0 .. n + 1 /\ g = [i \in 0 .. n + 1 |-> g[i]]
    OBVIOUS
  <2> HIDE DEF g
  <2>4. ASSUME NEW i \in 0 .. n + 1 PROVE g[i] = IF i = 0 THEN << >> ELSE Next1(g, i)
    <3>1. CASE i = n + 1
      <4>1. n \in 0 .. n /\ (n + 1) - 1 = n /\ n + 1 # 0
        BY <1>2
      <4>2. g[n] = f[n]
        BY <2>3, <4>1
      <4> QED
        BY <2>3, <3>1, <4>1, <4>2 DEF x
    <3>2. CASE i # n + 1
      <4>1. i \in 0 .. n /\ (i # 0 => i - 1 \in 0 .. n)
        BY <3>2
      <4>2. g[i] = f[i] /\ (i # 0 => g[i - 1] = f[i - 1])
        BY <2>3, <4>1
      <4>3. f[i] = IF i = 0 THEN << >> ELSE Next1(f, i)
        BY <2>2, <4>1
      <4> QED
        BY <4>2, <4>3
    <3> QED
      BY <3>1, <3>2
  <2>5. Good(n + 1, g)
    <3> HIDE DEF Next1
    <3> QED
      BY <2>3, <2>4
  <2> HIDE DEF Good
  <2> QED
    BY <2>5
<1>3. N \in S
  <2> HIDE DEF S
  <2> QED
    BY <1>1, <1>2, NatInd
<1>4. PICK f : Good(N, f)
  BY <1>3
<1> DEFINE kept == CHOOSE h : h = [i \in 0 .. N |-> IF i = 0 THEN << >> ELSE
                       IF list[i] \in T THEN h[i - 1] ELSE Append(h[i - 1], list[i])]
<1>5. kept = [i \in 0 .. N |-> IF i = 0 THEN << >> ELSE
                IF list[i] \in T THEN kept[i - 1] ELSE Append(kept[i - 1], list[i])]
  BY <1>4
<1>6. Without(list, T) = kept[N]
  BY DEF Without
<1> HIDE DEF kept
<1> QED
  BY <1>5, <1>6

\* Removing timers keeps the others, and does not make duplicates.
LEMMA WithoutList ==
  ASSUME NEW S, NEW list \in Seq(S), NEW T
  PROVE  /\ Without(list, T) \in Seq(S)
         /\ Ran(Without(list, T)) = Ran(list) \ T
         /\ Distinct(list) => Distinct(Without(list, T))
<1> DEFINE N == Len(list)
<1>1. N \in Nat /\ DOMAIN list = 1 .. N /\ \A i \in 1 .. N : list[i] \in S
  OBVIOUS
<1>2. PICK f : /\ f = [i \in 0 .. N |->
                         IF i = 0 THEN << >>
                         ELSE IF list[i] \in T THEN f[i - 1] ELSE Append(f[i - 1], list[i])]
               /\ Without(list, T) = f[N]
  BY <1>1, WithoutUnfolds
<1> HIDE DEF N
<1>3. /\ 0 \in 0 .. N /\ f[0] = << >>
      /\ \A i \in 1 .. N : f[i] = IF list[i] \in T THEN f[i - 1] ELSE Append(f[i - 1], list[i])
  <2>1. \A i \in 1 .. N : i \in 0 .. N /\ i # 0
    BY <1>1
  <2>2. 0 \in 0 .. N
    BY <1>1
  <2> QED
    BY <1>2, <2>1, <2>2
<1> DEFINE First(i) == {list[j] : j \in 1 .. i}
           Kept(i) == /\ f[i] \in Seq(S) /\ Ran(f[i]) = First(i) \ T
                      /\ Distinct(list) => Distinct(f[i])
           G == {i \in Nat : i <= N => Kept(i)}
<1>4. 0 \in G
  <2>1. f[0] = << >> /\ Ran(f[0]) = {} /\ Distinct(f[0]) /\ f[0] \in Seq(S)
    BY <1>3 DEF Ran, Distinct
  <2>2. First(0) = {}
    OBVIOUS
  <2> QED
    BY <2>1, <2>2
<1>5. ASSUME NEW n \in Nat, n \in G PROVE n + 1 \in G
  <2>1. SUFFICES ASSUME n + 1 <= N PROVE Kept(n + 1)
    OBVIOUS
  <2> DEFINE m == n + 1
             x == list[m]
  <2>2. Kept(n) /\ m \in 1 .. N /\ m - 1 = n
    BY <1>1, <1>5, <2>1
  <2>3. x \in S /\ f[m] = IF x \in T THEN f[n] ELSE Append(f[n], x)
    BY <1>1, <1>3, <2>2
  <2>4. First(m) = First(n) \cup {x}
    <3>1. 1 .. m = (1 .. n) \cup {m}
      BY <1>5
    <3> QED
      BY <3>1
  <2>5. Distinct(list) => x \notin First(n)
    <3>1. \A j \in 1 .. n : j \in 1 .. N /\ j # m
      BY <1>1, <2>2
    <3> QED
      BY <1>1, <2>2, <3>1 DEF Distinct
  <2> HIDE DEF x, m, First
  <2>6. ASSUME x \in T PROVE Kept(m)
    BY <2>2, <2>3, <2>4, <2>6
  <2>7. ASSUME x \notin T PROVE Kept(m)
    <3>1. f[n] \in Seq(S) /\ f[m] = Append(f[n], x) /\ Ran(f[n]) = First(n) \ T
      BY <2>2, <2>3, <2>7
    <3>2. /\ f[m] \in Seq(S) /\ Ran(f[m]) = Ran(f[n]) \cup {x}
          /\ Distinct(f[n]) /\ x \notin Ran(f[n]) => Distinct(f[m])
      BY <2>3, <3>1, AppendList
    <3>3. Ran(f[m]) = First(m) \ T
      BY <2>4, <2>7, <3>1, <3>2
    <3>4. Distinct(list) => Distinct(f[m])
      BY <2>2, <2>5, <3>1, <3>2
    <3> QED
      BY <3>2, <3>3, <3>4
  <2> HIDE DEF Kept
  <2> QED
    BY <2>6, <2>7 DEF m
<1>6. Kept(N)
  <2>1. N \in G
    <3> HIDE DEF G
    <3> QED
      BY <1>1, <1>4, <1>5, NatInd
  <2> QED
    BY <1>1, <2>1
<1>7. First(N) = Ran(list)
  BY <1>1 DEF Ran
<1> QED
  BY <1>2, <1>6, <1>7

\* update_time() finds the timer that expires first, unless one is late already.
LEMMA EarliestFound ==
  ASSUME NEW list \in Seq(Timer), NEW el, NEW iv,
         \A t \in Timer : iv[t] \in Interval /\ el[t] \in Int /\ 0 <= el[t],
         update_time(list, el, iv)
  PROVE  /\ ahead' \in 0 .. ClockSpan - 1
         /\ list # << >> /\ (\A t \in Ran(list) : iv[t] - el[t] > 0) =>
              /\ \A t \in Ran(list) : ahead' <= iv[t] - el[t]
              /\ \E t \in Ran(list) : ahead' = iv[t] - el[t]
<1> DEFINE D == {Distance(list[i], el, iv) : i \in DOMAIN list}
<1>1. ClockSpan \in Nat \ {0} /\ MaxLag \in Nat /\ Interval \subseteq Nat
      /\ \A i \in Interval : i + MaxLag < ClockSpan - 1
  BY EtimerAssumption
<1>2. Ran(list) \subseteq Timer /\ (list # << >> => Ran(list) # {})
  <2>1. Ran(list) \subseteq Timer
    BY DEF Ran
  <2>2. list # << >> => 1 \in DOMAIN list
    OBVIOUS
  <2> QED
    BY <2>1, <2>2 DEF Ran
<1>3. D = {Distance(t, el, iv) : t \in Ran(list)}
  BY DEF Ran
<1>4. ASSUME NEW t \in Timer
      PROVE  /\ Distance(t, el, iv) \in 0 .. ClockSpan - 1
             /\ iv[t] - el[t] > 0 => Distance(t, el, iv) = iv[t] - el[t]
  <2>1. iv[t] \in Nat /\ el[t] \in Int /\ 0 <= el[t] /\ iv[t] < ClockSpan
    <3>1. iv[t] \in Interval /\ el[t] \in Int /\ 0 <= el[t]
      OBVIOUS
    <3>2. iv[t] \in Nat /\ iv[t] + MaxLag < ClockSpan - 1
      BY <1>1, <3>1
    <3> QED
      BY <1>1, <3>1, <3>2
  <2> DEFINE y == iv[t] - el[t]
  <2>2. y \in Int /\ y < ClockSpan
    BY <1>1, <2>1
  <2> HIDE DEF y
  <2>3. y % ClockSpan \in 0 .. ClockSpan - 1
    BY <1>1, <2>2
  <2>4. y > 0 => y % ClockSpan = y
    BY <1>1, <2>2, SmallMod
  <2> QED
    BY <2>3, <2>4 DEF y, Distance
<1> HIDE DEF D
<1>5. CASE list = << >>
  BY <1>1, <1>5 DEF update_time
<1>6. CASE list # << >>
  <2>1. D \in SUBSET Nat /\ D # {} /\ D \subseteq 0 .. ClockSpan - 1
    <3>1. D \subseteq 0 .. ClockSpan - 1
      BY <1>2, <1>3, <1>4
    <3> QED
      BY <1>2, <1>3, <1>6, <3>1
  <2>2. \E d \in D : \A e \in D : d <= e
    BY <2>1, Least
  <2>3. ahead' = CHOOSE d \in D : \A e \in D : d <= e
    BY <1>6 DEF update_time, D
  <2>4. ahead' \in D /\ \A e \in D : ahead' <= e
    BY <2>2, <2>3
  <2>5. ASSUME \A t \in Ran(list) : iv[t] - el[t] > 0
        PROVE  D = {iv[t] - el[t] : t \in Ran(list)}
    BY <1>2, <1>3, <1>4, <2>5
  <2>6. ASSUME \A t \in Ran(list) : iv[t] - el[t] > 0
        PROVE  /\ \A t \in Ran(list) : ahead' <= iv[t] - el[t]
               /\ \E t \in Ran(list) : ahead' = iv[t] - el[t]
    BY <2>4, <2>5, <2>6
  <2> QED
    BY <2>1, <2>4, <2>6
<1> QED
  BY <1>5, <1>6

-----------------------------------------------------------------------------
(***************************************************************************)
(* The walk of etimer_process over the list when a process has exited.     *)
(***************************************************************************)
\* f[k] is what k applications of F make of x, up to N.
Iterates(f, N, F, x) == \A k \in 0 .. N : f[k] = IF k = 0 THEN x ELSE F[f[k - 1]]

\* Steps that are applied one after the other: the recursive function exists.
LEMMA Iteration ==
  ASSUME NEW X, NEW F \in [X -> X], NEW x \in X, NEW N \in Nat
  PROVE  \E f \in [0 .. N -> X] : Iterates(f, N, F, x)
<1> DEFINE Good(n, f) == f = [k \in 0 .. n |-> IF k = 0 THEN x ELSE F[f[k - 1]]]
           S == {n \in Nat : \E f \in [0 .. n -> X] : Good(n, f)}
<1>1. 0 \in S
  <2> DEFINE f == [k \in 0 .. 0 |-> x]
  <2>1. Good(0, f) /\ f \in [0 .. 0 -> X]
    OBVIOUS
  <2> QED
    BY <2>1
<1>2. ASSUME NEW n \in Nat, n \in S PROVE n + 1 \in S
  <2>1. PICK f \in [0 .. n -> X] : Good(n, f)
    BY <1>2
  <2> DEFINE g == [k \in 0 .. n + 1 |-> IF k = n + 1 THEN F[f[n]] ELSE f[k]]
  <2>2. n \in 0 .. n /\ f[n] \in X /\ F[f[n]] \in X
    OBVIOUS
  <2>3. g \in [0 .. n + 1 -> X]
    BY <2>2
  <2>4. /\ g[n + 1] = F[f[n]] /\ \A k \in 0 .. n : g[k] = f[k]
        /\ g = [k \in 0 .. n + 1 |-> g[k]]
    OBVIOUS
  <2> HIDE DEF g
  <2>5. ASSUME NEW k \in 0 .. n + 1 PROVE g[k] = IF k = 0 THEN x ELSE F[g[k - 1]]
    <3>1. CASE k = n + 1
      <4>1. k # 0 /\ k - 1 = n /\ n \in 0 .. n
        BY <3>1
      <4> QED
        BY <2>4, <3>1, <4>1
    <3>2. CASE k # n + 1
      <4>1. k \in 0 .. n /\ (k # 0 => k - 1 \in 0 .. n)
        BY <3>2
      <4>2. f[k] = IF k = 0 THEN x ELSE F[f[k - 1]]
        BY <2>1, <4>1
      <4> QED
        BY <2>4, <4>1, <4>2
    <3> QED
      BY <3>1, <3>2
  <2>6. Good(n + 1, g)
    BY <2>4, <2>5
  <2> HIDE DEF Good
  <2> QED
    BY <2>3, <2>6
<1>3. N \in S
  <2> HIDE DEF S
  <2> QED
    BY <1>1, <1>2, NatInd
<1>4. PICK f \in [0 .. N -> X] : Good(N, f)
  BY <1>3
<1>5. ASSUME NEW k \in 0 .. N PROVE f[k] = IF k = 0 THEN x ELSE F[f[k - 1]]
  BY <1>4
<1> QED
  BY <1>5 DEF Iterates

LEMMA UnlinkList ==
  ASSUME NEW S, NEW s \in Seq(S), NEW i \in 1 .. Len(s)
  PROVE  /\ Unlink(s, i) \in Seq(S) /\ Len(Unlink(s, i)) = Len(s) - 1
         /\ Ran(s) = Ran(Unlink(s, i)) \cup {s[i]}
         /\ Distinct(s) => Distinct(Unlink(s, i))
         /\ \A j \in 1 .. i - 1 : Unlink(s, i)[j] = s[j]
<1> DEFINE n == Len(s)
           t == Unlink(s, i)
<1>1. /\ n \in Nat /\ DOMAIN s = 1 .. n /\ i \in 1 .. n
      /\ \A j \in 1 .. n : s[j] \in S
  OBVIOUS
<1>2. t = [j \in 1 .. n - 1 |-> IF j < i THEN s[j] ELSE s[j + 1]]
  BY DEF Unlink
<1> HIDE DEF n, t
<1>3. n - 1 \in Nat /\ \A j \in 1 .. n - 1 : j \in 1 .. n /\ j + 1 \in 1 .. n
  BY <1>1
<1>4. \A j \in 1 .. n - 1 : t[j] \in S
  BY <1>1, <1>2, <1>3
<1>5. t \in [1 .. n - 1 -> S]
  BY <1>2, <1>4
<1>6. t \in Seq(S) /\ Len(t) = n - 1 /\ DOMAIN t = 1 .. n - 1
  BY <1>3, <1>5
<1>7. ASSUME NEW j \in 1 .. n, j # i
      PROVE  \E k \in 1 .. n - 1 : t[k] = s[j]
  <2>1. CASE j < i
    <3>1. j \in 1 .. n - 1
      BY <1>1, <2>1
    <3> QED
      BY <1>2, <2>1, <3>1
  <2>2. CASE j > i
    <3>1. j - 1 \in 1 .. n - 1 /\ ~(j - 1 < i) /\ (j - 1) + 1 = j
      BY <1>1, <2>2
    <3> QED
      BY <1>2, <3>1
  <2> QED
    BY <1>1, <1>7, <2>1, <2>2
<1>8. Ran(s) = Ran(t) \cup {s[i]}
  <2>1. Ran(s) \subseteq Ran(t) \cup {s[i]}
    BY <1>1, <1>6, <1>7 DEF Ran
  <2>2. Ran(t) \subseteq Ran(s) /\ s[i] \in Ran(s)
    BY <1>1, <1>2, <1>3, <1>6 DEF Ran
  <2> QED
    BY <2>1, <2>2
<1>9. ASSUME Distinct(s) PROVE Distinct(t)
  <2>1. ASSUME NEW j \in 1 .. n - 1, NEW k \in 1 .. n - 1, j # k
        PROVE  t[j] # t[k]
    <3> DEFINE a == IF j < i THEN j ELSE j + 1
               b == IF k < i THEN k ELSE k + 1
    <3>1. a \in 1 .. n /\ b \in 1 .. n /\ a # b
      BY <1>1, <2>1
    <3>2. t[j] = s[a] /\ t[k] = s[b]
      BY <1>2
    <3> HIDE DEF a, b
    <3> QED
      BY <1>1, <1>9, <3>1, <3>2 DEF Distinct
  <2> QED
    BY <1>6, <2>1 DEF Distinct
<1>10. \A j \in 1 .. i - 1 : t[j] = s[j]
  <2>1. \A j \in 1 .. i - 1 : j \in 1 .. n - 1 /\ j < i
    BY <1>1
  <2> QED
    BY <1>2, <2>1
<1> QED
  BY <1>6, <1>8, <1>9, <1>10 DEF t, n

LEMMA TailDistinct ==
  ASSUME NEW S, NEW s \in Seq(S), s # << >>, Distinct(s)
  PROVE  Distinct(Tail(s))
<1> DEFINE n == Len(s)
           t == Tail(s)
<1>1. /\ t \in Seq(S) /\ Len(t) = n - 1 /\ \A i \in 1 .. n - 1 : t[i] = s[i + 1]
  BY HeadTailProperties
<1>2. n \in Nat /\ DOMAIN s = 1 .. n
  OBVIOUS
<1> HIDE DEF t
<1>3. DOMAIN t = 1 .. n - 1
  BY <1>1
<1> HIDE DEF n
<1>4. \A i, j \in 1 .. n - 1 : i # j => i + 1 \in 1 .. n /\ j + 1 \in 1 .. n /\ i + 1 # j + 1
  BY <1>2
<1>5. ASSUME NEW i \in 1 .. n - 1, NEW j \in 1 .. n - 1, i # j PROVE t[i] # t[j]
  <2>1. s[i + 1] # s[j + 1]
    BY <1>2, <1>4, <1>5 DEF Distinct
  <2> QED
    BY <1>1, <2>1
<1>6. Distinct(t)
  BY <1>3, <1>5 DEF Distinct
<1> QED
  BY <1>6 DEF t

\* What remains of a list: nothing is new, nothing is lost but members of T, and no
\* duplicates come up.
Remains(s, list, T) ==
  /\ s \in Seq(Timer) /\ Ran(s) \subseteq Ran(list) /\ Ran(list) \ T \subseteq Ran(s)
  /\ Distinct(list) => Distinct(s)

\* The first loop leaves a list that is empty or begins with another process's timer.
LEMMA ExitedHeadList ==
  ASSUME NEW list \in Seq(Timer), NEW q
  PROVE  LET rest == ExitedHead(list, q)
             T == {t \in Timer : p[t] = q}
         IN  Remains(rest, list, T) /\ (rest = << >> \/ Head(rest) \notin T)
<1> DEFINE N == Len(list)
           T == {t \in Timer : p[t] = q}
           X == Seq(Timer)
           F == [l \in X |-> IF l # << >> /\ p[Head(l)] = q THEN Tail(l) ELSE l]
           Unfolds(h) == h = [k \in 0 .. N |->
                               IF k = 0 THEN list
                               ELSE IF h[k - 1] # << >> /\ p[Head(h[k - 1])] = q
                               THEN Tail(h[k - 1]) ELSE h[k - 1]]
           head == CHOOSE h : Unfolds(h)
<1>1. N \in Nat
  OBVIOUS
<1>2. F \in [X -> X]
  OBVIOUS
<1>3. PICK f \in [0 .. N -> X] : Iterates(f, N, F, list)
  <2> HIDE DEF F, X, N
  <2>1. list \in X
    BY DEF X
  <2> QED
    BY <1>1, <1>2, <2>1, Iteration
<1>4. Unfolds(f)
  <2>1. \A k \in 0 .. N : k # 0 => k - 1 \in 0 .. N
    BY <1>1
  <2>2. ASSUME NEW k \in 0 .. N, k # 0
        PROVE  F[f[k - 1]] = IF f[k - 1] # << >> /\ p[Head(f[k - 1])] = q
                             THEN Tail(f[k - 1]) ELSE f[k - 1]
    BY <2>1, <2>2
  <2>3. ASSUME NEW k \in 0 .. N
        PROVE  f[k] = IF k = 0 THEN list
                      ELSE IF f[k - 1] # << >> /\ p[Head(f[k - 1])] = q
                      THEN Tail(f[k - 1]) ELSE f[k - 1]
    <3> HIDE DEF F
    <3> QED
      BY <1>3, <2>2 DEF Iterates
  <2> HIDE DEF F, X
  <2>4. f = [k \in 0 .. N |-> f[k]]
    OBVIOUS
  <2> HIDE DEF N
  <2> QED
    BY <2>3, <2>4
<1>5. Unfolds(head)
  <2> HIDE DEF Unfolds
  <2> QED
    BY <1>4 DEF head
<1>6. ExitedHead(list, q) = head[N]
  BY DEF ExitedHead
<1> HIDE DEF head, F
<1>7. /\ head[0] = list
      /\ \A k \in Nat : k + 1 <= N =>
           head[k + 1] = IF head[k] # << >> /\ p[Head(head[k])] = q
                         THEN Tail(head[k]) ELSE head[k]
  <2>1. 0 \in 0 .. N /\ \A k \in Nat : k + 1 <= N =>
          k + 1 \in 0 .. N /\ k + 1 # 0 /\ (k + 1) - 1 = k
    BY <1>1
  <2> HIDE DEF N
  <2> QED
    BY <1>5, <2>1
<1> DEFINE Kept(k) == /\ Remains(head[k], list, T)
                      /\ \/ head[k] = << >>
                         \/ Head(head[k]) \notin T
                         \/ Len(head[k]) = N - k
           G == {k \in Nat : k <= N => Kept(k)}
<1>8. 0 \in G
  <2>1. Remains(list, list, T)
    BY DEF Remains
  <2> QED
    BY <1>1, <1>7, <2>1
<1>9. ASSUME NEW k \in Nat, k \in G PROVE k + 1 \in G
  <2>1. SUFFICES ASSUME k + 1 <= N PROVE Kept(k + 1)
    OBVIOUS
  <2>2. Kept(k)
    BY <1>1, <1>9, <2>1
  <2>3. /\ head[k] \in Seq(Timer) /\ Ran(head[k]) \subseteq Ran(list)
        /\ Ran(list) \ T \subseteq Ran(head[k]) /\ (Distinct(list) => Distinct(head[k]))
    BY <2>2 DEF Remains
  <2>4. CASE head[k] # << >> /\ p[Head(head[k])] = q
    <3>1. head[k + 1] = Tail(head[k])
      BY <1>7, <2>1, <2>4
    <3>2. /\ Tail(head[k]) \in Seq(Timer) /\ Head(head[k]) \in Timer
          /\ Ran(head[k]) = Ran(Tail(head[k])) \cup {Head(head[k])}
      BY <2>3, <2>4, TailList
    <3>3. Head(head[k]) \in T
      BY <2>4, <3>2
    <3>4. Len(Tail(head[k])) = N - (k + 1)
      <4>1. Len(head[k]) = N - k
        BY <2>2, <2>4, <3>3
      <4>2. Len(Tail(head[k])) = Len(head[k]) - 1
        BY <2>3, <2>4
      <4> QED
        BY <1>1, <4>1, <4>2
    <3>5. Distinct(list) => Distinct(Tail(head[k]))
      BY <2>3, <2>4, TailDistinct
    <3>6. Remains(head[k + 1], list, T)
      <4> HIDE DEF T
      <4> QED
        BY <2>3, <3>1, <3>2, <3>3, <3>5 DEF Remains
    <3> QED
      BY <3>1, <3>4, <3>6
  <2>5. CASE ~(head[k] # << >> /\ p[Head(head[k])] = q)
    <3>1. head[k + 1] = head[k]
      BY <1>7, <2>1, <2>5
    <3>2. head[k] = << >> \/ Head(head[k]) \notin T
      BY <2>5
    <3> HIDE DEF T
    <3> QED
      BY <2>2, <3>1, <3>2
  <2> QED
    BY <2>4, <2>5
<1>10. Kept(N)
  <2>1. N \in G
    <3> HIDE DEF G
    <3> QED
      BY <1>1, <1>8, <1>9, NatInd
  <2> QED
    BY <1>1, <2>1
<1>11. Remains(head[N], list, T) /\ (head[N] = << >> \/ Head(head[N]) \notin T)
  <2>1. Len(head[N]) = N - N => head[N] = << >>
    <3>1. head[N] \in Seq(Timer)
      BY <1>10 DEF Remains
    <3>2. N - N = 0
      BY <1>1
    <3> HIDE DEF N
    <3> QED
      BY <3>1, <3>2
  <2> HIDE DEF T
  <2> QED
    BY <1>10, <2>1
<1> QED
  BY <1>6, <1>11

\* Together the loops leave exactly the timers of other processes.
LEMMA ExitedList ==
  ASSUME NEW list \in Seq(Timer), NEW q
  PROVE  /\ Exited(list, q) \in Seq(Timer)
         /\ Ran(Exited(list, q)) = Ran(list) \ {t \in Timer : p[t] = q}
         /\ Distinct(list) => Distinct(Exited(list, q))
<1> DEFINE rest == ExitedHead(list, q)
           N == Len(rest)
           T == {t \in Timer : p[t] = q}
           X == [list : Seq(Timer), t : Nat \ {0}]
           F == [w \in X |-> ExitedNext(w, q)]
           first == [list |-> rest, t |-> 1]
           Unfolds(h) == h = [k \in 0 .. N |->
                               IF k = 0 THEN [list |-> rest, t |-> 1]
                               ELSE ExitedNext(h[k - 1], q)]
           walk == CHOOSE h : Unfolds(h)
<1>1. Remains(rest, list, T) /\ (rest = << >> \/ Head(rest) \notin T)
  BY ExitedHeadList
<1>2. rest \in Seq(Timer) /\ N \in Nat
  <2> HIDE DEF rest
  <2> QED
    BY <1>1 DEF Remains
<1> HIDE DEF rest
<1>3. ASSUME NEW w \in X
      PROVE  \/ /\ w.t >= Len(w.list)
                /\ ExitedNext(w, q) = w
             \/ /\ w.t + 1 \in 1 .. Len(w.list) /\ w.list[w.t + 1] \in T
                /\ ExitedNext(w, q) = [list |-> Unlink(w.list, w.t + 1), t |-> w.t]
             \/ /\ w.t + 1 \in 1 .. Len(w.list) /\ w.list[w.t + 1] \notin T
                /\ ExitedNext(w, q) = [list |-> w.list, t |-> w.t + 1]
  <2>1. w.list \in Seq(Timer) /\ w.t \in Nat /\ Len(w.list) \in Nat
    OBVIOUS
  <2>2. CASE w.t >= Len(w.list)
    BY <2>2 DEF ExitedNext
  <2>3. CASE ~(w.t >= Len(w.list))
    <3>1. w.t + 1 \in 1 .. Len(w.list)
      BY <2>1, <2>3
    <3>2. w.list[w.t + 1] \in Timer
      BY <2>1, <3>1
    <3>3. CASE p[w.list[w.t + 1]] = q
      <4>1. ExitedNext(w, q) = [w EXCEPT !.list = Unlink(w.list, w.t + 1)]
        BY <2>3, <3>3 DEF ExitedNext
      <4>2. [w EXCEPT !.list = Unlink(w.list, w.t + 1)]
              = [list |-> Unlink(w.list, w.t + 1), t |-> w.t]
        OBVIOUS
      <4> QED
        BY <3>1, <3>2, <3>3, <4>1, <4>2
    <3>4. CASE p[w.list[w.t + 1]] # q
      <4>1. ExitedNext(w, q) = [w EXCEPT !.t = w.t + 1]
        BY <2>3, <3>4 DEF ExitedNext
      <4>2. [w EXCEPT !.t = w.t + 1] = [list |-> w.list, t |-> w.t + 1]
        OBVIOUS
      <4> QED
        BY <3>1, <3>2, <3>4, <4>1, <4>2
    <3> QED
      BY <3>3, <3>4
  <2> QED
    BY <2>2, <2>3
<1> HIDE DEF T
<1>4. F \in [X -> X]
  <2>1. ASSUME NEW w \in X PROVE ExitedNext(w, q) \in X
    <3>1. w.list \in Seq(Timer) /\ w.t \in Nat \ {0}
      OBVIOUS
    <3>2. w.t + 1 \in Nat \ {0}
      BY <3>1
    <3>3. w.t + 1 \in 1 .. Len(w.list) => Unlink(w.list, w.t + 1) \in Seq(Timer)
      BY <3>1, UnlinkList
    <3> QED
      BY <1>3, <3>1, <3>2, <3>3
  <2> HIDE DEF X
  <2> QED
    BY <2>1
<1>5. first \in X
  BY <1>2
<1>6. PICK f \in [0 .. N -> X] : Iterates(f, N, F, first)
  <2> HIDE DEF F, X, N, first
  <2> QED
    BY <1>2, <1>4, <1>5, Iteration
<1>7. Unfolds(f)
  <2>1. \A k \in 0 .. N : k # 0 => k - 1 \in 0 .. N
    BY <1>2
  <2> HIDE DEF X, N
  <2>2. \A k \in 0 .. N : k # 0 => F[f[k - 1]] = ExitedNext(f[k - 1], q)
    BY <2>1
  <2> HIDE DEF F
  <2>3. \A k \in 0 .. N :
          f[k] = IF k = 0 THEN [list |-> rest, t |-> 1] ELSE ExitedNext(f[k - 1], q)
    BY <1>6, <2>2 DEF Iterates, first
  <2>4. f = [k \in 0 .. N |-> f[k]]
    OBVIOUS
  <2> QED
    BY <2>3, <2>4
<1>8. Unfolds(walk)
  <2> HIDE DEF Unfolds
  <2> QED
    BY <1>7 DEF walk
<1>9. Exited(list, q) = walk[N].list
  BY DEF Exited, rest
<1> HIDE DEF walk, F
<1>10. /\ walk[0] = first
       /\ \A k \in Nat : k + 1 <= N => walk[k + 1] = ExitedNext(walk[k], q)
  <2>1. 0 \in 0 .. N /\ \A k \in Nat : k + 1 <= N =>
          k + 1 \in 0 .. N /\ k + 1 # 0 /\ (k + 1) - 1 = k
    BY <1>2
  <2> HIDE DEF N
  <2> QED
    BY <1>8, <2>1
<1> DEFINE Clean(w) == \A j \in 1 .. w.t : j <= Len(w.list) => w.list[j] \notin T
           Kept(k) == /\ walk[k] \in X /\ Remains(walk[k].list, list, T) /\ Clean(walk[k])
                      /\ walk[k].t >= Len(walk[k].list)
                           \/ Len(walk[k].list) - walk[k].t <= N - 1 - k
           G == {k \in Nat : k <= N => Kept(k)}
<1>11. 0 \in G
  <2>1. walk[0].list = rest /\ walk[0].t = 1
    BY <1>10
  <2>2. Clean(walk[0])
    <3>1. SUFFICES ASSUME 1 <= Len(rest) PROVE rest[1] \notin T
      BY <2>1
    <3>2. rest # << >> /\ Head(rest) = rest[1]
      BY <1>2, <3>1
    <3> QED
      BY <1>1, <3>2
  <2>3. Len(rest) - 1 <= N - 1 - 0
    BY <1>2
  <2> HIDE DEF Clean, X, N
  <2> QED
    BY <1>1, <1>5, <1>10, <2>1, <2>2, <2>3
<1>12. ASSUME NEW k \in Nat, k \in G PROVE k + 1 \in G
  <2>1. SUFFICES ASSUME k + 1 <= N PROVE Kept(k + 1)
    OBVIOUS
  <2> DEFINE w == walk[k]
  <2>2. Kept(k) /\ walk[k + 1] = ExitedNext(w, q)
    BY <1>2, <1>10, <1>12, <2>1
  <2>3. /\ w \in X /\ Remains(w.list, list, T) /\ Clean(w)
        /\ w.t >= Len(w.list) \/ Len(w.list) - w.t <= N - 1 - k
    BY <2>2
  <2> HIDE DEF w, N
  <2>4. w.list \in Seq(Timer) /\ w.t \in Nat \ {0} /\ Len(w.list) \in Nat /\ N \in Nat
    BY <1>2, <2>3
  <2>5. CASE w.t >= Len(w.list) /\ ExitedNext(w, q) = w
    <3>1. walk[k + 1] = w
      BY <2>2, <2>5
    <3> HIDE DEF X, Clean
    <3> QED
      BY <2>3, <2>5, <3>1
  <2>6. CASE /\ w.t + 1 \in 1 .. Len(w.list) /\ w.list[w.t + 1] \in T
             /\ ExitedNext(w, q) = [list |-> Unlink(w.list, w.t + 1), t |-> w.t]
    <3> DEFINE u == Unlink(w.list, w.t + 1)
    <3>1. /\ u \in Seq(Timer) /\ Len(u) = Len(w.list) - 1
          /\ Ran(w.list) = Ran(u) \cup {w.list[w.t + 1]}
          /\ Distinct(w.list) => Distinct(u)
          /\ \A j \in 1 .. (w.t + 1) - 1 : u[j] = w.list[j]
      BY <2>4, <2>6, UnlinkList
    <3> HIDE DEF u
    <3>2. walk[k + 1] = [list |-> u, t |-> w.t]
      BY <2>2, <2>6 DEF u
    <3>3. walk[k + 1].list = u /\ walk[k + 1].t = w.t /\ walk[k + 1] \in X
      BY <2>4, <3>1, <3>2
    <3>4. Remains(u, list, T)
      BY <2>3, <2>6, <3>1 DEF Remains
    <3>5. Clean(walk[k + 1])
      <4>1. ASSUME NEW j \in 1 .. w.t, j <= Len(u) PROVE u[j] \notin T
        <5>1. j <= Len(w.list) /\ j \in 1 .. (w.t + 1) - 1
          BY <2>4, <3>1, <4>1
        <5> QED
          BY <2>3, <3>1, <5>1
      <4> QED
        BY <3>3, <4>1
    <3>6. Len(u) - w.t <= N - 1 - (k + 1)
      BY <2>3, <2>4, <2>6, <3>1
    <3> HIDE DEF X, Clean
    <3> QED
      BY <3>3, <3>4, <3>5, <3>6
  <2>7. CASE /\ w.t + 1 \in 1 .. Len(w.list) /\ w.list[w.t + 1] \notin T
             /\ ExitedNext(w, q) = [list |-> w.list, t |-> w.t + 1]
    <3>1. walk[k + 1] = [list |-> w.list, t |-> w.t + 1]
      BY <2>2, <2>7
    <3>2. walk[k + 1].list = w.list /\ walk[k + 1].t = w.t + 1 /\ walk[k + 1] \in X
      BY <2>4, <3>1
    <3>3. Clean(walk[k + 1])
      <4>1. ASSUME NEW j \in 1 .. w.t + 1, j <= Len(w.list) PROVE w.list[j] \notin T
        <5>1. j \in 1 .. w.t \/ j = w.t + 1
          BY <2>4
        <5> QED
          BY <2>3, <2>7, <4>1, <5>1
      <4> QED
        BY <3>2, <4>1
    <3>4. Len(w.list) - (w.t + 1) <= N - 1 - (k + 1)
      BY <2>3, <2>4, <2>7
    <3> HIDE DEF X, Clean
    <3> QED
      BY <2>3, <3>2, <3>3, <3>4
  <2> QED
    BY <1>3, <2>3, <2>5, <2>6, <2>7
<1>13. Kept(N)
  <2>1. N \in G
    <3> HIDE DEF G, N
    <3> QED
      BY <1>2, <1>11, <1>12, NatInd
  <2> HIDE DEF Kept, N
  <2> QED
    BY <1>2, <2>1
<1> DEFINE u == walk[N].list
<1>14. /\ u \in Seq(Timer) /\ Ran(u) \subseteq Ran(list) /\ Ran(list) \ T \subseteq Ran(u)
       /\ Distinct(list) => Distinct(u)
  BY <1>13 DEF Remains
<1>15. Ran(u) \cap T = {}
  <2>1. walk[N].t \in Nat /\ Len(u) \in Nat /\ walk[N].t >= Len(u)
    <3>1. walk[N].t \in Nat /\ Len(u) \in Nat
      BY <1>13, <1>14
    <3> QED
      BY <1>2, <1>13, <3>1
  <2>2. \A j \in 1 .. Len(u) : u[j] \notin T
    BY <1>13, <2>1
  <2>3. DOMAIN u = 1 .. Len(u)
    BY <1>14
  <2> HIDE DEF u
  <2> QED
    BY <2>2, <2>3 DEF Ran
<1> QED
  BY <1>9, <1>14, <1>15 DEF T

-----------------------------------------------------------------------------
\* Outside its loop etimer_process has no place in the list, and no thread of an
\* application is called inside it.
PlaceInv == scan # 0 => turn = "poll" /\ cur = NONE

\* The process a timer on a list is set for is the one that uses it.
User(t) == IF t \in CTimer THEN CTIMER ELSE Owner[t]

OwnerInv ==
  /\ \A t \in Listed : p[t] = User(t)
  /\ \A x \in Ran(queue) : x[2] \in CTimer => x[1] = CTIMER

\* A callback timer that runs while an event for it waits was set after the event was posted.
WaitingInv == \A t \in CTimer \cap Listed : Queued(t) => t \in overtaken

EtimerInv ==
  /\ TimeInv /\ EtimerTypeOK
  /\ PlaceInv /\ ListSound /\ OwnerInv /\ WaitingInv
  /\ EndedHaveNoTimers /\ NextIsEarliest

CtimerInv == EtimerInv /\ CtimerTypeOK /\ ListsAgree

-----------------------------------------------------------------------------
LEMMA Names ==
  /\ Timer = ETimer \cup CTimer /\ ETimer \cap CTimer = {} /\ NONE \notin Timer
  /\ NONE \notin Proc /\ CTIMER \notin Proc /\ NONE # CTIMER
  /\ NUMEVENTS \in Nat /\ ClockSpan \in Nat \ {0} /\ MaxLag \in Nat
  /\ \A t \in Timer : User(t) \in Proc \cup {CTIMER} /\ User(t) # NONE
<1>1. /\ Owner \in [ETimer -> Proc] /\ NONE \notin Proc /\ NONE # CTIMER
      /\ ETimer \cap CTimer = {} /\ NONE \notin Timer /\ CTIMER \notin Proc
      /\ NUMEVENTS \in Nat /\ ClockSpan \in Nat \ {0} /\ MaxLag \in Nat
  BY EtimerAssumption
<1> QED
  BY <1>1 DEF Timer, User

Item == (Proc \cup {CTIMER}) \X (Timer \cup {NONE})

LEMMA ListFacts ==
  ASSUME EtimerInv
  PROVE  /\ timerlist \in Seq(Timer) /\ Len(timerlist) \in Nat
         /\ Listed = Ran(timerlist) /\ Listed \subseteq Timer /\ Distinct(timerlist)
         /\ queue \in Seq(Item) /\ Len(queue) \in Nat /\ Len(queue) <= NUMEVENTS
         /\ \A t : Queued(t) <=> \E x \in Ran(queue) : x[2] = t
         /\ exiter \in Proc \cup {NONE}
<1>1. /\ timerlist \in Seq(Timer) /\ queue \in Seq(Item) /\ Len(queue) <= NUMEVENTS
      /\ exiter \in Proc \cup {NONE}
  BY DEF EtimerInv, EtimerTypeOK, Item
<1>2. Listed = Ran(timerlist) /\ Distinct(timerlist)
  BY DEF Listed, Ran, Distinct, EtimerInv, ListSound
<1>3. Listed \subseteq Timer
  BY <1>1, <1>2 DEF Ran
<1>4. \A t : Queued(t) <=> \E x \in Ran(queue) : x[2] = t
  BY DEF Queued, Ran
<1> QED
  BY <1>1, <1>2, <1>3, <1>4

\* The type invariant from its parts.
LEMMA EtimerTyped ==
  ASSUME TimeInv', timerlist' \in Seq(Timer), p' \in [Timer -> Proc \cup {CTIMER, NONE}],
         ahead' \in 0 .. ClockSpan - 1, polled' \in BOOLEAN, settled' \in BOOLEAN,
         scan' \in 0 .. Len(timerlist') + 1, queue' \in Seq(Item), Len(queue') <= NUMEVENTS,
         turn' \in {"apps", "poll", "event"}, cur' \in Proc \cup {NONE}, alive' \subseteq Proc,
         exiter' \in Proc \cup {NONE}, overtaken' \subseteq Timer, orphans' \subseteq Timer
  PROVE  EtimerTypeOK'
<1>1. elapsed' \in [Timer -> Int] /\ interval' \in [Timer -> Interval]
  BY DEF TimeInv, TimesOK
<1> QED
  BY <1>1 DEF EtimerTypeOK, Item

\* A step in which no timer is set, stopped or posted, and the queue gets no events
\* of timers.
LEMMA QuietEtimer ==
  ASSUME EtimerInv, TimeInv', UNCHANGED << timeVars, listVars, ghostVars >>,
         alive \subseteq alive', alive' \subseteq Proc,
         cur' \in Proc \cup {NONE}, exiter' \in Proc \cup {NONE},
         turn' \in {"apps", "poll", "event"}, polled' \in BOOLEAN,
         scan' \in 0 .. Len(timerlist) + 1, PlaceInv',
         queue' \in Seq(Item), Len(queue') <= NUMEVENTS,
         \A x \in Ran(queue') : x[2] = NONE \/ x \in Ran(queue)
  PROVE  EtimerInv' /\ Listed' = Listed
<1>1. /\ elapsed' = elapsed /\ ahead' = ahead /\ timerlist' = timerlist /\ p' = p
      /\ interval' = interval /\ settled' = settled /\ overtaken' = overtaken
      /\ orphans' = orphans
  BY DEF timeVars, listVars, ghostVars
<1>2. EtimerTypeOK'
  BY <1>1, EtimerTyped DEF EtimerInv, EtimerTypeOK
<1>3. Listed' = Listed
  BY <1>1 DEF Listed
<1>4. ListSound'
  BY <1>1, <1>3 DEF EtimerInv, ListSound
<1>5. OwnerInv'
  BY <1>1, <1>3, Names DEF EtimerInv, OwnerInv, Timer
<1>6. WaitingInv'
  <2>1. ASSUME NEW t \in Listed, Queued(t)' PROVE Queued(t)
    <3>1. PICK x \in Ran(queue') : x[2] = t
      BY <2>1 DEF Queued, Ran
    <3>2. t # NONE
      BY ListFacts, Names
    <3> QED
      BY <3>1, <3>2 DEF Queued, Ran
  <2> QED
    BY <1>1, <1>3, <2>1 DEF EtimerInv, WaitingInv
<1>7. EndedHaveNoTimers'
  BY <1>1, <1>3 DEF EtimerInv, EndedHaveNoTimers
<1>8. NextIsEarliest'
  BY <1>1, <1>3 DEF EtimerInv, NextIsEarliest, left
<1> QED
  BY <1>2, <1>3, <1>4, <1>5, <1>6, <1>7, <1>8 DEF EtimerInv

\* A timer is set by the process that uses it, or by ctimer_process.
LEMMA AddEtimer ==
  ASSUME EtimerInv, TimeInv', NEW t \in Timer, add_timer(t, User(t)),
         UNCHANGED << scan, kernelVars >>, scan = 0
  PROVE  EtimerInv' /\ Listed' = Listed \cup {t}
<1>1. /\ scan' = scan /\ queue' = queue /\ turn' = turn /\ cur' = cur /\ alive' = alive
      /\ exiter' = exiter
  BY DEF kernelVars
<1> DEFINE list == IF OnList(t) THEN timerlist ELSE << t >> \o timerlist
<1>2. /\ timerlist' = list /\ polled' = TRUE /\ settled' = TRUE
      /\ p' = IF OnList(t) THEN p ELSE [p EXCEPT ![t] = User(t)]
      /\ update_time(list, elapsed', interval')
      /\ overtaken' = IF Queued(t) /\ t \in CTimer THEN overtaken \cup {t} ELSE overtaken \ {t}
      /\ orphans' = IF User(t) \in alive \cup {CTIMER} THEN orphans \ {t}
                                                       ELSE orphans \cup {t}
  BY DEF add_timer
<1>3. OnList(t) <=> t \in Listed
  BY DEF OnList, EtimerInv, ListSound
<1>4. /\ list \in Seq(Timer) /\ Ran(list) = Listed \cup {t} /\ Distinct(list)
  <2>1. CASE t \in Listed
    BY <1>3, <2>1, ListFacts
  <2>2. CASE t \notin Listed
    BY <1>3, <2>2, ListFacts, PrependList
  <2> QED
    BY <2>1, <2>2
<1> HIDE DEF list
<1>5. Listed' = Listed \cup {t}
  BY <1>2, <1>4 DEF Listed, Ran
<1>6. /\ p' \in [Timer -> Proc \cup {CTIMER, NONE}]
      /\ p'[t] = User(t) /\ \A u \in Timer : u # t => p'[u] = p[u]
  <2>1. p \in [Timer -> Proc \cup {CTIMER, NONE}]
    BY DEF EtimerInv, EtimerTypeOK
  <2>2. t \in Listed => p[t] = User(t)
    BY DEF EtimerInv, OwnerInv
  <2>3. User(t) \in Proc \cup {CTIMER, NONE}
    BY Names
  <2> QED
    BY <1>2, <1>3, <2>1, <2>2, <2>3
<1>7. /\ ahead' \in 0 .. ClockSpan - 1
      /\ list # << >> /\ (\A u \in Ran(list) : interval'[u] - elapsed'[u] > 0) =>
           /\ \A u \in Ran(list) : ahead' <= interval'[u] - elapsed'[u]
           /\ \E u \in Ran(list) : ahead' = interval'[u] - elapsed'[u]
  <2>1. \A u \in Timer : interval'[u] \in Interval /\ elapsed'[u] \in Int /\ 0 <= elapsed'[u]
    BY DEF TimeInv, TimesOK
  <2> QED
    BY <1>2, <1>4, <2>1, EarliestFound
<1>8. NextIsEarliest'
  BY <1>2, <1>4, <1>5, <1>7 DEF NextIsEarliest, left
<1>9. EtimerTypeOK'
  <2>1. /\ queue \in Seq(Item) /\ Len(queue) <= NUMEVENTS /\ turn \in {"apps", "poll", "event"}
        /\ cur \in Proc \cup {NONE} /\ alive \subseteq Proc
        /\ overtaken \subseteq Timer /\ orphans \subseteq Timer
    BY ListFacts DEF EtimerInv, EtimerTypeOK
  <2>2. scan' \in 0 .. Len(timerlist') + 1
    BY <1>1, <1>2, <1>4
  <2>3. overtaken' \subseteq Timer /\ orphans' \subseteq Timer
    BY <1>2, <2>1
  <2> QED
    BY <1>1, <1>2, <1>4, <1>6, <1>7, <2>1, <2>2, <2>3, ListFacts, EtimerTyped
<1>10. PlaceInv'
  BY <1>1 DEF PlaceInv
<1>11. ListSound'
  <2>1. \A u \in Listed' : p'[u] # NONE
    BY <1>5, <1>6, ListFacts, Names DEF EtimerInv, ListSound
  <2> QED
    BY <1>2, <1>4, <2>1 DEF ListSound, Distinct
<1>12. OwnerInv'
  BY <1>1, <1>5, <1>6, ListFacts DEF EtimerInv, OwnerInv, User
<1>13. WaitingInv'
  <2>1. \A u : Queued(u)' <=> Queued(u)
    BY <1>1 DEF Queued
  <2> QED
    BY <1>2, <1>5, <2>1 DEF EtimerInv, WaitingInv
<1>14. EndedHaveNoTimers'
  BY <1>1, <1>2, <1>5, <1>6, ListFacts DEF EtimerInv, EndedHaveNoTimers
<1> QED
  BY <1>5, <1>8, <1>9, <1>10, <1>11, <1>12, <1>13, <1>14 DEF EtimerInv

\* Timers leave the list: their processes are forgotten, or stay and are the same.
LEMMA LeftList ==
  ASSUME EtimerInv, NEW T, timerlist' \in Seq(Timer), Ran(timerlist') = Listed \ T,
         Distinct(timerlist'), \A u \in Listed \ T : p'[u] = p[u]
  PROVE  /\ Listed' = Listed \ T /\ ListSound'
         /\ \A u \in Listed' : p'[u] = User(u)
<1>1. Listed' = Listed \ T
  BY DEF Listed, Ran
<1>2. ListSound'
  BY <1>1 DEF EtimerInv, ListSound, Distinct
<1>3. \A u \in Listed' : p'[u] = User(u)
  BY <1>1 DEF EtimerInv, OwnerInv
<1> QED
  BY <1>1, <1>2, <1>3

LEMMA RemoveList ==
  ASSUME EtimerInv, NEW T, timerlist' = Without(timerlist, T),
         \A u \in Listed \ T : p'[u] = p[u]
  PROVE  /\ timerlist' \in Seq(Timer) /\ Listed' = Listed \ T
         /\ ListSound' /\ Ran(timerlist') = Listed \ T
         /\ \A u \in Listed' : p'[u] = User(u)
<1>1. /\ timerlist' \in Seq(Timer) /\ Ran(timerlist') = Listed \ T /\ Distinct(timerlist')
  BY ListFacts, WithoutList
<1> QED
  BY <1>1, LeftList

\* The time of the next expiration is computed anew for what is left of the list.
LEMMA EarliestLeft ==
  ASSUME EtimerInv, TimeInv', timerlist' \in Seq(Timer), Listed' = Ran(timerlist'),
         update_time(timerlist', elapsed', interval')
  PROVE  ahead' \in 0 .. ClockSpan - 1 /\ NextIsEarliest'
<1>1. \A u \in Timer : interval'[u] \in Interval /\ elapsed'[u] \in Int /\ 0 <= elapsed'[u]
  BY DEF TimeInv, TimesOK
<1> DEFINE list == timerlist'
<1>2. /\ ahead' \in 0 .. ClockSpan - 1
      /\ list # << >> /\ (\A u \in Ran(list) : interval'[u] - elapsed'[u] > 0) =>
           /\ \A u \in Ran(list) : ahead' <= interval'[u] - elapsed'[u]
           /\ \E u \in Ran(list) : ahead' = interval'[u] - elapsed'[u]
  <2> HIDE DEF list
  <2>1. list \in Seq(Timer) /\ update_time(list, elapsed', interval')
    BY DEF list
  <2> QED
    BY <1>1, <2>1, EarliestFound
<1> QED
  BY <1>2 DEF NextIsEarliest, left

LEMMA StopEtimer ==
  ASSUME EtimerInv, TimeInv', NEW t \in Timer, etimer_stop(t),
         UNCHANGED << scan, kernelVars >>, scan = 0
  PROVE  EtimerInv' /\ Listed' = Listed \ {t}
<1>1. /\ scan' = scan /\ queue' = queue /\ turn' = turn /\ cur' = cur /\ alive' = alive
      /\ exiter' = exiter
  BY DEF kernelVars
<1>2. /\ timerlist' = Without(timerlist, {t}) /\ p' = [p EXCEPT ![t] = NONE]
      /\ elapsed' = elapsed /\ interval' = interval /\ polled' = polled
      /\ overtaken' = overtaken /\ orphans' = orphans
  BY DEF etimer_stop, ghostVars
<1>3. /\ p \in [Timer -> Proc \cup {CTIMER, NONE}] /\ settled \in BOOLEAN
      /\ ahead \in 0 .. ClockSpan - 1 /\ polled \in BOOLEAN
      /\ turn \in {"apps", "poll", "event"}
      /\ cur \in Proc \cup {NONE} /\ alive \subseteq Proc
      /\ overtaken \subseteq Timer /\ orphans \subseteq Timer
  BY DEF EtimerInv, EtimerTypeOK
<1>4. /\ p' \in [Timer -> Proc \cup {CTIMER, NONE}]
      /\ \A u \in Timer : u # t => p'[u] = p[u]
  BY <1>2, <1>3
<1>5. /\ timerlist' \in Seq(Timer) /\ Listed' = Listed \ {t} /\ ListSound'
      /\ Ran(timerlist') = Listed \ {t} /\ \A u \in Listed' : p'[u] = User(u)
  BY <1>2, <1>4, ListFacts, RemoveList
<1>6. ahead' \in 0 .. ClockSpan - 1 /\ settled' \in BOOLEAN /\ NextIsEarliest'
  <2>1. CASE t \in Listed
    <3>1. update_time(timerlist', elapsed', interval') /\ settled' = TRUE
      BY <1>2, <2>1 DEF etimer_stop
    <3> QED
      BY <1>5, <3>1, EarliestLeft
  <2>2. CASE t \notin Listed
    <3>1. ahead' = ahead /\ settled' = settled /\ Listed' = Listed
      BY <1>5, <2>2 DEF etimer_stop
    <3>2. timerlist' # << >> => timerlist # << >>
      <4>1. SUFFICES ASSUME timerlist' # << >>, timerlist = << >> PROVE FALSE
        OBVIOUS
      <4>2. Ran(timerlist) = {}
        BY <4>1 DEF Ran
      <4>3. 1 \in DOMAIN timerlist'
        BY <1>5, <4>1
      <4>4. timerlist'[1] \in Ran(timerlist')
        BY <4>3 DEF Ran
      <4>5. Ran(timerlist') = {}
        BY <1>5, <4>2, ListFacts
      <4> QED
        BY <4>4, <4>5
    <3> QED
      BY <1>2, <1>3, <3>1, <3>2 DEF EtimerInv, NextIsEarliest, left
  <2> QED
    BY <2>1, <2>2
<1>7. EtimerTypeOK'
  <2>1. scan' \in 0 .. Len(timerlist') + 1
    BY <1>1, <1>5
  <2> QED
    BY <1>1, <1>2, <1>3, <1>4, <1>5, <1>6, <2>1, ListFacts, EtimerTyped
<1>8. PlaceInv'
  BY <1>1 DEF PlaceInv
<1>9. OwnerInv'
  BY <1>1, <1>5 DEF EtimerInv, OwnerInv, User
<1>10. WaitingInv'
  <2>1. \A u : Queued(u)' <=> Queued(u)
    BY <1>1 DEF Queued
  <2> QED
    BY <1>2, <1>5, <2>1 DEF EtimerInv, WaitingInv
<1>11. EndedHaveNoTimers'
  BY <1>1, <1>2, <1>4, <1>5, ListFacts DEF EtimerInv, EndedHaveNoTimers
<1> QED
  BY <1>5, <1>6, <1>7, <1>8, <1>9, <1>10, <1>11 DEF EtimerInv

LEMMA AdjustEtimer ==
  ASSUME EtimerInv, TimeInv', NEW t \in Timer, NEW d \in {-1, 1}, etimer_adjust(t, d),
         UNCHANGED << scan, kernelVars >>, scan = 0
  PROVE  EtimerInv' /\ Listed' = Listed
<1>1. /\ scan' = scan /\ queue' = queue /\ turn' = turn /\ cur' = cur /\ alive' = alive
      /\ exiter' = exiter
  BY DEF kernelVars
<1>2. /\ timerlist' = timerlist /\ p' = p /\ interval' = interval /\ polled' = polled
      /\ overtaken' = overtaken /\ orphans' = orphans /\ settled' = TRUE
      /\ update_time(timerlist, elapsed', interval)
  BY DEF etimer_adjust, ghostVars
<1>3. Listed' = Listed
  BY <1>2 DEF Listed
<1>4. ahead' \in 0 .. ClockSpan - 1 /\ NextIsEarliest'
  <2>1. update_time(timerlist', elapsed', interval')
    BY <1>2
  <2> QED
    BY <1>2, <1>3, <2>1, ListFacts, EarliestLeft
<1>5. EtimerTypeOK'
  BY <1>1, <1>2, <1>4, ListFacts, EtimerTyped DEF EtimerInv, EtimerTypeOK
<1>6. \A u : Queued(u)' <=> Queued(u)
  BY <1>1 DEF Queued
<1>7. PlaceInv' /\ ListSound' /\ OwnerInv' /\ WaitingInv' /\ EndedHaveNoTimers'
  BY <1>1, <1>2, <1>3, <1>6
  DEF EtimerInv, PlaceInv, ListSound, OwnerInv, User, WaitingInv, EndedHaveNoTimers
<1> QED
  BY <1>3, <1>4, <1>5, <1>7 DEF EtimerInv

LEMMA TickEtimer ==
  ASSUME EtimerInv, TimeInv', Tick
  PROVE  EtimerInv' /\ Listed' = Listed
<1>1. /\ timerlist' = timerlist /\ p' = p /\ interval' = interval /\ settled' = settled
      /\ scan' = scan /\ queue' = queue /\ turn' = turn /\ cur' = cur /\ alive' = alive
      /\ exiter' = exiter /\ overtaken' = overtaken /\ orphans' = orphans
      /\ ahead' = IF timerlist = << >> THEN 0 ELSE (ahead - 1) % ClockSpan
      /\ polled' = (polled \/ timerlist # << >>)
  BY DEF Tick, listVars, kernelVars, ghostVars
<1>2. \A t \in Listed : left(t) > -MaxLag /\ left(t)' = left(t) - 1
  <2>1. ASSUME NEW t \in Listed PROVE left(t) > -MaxLag /\ left(t)' = left(t) - 1
    <3>1. t \in Timer /\ left(t) > -MaxLag
      BY ListFacts DEF Tick
    <3>2. elapsed'[t] = elapsed[t] + 1
      BY <3>1 DEF Tick
    <3>3. elapsed[t] \in Int /\ interval[t] \in Int
      <4>1. elapsed[t] \in Int /\ interval[t] \in Interval
        BY <3>1 DEF EtimerInv, EtimerTypeOK
      <4>2. \A i \in Interval : i \in Int
        BY EtimerAssumption
      <4> QED
        BY <4>1, <4>2
    <3> QED
      BY <1>1, <3>1, <3>2, <3>3 DEF left
  <2> QED
    BY <2>1
<1>3. ahead \in Int /\ 0 <= ahead /\ ahead < ClockSpan /\ ClockSpan \in Nat \ {0}
  BY Names DEF EtimerInv, EtimerTypeOK
<1>4. ahead' \in 0 .. ClockSpan - 1
  BY <1>1, <1>3
<1>5. Listed' = Listed
  BY <1>1 DEF Listed
<1>6. \A t \in Listed : left(t) \in Int
  <2>1. ASSUME NEW t \in Listed PROVE left(t) \in Int
    <3>1. elapsed[t] \in Int /\ interval[t] \in Interval
      BY ListFacts DEF EtimerInv, EtimerTypeOK
    <3>2. interval[t] \in Int
      BY <3>1, EtimerAssumption
    <3> QED
      BY <3>1, <3>2 DEF left
  <2> QED
    BY <2>1
<1>7. NextIsEarliest'
  <2>1. SUFFICES ASSUME settled, timerlist # << >>, \A t \in Listed : left(t)' > 0
                 PROVE  /\ \A t \in Listed : ahead' <= left(t)'
                        /\ \E t \in Listed : ahead' = left(t)'
    BY <1>1, <1>5 DEF NextIsEarliest
  <2>2. \A t \in Listed : left(t) > 1
    BY <1>2, <1>6, <2>1
  <2>3. \A t \in Listed : left(t) > 0
    BY <1>6, <2>2
  <2>4. /\ \A t \in Listed : ahead <= left(t)
        /\ \E t \in Listed : ahead = left(t)
    BY <2>1, <2>3 DEF EtimerInv, NextIsEarliest
  <2>5. ahead > 1
    BY <2>2, <2>4
  <2>6. ahead' = ahead - 1
    <3>1. ahead - 1 \in Nat /\ ahead - 1 < ClockSpan
      BY <1>3, <2>5
    <3> QED
      BY <1>1, <1>3, <2>1, <3>1, SmallMod
  <2> QED
    BY <1>2, <1>3, <1>6, <2>4, <2>6
<1>8. EtimerTypeOK'
  <2>1. polled' \in BOOLEAN
    BY <1>1 DEF EtimerInv, EtimerTypeOK
  <2> QED
    BY <1>1, <1>4, <2>1, ListFacts, EtimerTyped DEF EtimerInv, EtimerTypeOK
<1>9. \A u : Queued(u)' <=> Queued(u)
  BY <1>1 DEF Queued
<1>10. PlaceInv' /\ ListSound' /\ OwnerInv' /\ WaitingInv' /\ EndedHaveNoTimers'
  BY <1>1, <1>5, <1>9
  DEF EtimerInv, PlaceInv, ListSound, OwnerInv, User, WaitingInv, EndedHaveNoTimers
<1> QED
  BY <1>5, <1>7, <1>8, <1>10 DEF EtimerInv

\* etimer_process posts the event of an expired timer.
LEMMA PostEtimer ==
  ASSUME EtimerInv, TimeInv', ScanStep, NEW t, t = timerlist[scan], ~QueueFull, ScanPost(t),
         scan \in DOMAIN timerlist
  PROVE  /\ EtimerInv' /\ Listed' = Listed \ {t} /\ t \in Listed
         /\ Ran(queue') = Ran(queue) \cup {<< p[t], t >>}
<1>1. /\ turn' = turn /\ cur' = cur /\ alive' = alive /\ exiter' = exiter
      /\ overtaken' = overtaken /\ orphans' = orphans
      /\ queue' = Append(queue, << p[t], t >>)
      /\ timerlist' = Without(timerlist, {t}) /\ p' = [p EXCEPT ![t] = NONE]
      /\ settled' = TRUE /\ scan' = 1
      /\ elapsed' = elapsed /\ interval' = interval /\ polled' = polled
      /\ update_time(timerlist', elapsed', interval')
  BY DEF ScanStep, ScanPost, ghostVars
<1>2. t \in Listed /\ t \in Timer /\ scan # 0
  <2>1. t \in Listed
    BY DEF Listed
  <2>2. scan # 0
    BY ListFacts
  <2> QED
    BY <2>1, <2>2, ListFacts
<1>3. /\ p \in [Timer -> Proc \cup {CTIMER, NONE}] /\ polled \in BOOLEAN
      /\ turn \in {"apps", "poll", "event"}
      /\ cur \in Proc \cup {NONE} /\ alive \subseteq Proc
      /\ overtaken \subseteq Timer /\ orphans \subseteq Timer
      /\ p[t] = User(t) /\ turn = "poll" /\ cur = NONE
  BY <1>2 DEF EtimerInv, EtimerTypeOK, OwnerInv, PlaceInv
<1>4. << p[t], t >> \in Item
  BY <1>2, <1>3, Names DEF Item
<1>5. /\ p' \in [Timer -> Proc \cup {CTIMER, NONE}]
      /\ \A u \in Timer : u # t => p'[u] = p[u]
  BY <1>1, <1>3
<1>6. /\ timerlist' \in Seq(Timer) /\ Listed' = Listed \ {t} /\ ListSound'
      /\ Ran(timerlist') = Listed \ {t} /\ \A u \in Listed' : p'[u] = User(u)
  BY <1>1, <1>5, ListFacts, RemoveList
<1>7. /\ queue' \in Seq(Item) /\ Ran(queue') = Ran(queue) \cup {<< p[t], t >>}
  <2> DEFINE x == << p[t], t >>
  <2>1. x \in Item /\ queue' = Append(queue, x) /\ queue \in Seq(Item)
    BY <1>1, <1>4, ListFacts
  <2> HIDE DEF x
  <2>2. queue' \in Seq(Item) /\ Ran(queue') = Ran(queue) \cup {x}
    BY <2>1, AppendList
  <2> QED
    BY <2>2 DEF x
<1>8. Len(queue') <= NUMEVENTS
  BY DEF TimeInv, QueueOK
<1>9. ahead' \in 0 .. ClockSpan - 1 /\ NextIsEarliest'
  BY <1>1, <1>6, EarliestLeft
<1>10. EtimerTypeOK'
  <2>1. 1 \in 0 .. Len(timerlist') + 1
    BY <1>6
  <2> QED
    BY <1>1, <1>3, <1>5, <1>6, <1>7, <1>8, <1>9, <2>1, ListFacts, EtimerTyped
<1>11. PlaceInv'
  BY <1>1, <1>3 DEF PlaceInv
<1>12. OwnerInv'
  BY <1>3, <1>6, <1>7 DEF EtimerInv, OwnerInv, User
<1>13. WaitingInv'
  <2>1. \A u : Queued(u)' <=> \E x \in Ran(queue') : x[2] = u
    BY DEF Queued, Ran
  <2>2. \A u \in Listed' : Queued(u)' => Queued(u)
    BY <1>6, <1>7, <2>1, ListFacts
  <2> QED
    BY <1>1, <1>6, <2>2 DEF EtimerInv, WaitingInv
<1>14. EndedHaveNoTimers'
  BY <1>1, <1>5, <1>6, ListFacts DEF EtimerInv, EndedHaveNoTimers
<1> QED
  BY <1>2, <1>6, <1>7, <1>9, <1>10, <1>11, <1>12, <1>13, <1>14 DEF EtimerInv

\* A process ends, or is ended, and its timers with it.
LEMMA ExitEtimer ==
  ASSUME EtimerInv, TimeInv', NEW q, Exit(q), scan = 0,
         cur' \in Proc \cup {NONE}, exiter' \in Proc \cup {NONE},
         turn' \in {"apps", "poll", "event"}
  PROVE  /\ EtimerInv' /\ Listed' \subseteq Listed
         /\ \A t \in Listed \cap CTimer : t \in Listed'
<1> DEFINE T == {t \in Timer : p[t] = q}
<1>1. /\ alive' = alive \ {q} /\ q \in alive /\ timerlist' = Exited(timerlist, q)
      /\ settled' = (settled /\ timerlist' = timerlist)
      /\ elapsed' = elapsed /\ ahead' = ahead /\ p' = p /\ interval' = interval
      /\ polled' = polled /\ scan' = scan /\ queue' = queue
      /\ overtaken' = overtaken /\ orphans' = orphans
  BY DEF Exit, timeVars, ghostVars
<1>2. /\ timerlist' \in Seq(Timer) /\ Listed' = Listed \ T /\ ListSound'
      /\ Ran(timerlist') = Listed \ T /\ \A u \in Listed' : p'[u] = User(u)
  <2>1. /\ timerlist' \in Seq(Timer) /\ Ran(timerlist') = Listed \ T
        /\ Distinct(timerlist')
    BY <1>1, ListFacts, ExitedList
  <2> HIDE DEF T
  <2> QED
    BY <1>1, <2>1, LeftList
<1> HIDE DEF T
<1>3. /\ p \in [Timer -> Proc \cup {CTIMER, NONE}] /\ polled \in BOOLEAN
      /\ settled \in BOOLEAN /\ ahead \in 0 .. ClockSpan - 1
      /\ q \in Proc /\ alive \subseteq Proc
      /\ overtaken \subseteq Timer /\ orphans \subseteq Timer
  BY <1>1 DEF EtimerInv, EtimerTypeOK
<1>4. EtimerTypeOK'
  <2>1. scan' \in 0 .. Len(timerlist') + 1 /\ settled' \in BOOLEAN /\ alive' \subseteq Proc
    BY <1>1, <1>2, <1>3
  <2> QED
    BY <1>1, <1>2, <1>3, <2>1, ListFacts, EtimerTyped
<1>5. PlaceInv'
  BY <1>1 DEF PlaceInv
<1>6. OwnerInv'
  BY <1>1, <1>2 DEF EtimerInv, OwnerInv, User
<1>7. WaitingInv'
  <2>1. \A u : Queued(u)' <=> Queued(u)
    BY <1>1 DEF Queued
  <2> QED
    BY <1>1, <1>2, <2>1 DEF EtimerInv, WaitingInv
<1>8. EndedHaveNoTimers'
  BY <1>1, <1>2, ListFacts DEF EtimerInv, EndedHaveNoTimers, T
<1>9. NextIsEarliest'
  <2>1. CASE settled'
    <3>1. timerlist' = timerlist /\ settled
      BY <1>1, <2>1
    <3>2. Listed' = Listed
      BY <3>1 DEF Listed
    <3> QED
      BY <1>1, <3>1, <3>2 DEF EtimerInv, NextIsEarliest, left
  <2>2. CASE ~settled'
    BY <2>2 DEF NextIsEarliest
  <2> QED
    BY <2>1, <2>2
<1>10. \A t \in Listed \cap CTimer : t \in Listed'
  <2>1. \A t \in Listed \cap CTimer : p[t] = CTIMER
    BY DEF EtimerInv, OwnerInv, User
  <2> QED
    BY <1>2, <1>3, <2>1, Names DEF T
<1> QED
  BY <1>2, <1>4, <1>5, <1>6, <1>7, <1>8, <1>9, <1>10 DEF EtimerInv

-----------------------------------------------------------------------------
\* What the two lists hold, for the proofs about callback timers.
LEMMA CtimerFacts ==
  ASSUME CtimerInv
  PROVE  /\ EtimerInv /\ TimeInv /\ ctimer_list \in Seq(CTimer) /\ CListed = Ran(ctimer_list)
         /\ CListed \subseteq CTimer /\ CTimer \subseteq Timer
         /\ cp \in [CTimer -> Proc \cup {NONE}] /\ callback \in BOOLEAN
<1>1. ctimer_list \in Seq(CTimer) /\ cp \in [CTimer -> Proc \cup {NONE}] /\ callback \in BOOLEAN
  BY DEF CtimerInv, CtimerTypeOK
<1>2. CListed = Ran(ctimer_list)
  BY DEF CListed, Ran
<1>3. CListed \subseteq CTimer
  BY <1>1, <1>2 DEF Ran
<1> QED
  BY <1>1, <1>2, <1>3 DEF CtimerInv, EtimerInv, Timer

\* ctimer_list does not change, and no callback timer that is due loses its event
\* timer and its event.
LEMMA CtimerKept ==
  ASSUME CtimerInv, EtimerInv', callback' \in BOOLEAN, UNCHANGED << ctimer_list, cp >>,
         \A t \in CTimer : t \in Listed \/ Queued(t) => t \in Listed' \/ Queued(t)',
         CTimer \cap Listed' \subseteq Listed, CTimer \cap overtaken \subseteq overtaken'
  PROVE  CtimerInv'
<1>1. CListed' = CListed
  BY DEF CListed
<1>2. CtimerTypeOK'
  BY CtimerFacts DEF CtimerTypeOK, EtimerInv
<1>3. ListsAgree'
  BY <1>1, CtimerFacts DEF CtimerInv, ListsAgree
<1> QED
  BY <1>2, <1>3 DEF CtimerInv

LEMMA StartInv == Init => CtimerInv
<1> SUFFICES ASSUME Init PROVE CtimerInv
  OBVIOUS
<1>1. TimeInv
  BY TimeInit
<1>2. /\ timerlist = << >> /\ p = [t \in Timer |-> NONE] /\ ahead = 0
      /\ polled = FALSE /\ scan = 0 /\ queue = << >> /\ turn = "apps" /\ cur = NONE
      /\ alive = Proc /\ exiter = NONE /\ settled = TRUE /\ overtaken = {} /\ orphans = {}
      /\ ctimer_list = << >> /\ cp = [t \in CTimer |-> NONE] /\ callback = FALSE
  BY DEF Init, EtimerInit
<1>3. Listed = {} /\ CListed = {} /\ \A t : ~Queued(t)
  BY <1>2 DEF Listed, CListed, Queued
<1>4. EtimerTypeOK
  <2>1. elapsed \in [Timer -> Int] /\ interval \in [Timer -> Interval]
    BY <1>1 DEF TimeInv, TimesOK
  <2>2. 0 \in 0 .. ClockSpan - 1 /\ 0 <= NUMEVENTS
    BY Names
  <2>3. /\ timerlist \in Seq(Timer) /\ scan \in 0 .. Len(timerlist) + 1
        /\ queue \in Seq((Proc \cup {CTIMER}) \X (Timer \cup {NONE})) /\ Len(queue) <= NUMEVENTS
    <3>1. << >> \in Seq(Timer) /\ Len(<< >>) = 0
          /\ << >> \in Seq((Proc \cup {CTIMER}) \X (Timer \cup {NONE}))
      OBVIOUS
    <3>2. 0 \in 0 .. 0 + 1
      OBVIOUS
    <3> QED
      BY <1>2, <2>2, <3>1, <3>2
  <2>4. p \in [Timer -> Proc \cup {CTIMER, NONE}]
    BY <1>2
  <2> QED
    BY <1>2, <2>1, <2>2, <2>3, <2>4 DEF EtimerTypeOK
<1>5. PlaceInv /\ ListSound /\ WaitingInv /\ EndedHaveNoTimers /\ NextIsEarliest
  BY <1>2, <1>3 DEF PlaceInv, ListSound, WaitingInv, EndedHaveNoTimers, NextIsEarliest
<1>6. OwnerInv
  BY <1>2, <1>3 DEF OwnerInv, Ran
<1>7. EtimerInv
  BY <1>1, <1>4, <1>5, <1>6 DEF EtimerInv
<1>8. CtimerTypeOK
  <2>1. ctimer_list \in Seq(CTimer)
    BY <1>2
  <2>2. cp \in [CTimer -> Proc \cup {NONE}]
    BY <1>2
  <2> QED
    BY <1>2, <1>4, <2>1, <2>2 DEF CtimerTypeOK
<1>9. ListsAgree
  BY <1>3 DEF ListsAgree
<1> QED
  BY <1>7, <1>8, <1>9 DEF CtimerInv

\* The queue loses its head.
LEMMA QueueTail ==
  ASSUME EtimerInv, queue # << >>, queue' = Tail(queue)
  PROVE  /\ queue' \in Seq(Item) /\ Len(queue') <= NUMEVENTS /\ Head(queue) \in Item
         /\ Head(queue) \in Ran(queue) /\ Ran(queue) = Ran(queue') \cup {Head(queue)}
<1>1. queue \in Seq(Item) /\ Len(queue) \in Nat /\ Len(queue) <= NUMEVENTS /\ NUMEVENTS \in Nat
  BY ListFacts, Names
<1>2. /\ queue' \in Seq(Item) /\ Head(queue) \in Item
      /\ Head(queue) \in Ran(queue) /\ Ran(queue) = Ran(queue') \cup {Head(queue)}
  BY <1>1, TailList
<1>3. Len(queue') = Len(queue) - 1
  BY <1>1
<1>4. Len(queue') <= NUMEVENTS
  BY <1>1, <1>3
<1> QED
  BY <1>2, <1>4

\* The events that wait, by the elements of the queue.
LEMMA QueuedNext == \A t : Queued(t)' <=> \E x \in Ran(queue') : x[2] = t
BY DEF Queued, Ran

-----------------------------------------------------------------------------
\* The clock, and a process that starts, ends or returns.
LEMMA ClockInv ==
  ASSUME CtimerInv, TimeInv', Clock
  PROVE  CtimerInv'
<1>1. /\ Tick /\ UNCHANGED ctimerVars
  BY DEF Clock
<1>2. EtimerInv' /\ Listed' = Listed
  BY <1>1, CtimerFacts, TickEtimer
<1>3. queue' = queue /\ overtaken' = overtaken
  BY <1>1 DEF Tick, kernelVars, ghostVars
<1>4. \A t : Queued(t)' <=> Queued(t)
  BY <1>3 DEF Queued
<1>5. callback' \in BOOLEAN /\ UNCHANGED << ctimer_list, cp >>
  BY <1>1, CtimerFacts DEF ctimerVars
<1> QED
  BY <1>2, <1>3, <1>4, <1>5, CtimerKept

\* A step that neither the timers nor the events of timers notice.
LEMMA QuietInv ==
  ASSUME CtimerInv, TimeInv', UNCHANGED << timeVars, listVars, ghostVars, ctimer_list, cp >>,
         callback' \in BOOLEAN,
         alive \subseteq alive', alive' \subseteq Proc,
         cur' \in Proc \cup {NONE}, exiter' \in Proc \cup {NONE},
         turn' \in {"apps", "poll", "event"}, polled' \in BOOLEAN,
         scan' \in 0 .. Len(timerlist) + 1, PlaceInv',
         UNCHANGED queue
  PROVE  CtimerInv'
<1>1. queue' \in Seq(Item) /\ Len(queue') <= NUMEVENTS
  BY CtimerFacts, ListFacts
<1>2. \A x \in Ran(queue') : x[2] = NONE \/ x \in Ran(queue)
  OBVIOUS
<1>3. EtimerInv' /\ Listed' = Listed
  BY <1>1, <1>2, CtimerFacts, QuietEtimer
<1>4. \A t : Queued(t)' <=> Queued(t)
  BY DEF Queued
<1>5. overtaken' = overtaken
  BY DEF ghostVars
<1> QED
  BY <1>3, <1>4, <1>5, CtimerKept

LEMMA KernelInv ==
  ASSUME CtimerInv, TimeInv',
         \/ cur = NONE /\ (RunPoll \/ ScanEnd \/ RunApps) /\ UNCHANGED ctimerVars
         \/ Return /\ callback' = (callback /\ exiter # NONE) /\ UNCHANGED << ctimer_list, cp >>
         \/ AppStart /\ UNCHANGED ctimerVars
  PROVE  CtimerInv'
<1>1. /\ polled \in BOOLEAN /\ scan \in 0 .. Len(timerlist) + 1
      /\ turn \in {"apps", "poll", "event"}
      /\ cur \in Proc \cup {NONE} /\ alive \subseteq Proc
      /\ PlaceInv /\ Len(timerlist) \in Nat
      /\ callback \in BOOLEAN /\ exiter \in Proc \cup {NONE}
  BY CtimerFacts, ListFacts DEF EtimerInv, EtimerTypeOK
<1>2. 0 \in 0 .. Len(timerlist) + 1 /\ 1 \in 0 .. Len(timerlist) + 1
  BY <1>1
<1>3. CASE cur = NONE /\ RunPoll /\ UNCHANGED ctimerVars
  <2>1. /\ polled' = FALSE /\ cur' = cur /\ alive' = alive /\ queue' = queue /\ exiter' = exiter
        /\ UNCHANGED << timeVars, listVars, ghostVars, ctimer_list, cp, callback >>
        /\ \/ scan' = 1 /\ turn' = turn
           \/ scan' = scan /\ turn' = "event"
        /\ turn = "poll" /\ scan = 0
    BY <1>3 DEF RunPoll, ctimerVars
  <2>2. PlaceInv'
    BY <1>3, <2>1 DEF PlaceInv
  <2> QED
    BY <1>1, <1>2, <2>1, <2>2, QuietInv
<1>4. CASE cur = NONE /\ ScanEnd /\ UNCHANGED ctimerVars
  <2>1. /\ scan' = 0 /\ turn' = "event" /\ polled' = polled /\ cur' = cur
        /\ alive' = alive /\ queue' = queue /\ exiter' = exiter
        /\ UNCHANGED << timeVars, listVars, ghostVars, ctimer_list, cp, callback >>
    BY <1>4 DEF ScanEnd, ctimerVars
  <2>2. PlaceInv'
    BY <2>1 DEF PlaceInv
  <2> QED
    BY <1>1, <1>2, <2>1, <2>2, QuietInv
<1>5. CASE cur = NONE /\ RunApps /\ UNCHANGED ctimerVars
  <2>1. /\ scan' = scan /\ turn' = "poll" /\ polled' = polled /\ cur' \in alive \cup {NONE}
        /\ alive' = alive /\ queue' = queue /\ turn = "apps" /\ exiter' = exiter
        /\ UNCHANGED << timeVars, listVars, ghostVars, ctimer_list, cp, callback >>
    BY <1>5 DEF RunApps, ctimerVars
  <2>2. PlaceInv'
    BY <1>1, <2>1 DEF PlaceInv
  <2> QED
    BY <1>1, <2>1, <2>2, QuietInv
<1>6. CASE Return /\ callback' = (callback /\ exiter # NONE) /\ UNCHANGED << ctimer_list, cp >>
  <2>1. /\ scan' = scan /\ turn' = turn /\ polled' = polled /\ cur' = exiter /\ cur # NONE
        /\ alive' = alive /\ queue' = queue /\ exiter' = NONE
        /\ UNCHANGED << timeVars, listVars, ghostVars, ctimer_list, cp >>
    BY <1>6 DEF Return
  <2>2. PlaceInv' /\ callback' \in BOOLEAN
    BY <1>1, <1>6, <2>1 DEF PlaceInv
  <2> QED
    BY <1>1, <2>1, <2>2, QuietInv
<1>7. CASE AppStart /\ UNCHANGED ctimerVars
  <2>1. /\ scan' = scan /\ turn' = "poll" /\ polled' = polled /\ turn = "apps" /\ queue' = queue
        /\ exiter' = exiter
        /\ UNCHANGED << timeVars, listVars, ghostVars, ctimer_list, cp, callback >>
    BY <1>7 DEF AppStart, ctimerVars
  <2>2. PICK q \in Proc \ alive : alive' = alive \cup {q} /\ cur' = q
    BY <1>7 DEF AppStart
  <2>3. PlaceInv'
    BY <1>1, <2>1 DEF PlaceInv
  <2> QED
    BY <1>1, <2>1, <2>2, <2>3, QuietInv
<1> QED
  BY <1>3, <1>4, <1>5, <1>6, <1>7

\* etimer_process, one timer of its list.
LEMMA ScanStepInv ==
  ASSUME CtimerInv, TimeInv', cur = NONE, ScanStep, UNCHANGED ctimerVars
  PROVE  CtimerInv'
<1>0. /\ scan \in DOMAIN timerlist /\ turn' = turn /\ cur' = cur /\ alive' = alive
      /\ exiter' = exiter
      /\ UNCHANGED << ghostVars, ctimer_list, cp, callback >>
  BY DEF ScanStep, ctimerVars
<1>1. /\ polled \in BOOLEAN /\ turn \in {"apps", "poll", "event"}
      /\ cur \in Proc \cup {NONE} /\ alive \subseteq Proc
      /\ PlaceInv /\ Len(timerlist) \in Nat /\ timerlist \in Seq(Timer)
      /\ callback \in BOOLEAN /\ exiter \in Proc \cup {NONE}
  BY CtimerFacts, ListFacts DEF EtimerInv, EtimerTypeOK
<1>2. scan # 0 /\ scan + 1 \in 0 .. Len(timerlist) + 1 /\ turn = "poll"
  BY <1>0, <1>1 DEF PlaceInv
<1>3. PICK t : t = timerlist[scan]
  OBVIOUS
<1>4. CASE Expired(t) /\ ~QueueFull /\ ScanPost(t)
  <2>1. /\ EtimerInv' /\ Listed' = Listed \ {t} /\ t \in Listed
        /\ Ran(queue') = Ran(queue) \cup {<< p[t], t >>}
    BY <1>0, <1>3, <1>4, CtimerFacts, PostEtimer
  <2>2. \A u : Queued(u) => \E x \in Ran(queue) : x[2] = u
    BY CtimerFacts, ListFacts
  <2>3. \A u : Queued(u) => Queued(u)'
    <3> DEFINE y == << p[t], t >>
    <3> HIDE DEF y
    <3>1. Ran(queue') = Ran(queue) \cup {y}
      BY <2>1 DEF y
    <3> QED
      BY <2>2, <3>1, QueuedNext
  <2>6. Queued(t)'
    <3>1. << p[t], t >> \in Ran(queue') /\ << p[t], t >>[2] = t
      BY <2>1
    <3> QED
      BY <3>1, QueuedNext
  <2>4. CTimer \cap Listed' \subseteq Listed /\ overtaken' = overtaken
        /\ callback' \in BOOLEAN
    BY <1>0, <1>1, <2>1 DEF ghostVars
  <2>5. \A u \in CTimer : u \in Listed \/ Queued(u) => u \in Listed' \/ Queued(u)'
    BY <2>1, <2>3, <2>6
  <2> QED
    BY <1>0, <2>1, <2>4, <2>5, CtimerKept
<1>5. CASE ~(Expired(t) /\ ~QueueFull /\ ScanPost(t))
  <2>1. /\ scan' = scan + 1 /\ polled' \in BOOLEAN
        /\ UNCHANGED << queue, timeVars, listVars >>
    BY <1>1, <1>3, <1>5 DEF ScanStep, ScanFull
  <2>2. PlaceInv'
    BY <1>0, <1>2 DEF PlaceInv
  <2> QED
    BY <1>0, <1>1, <1>2, <2>1, <2>2, QuietInv
<1> QED
  BY <1>4, <1>5

\* An event of another process is handled.
LEMMA RunEventInv ==
  ASSUME CtimerInv, TimeInv', cur = NONE, RunEvent, UNCHANGED ctimerVars
  PROVE  CtimerInv'
<1>1. /\ polled \in BOOLEAN /\ scan \in 0 .. Len(timerlist) + 1
      /\ cur \in Proc \cup {NONE} /\ alive \subseteq Proc /\ PlaceInv
      /\ callback \in BOOLEAN /\ OwnerInv /\ exiter \in Proc \cup {NONE}
  BY CtimerFacts DEF EtimerInv, EtimerTypeOK
<1>2. /\ turn = "event" /\ turn' = "apps" /\ scan' = scan /\ polled' = polled /\ alive' = alive
      /\ exiter' = exiter
      /\ UNCHANGED << timeVars, listVars, ghostVars, ctimer_list, cp, callback >>
  BY DEF RunEvent, ctimerVars
<1>3. PlaceInv'
  BY <1>1, <1>2 DEF PlaceInv
<1>4. CASE queue = << >> /\ UNCHANGED << queue, cur >>
  BY <1>1, <1>2, <1>3, <1>4, QuietInv
<1>5. CASE /\ queue # << >> /\ Head(queue)[1] # CTIMER
           /\ queue' = Tail(queue)
           /\ cur' = IF Head(queue)[1] \in alive THEN Head(queue)[1] ELSE NONE
  <2>1. /\ queue' \in Seq(Item) /\ Len(queue') <= NUMEVENTS
        /\ Head(queue) \in Ran(queue) /\ Ran(queue) = Ran(queue') \cup {Head(queue)}
    BY <1>5, CtimerFacts, QueueTail
  <2>2. cur' \in Proc \cup {NONE}
    BY <1>1, <1>5
  <2>3. EtimerInv' /\ Listed' = Listed
    BY <1>1, <1>2, <1>3, <2>1, <2>2, CtimerFacts, QuietEtimer
  <2>4. Head(queue)[2] \notin CTimer
    BY <1>1, <1>5, <2>1 DEF OwnerInv
  <2>5. \A t \in CTimer : Queued(t) => Queued(t)'
    BY <2>1, <2>4, CtimerFacts, ListFacts, QueuedNext
  <2>6. overtaken' = overtaken /\ callback' \in BOOLEAN
    BY <1>1, <1>2 DEF ghostVars
  <2> QED
    BY <1>2, <2>3, <2>5, <2>6, CtimerKept
<1> QED
  BY <1>4, <1>5 DEF RunEvent

\* ctimer_process is told of an expired timer.
LEMMA CtimerEventInv ==
  ASSUME CtimerInv, TimeInv', cur = NONE, CtimerEvent
  PROVE  CtimerInv'
<1>1. /\ polled \in BOOLEAN /\ scan \in 0 .. Len(timerlist) + 1
      /\ cur \in Proc \cup {NONE} /\ alive \subseteq Proc /\ PlaceInv
      /\ callback \in BOOLEAN /\ WaitingInv /\ exiter \in Proc \cup {NONE}
  BY CtimerFacts DEF EtimerInv, EtimerTypeOK
<1>2. /\ turn = "event" /\ turn' = "apps" /\ scan' = scan /\ polled' = polled /\ alive' = alive
      /\ queue # << >> /\ queue' = Tail(queue) /\ exiter' = exiter
      /\ UNCHANGED << timeVars, listVars, ghostVars, cp >>
  BY DEF CtimerEvent
<1>3. PlaceInv'
  BY <1>1, <1>2 DEF PlaceInv
<1>4. /\ queue' \in Seq(Item) /\ Len(queue') <= NUMEVENTS
      /\ Head(queue) \in Ran(queue) /\ Ran(queue) = Ran(queue') \cup {Head(queue)}
  BY <1>2, CtimerFacts, QueueTail
<1>5. PICK t : t = Head(queue)[2]
  OBVIOUS
<1>6. IF t \in CListed
        THEN /\ ctimer_list' = Without(ctimer_list, {t})
             /\ cur' = cp[t] /\ callback' = TRUE
        ELSE UNCHANGED << ctimer_list, cur, callback >>
  BY <1>5 DEF CtimerEvent
<1>7. /\ ctimer_list' \in Seq(CTimer) /\ cur' \in Proc \cup {NONE} /\ callback' \in BOOLEAN
      /\ CListed' = CListed \ {t}
  <2>1. CASE t \in CListed
    <3>1. /\ ctimer_list' \in Seq(CTimer) /\ Ran(ctimer_list') = Ran(ctimer_list) \ {t}
      BY <1>6, <2>1, CtimerFacts, WithoutList
    <3>2. CListed' = Ran(ctimer_list')
      BY DEF CListed, Ran
    <3> QED
      BY <1>6, <2>1, <3>1, <3>2, CtimerFacts
  <2>2. CASE t \notin CListed
    <3>1. CListed' = CListed
      BY <1>6, <2>2 DEF CListed
    <3> QED
      BY <1>1, <1>6, <2>2, <3>1, CtimerFacts
  <2> QED
    BY <2>1, <2>2
<1>8. EtimerInv' /\ Listed' = Listed
  BY <1>1, <1>2, <1>3, <1>4, <1>7, CtimerFacts, QuietEtimer
<1>9. /\ \A u : u # t /\ Queued(u) => Queued(u)'
      /\ Queued(t)
  BY <1>4, <1>5, CtimerFacts, ListFacts, QueuedNext
<1>10. overtaken' = overtaken
  BY <1>2 DEF ghostVars
<1>11. ListsAgree'
  BY <1>1, <1>7, <1>8, <1>9, <1>10 DEF CtimerInv, ListsAgree, WaitingInv
<1>12. CtimerTypeOK'
  BY <1>2, <1>7, <1>8, CtimerFacts DEF CtimerTypeOK, EtimerInv
<1> QED
  BY <1>8, <1>11, <1>12 DEF CtimerInv

-----------------------------------------------------------------------------
\* A thread sets a timer, in one of the three ways there are: the event timer is
\* running afterwards, and only it was set anew while an event waited.
Sets(t, who) ==
  \/ \E i \in Interval : etimer_set(t, i, who)
  \/ etimer_reset(t, who)
  \/ etimer_restart(t, who)

LEMMA SetsEtimer ==
  ASSUME EtimerInv, TimeInv', NEW t \in Timer, Sets(t, User(t)),
         UNCHANGED << scan, kernelVars >>, scan = 0
  PROVE  /\ EtimerInv' /\ Listed' = Listed \cup {t}
         /\ overtaken \ {t} \subseteq overtaken'
<1>1. add_timer(t, User(t))
  BY DEF Sets, etimer_set, etimer_reset, etimer_restart
<1>2. EtimerInv' /\ Listed' = Listed \cup {t}
  BY <1>1, AddEtimer
<1>3. overtaken \ {t} \subseteq overtaken'
  BY <1>1 DEF add_timer
<1> QED
  BY <1>2, <1>3

\* The event timers of the applications.
LEMMA AppTimerInv ==
  ASSUME CtimerInv, TimeInv', AppTimer, UNCHANGED ctimerVars
  PROVE  CtimerInv'
<1>1. /\ cur # NONE /\ UNCHANGED << scan, kernelVars >>
      /\ UNCHANGED << ctimer_list, cp, callback >> /\ queue' = queue
  BY DEF AppTimer, ctimerVars, kernelVars
<1>2. scan = 0 /\ callback' \in BOOLEAN
  BY <1>1, CtimerFacts DEF EtimerInv, PlaceInv
<1>3. PICK t \in ETimer :
        /\ Owner[t] = cur
        /\ \/ Sets(t, cur)
           \/ \E d \in {-1, 1} : etimer_adjust(t, d)
           \/ etimer_stop(t)
  BY DEF AppTimer, Sets
<1>4. t \in Timer /\ t \notin CTimer /\ User(t) = cur
  BY <1>3, Names DEF User
<1>5. \A u : Queued(u)' <=> Queued(u)
  BY <1>1 DEF Queued
<1>6. /\ EtimerInv' /\ Listed \ {t} \subseteq Listed' /\ Listed' \subseteq Listed \cup {t}
      /\ overtaken \ {t} \subseteq overtaken'
  <2>1. CASE Sets(t, cur)
    BY <1>1, <1>2, <1>4, <2>1, CtimerFacts, SetsEtimer
  <2>2. CASE \E d \in {-1, 1} : etimer_adjust(t, d)
    <3>1. PICK d \in {-1, 1} : etimer_adjust(t, d)
      BY <2>2
    <3>2. overtaken' = overtaken
      BY <3>1 DEF etimer_adjust, ghostVars
    <3> QED
      BY <1>1, <1>2, <1>4, <3>1, <3>2, CtimerFacts, AdjustEtimer
  <2>3. CASE etimer_stop(t)
    <3>1. overtaken' = overtaken
      BY <2>3 DEF etimer_stop, ghostVars
    <3> QED
      BY <1>1, <1>2, <1>4, <2>3, <3>1, CtimerFacts, StopEtimer
  <2> QED
    BY <1>3, <2>1, <2>2, <2>3
<1> QED
  BY <1>1, <1>2, <1>4, <1>5, <1>6, CtimerKept

\* A process ends by itself, is ended by another, or by a callback function.
LEMMA AppExitInv ==
  ASSUME CtimerInv, TimeInv',
         \/ AppExit /\ UNCHANGED ctimerVars
         \/ AppEnd /\ UNCHANGED ctimerVars
         \/ CallbackExit
  PROVE  CtimerInv'
<1>1. /\ cur \in Proc \cup {NONE} /\ exiter \in Proc \cup {NONE} /\ alive \subseteq Proc
      /\ turn \in {"apps", "poll", "event"} /\ PlaceInv /\ NONE \notin Proc
  BY CtimerFacts, Names DEF EtimerInv, EtimerTypeOK
<1>2. PICK q \in alive : Exit(q)
  BY <1>1 DEF AppExit, AppEnd, CallbackExit, Exit
<1>3. /\ scan = 0 /\ UNCHANGED << ctimer_list, cp, callback >>
      /\ cur' \in Proc \cup {NONE} /\ exiter' \in Proc \cup {NONE}
      /\ turn' \in {"apps", "poll", "event"}
  <2>1. CASE AppExit /\ UNCHANGED ctimerVars
    BY <1>1, <2>1 DEF AppExit, PlaceInv, ctimerVars
  <2>2. CASE AppEnd /\ UNCHANGED ctimerVars
    BY <1>1, <2>2 DEF AppEnd, Exit, PlaceInv, ctimerVars
  <2>3. CASE CallbackExit
    BY <1>1, <2>3 DEF CallbackExit, Exit, PlaceInv, ctimerVars
  <2> QED
    BY <2>1, <2>2, <2>3
<1>4. EtimerInv' /\ Listed' \subseteq Listed /\ \A t \in Listed \cap CTimer : t \in Listed'
  BY <1>2, <1>3, CtimerFacts, ExitEtimer
<1>5. queue' = queue /\ overtaken' = overtaken
  BY <1>2 DEF Exit, ghostVars
<1>6. \A u : Queued(u)' <=> Queued(u)
  BY <1>5 DEF Queued
<1>7. callback' \in BOOLEAN
  BY <1>3, CtimerFacts
<1> QED
  BY <1>3, <1>4, <1>5, <1>6, <1>7, CtimerKept

\* A process fills the queue with events that are not of a timer.
LEMMA AppPostInv ==
  ASSUME CtimerInv, TimeInv', AppPost, UNCHANGED ctimerVars
  PROVE  CtimerInv'
<1>1. /\ polled \in BOOLEAN /\ scan \in 0 .. Len(timerlist) + 1
      /\ turn \in {"apps", "poll", "event"}
      /\ cur \in Proc \cup {NONE} /\ alive \subseteq Proc /\ PlaceInv
      /\ callback \in BOOLEAN /\ exiter \in Proc \cup {NONE}
  BY CtimerFacts DEF EtimerInv, EtimerTypeOK
<1> DEFINE x == << cur, NONE >>
           n == NUMEVENTS - Len(queue)
           more == [i \in 1 .. n |-> x]
<1>2. /\ cur # NONE /\ queue' = queue \o more
      /\ turn' = turn /\ scan' = scan /\ polled' = polled /\ alive' = alive /\ cur' = cur
      /\ exiter' = exiter
      /\ UNCHANGED << timeVars, listVars, ghostVars, ctimer_list, cp, callback >>
  BY DEF AppPost, ctimerVars
<1>3. queue \in Seq(Item) /\ Len(queue) \in Nat /\ n \in Nat /\ x \in Item
  <2>1. queue \in Seq(Item) /\ Len(queue) \in Nat /\ Len(queue) <= NUMEVENTS
        /\ NUMEVENTS \in Nat
    BY CtimerFacts, ListFacts, Names
  <2>2. x \in Item
    BY <1>1, <1>2 DEF Item
  <2>3. n \in Nat
    BY <2>1
  <2> QED
    BY <2>1, <2>2, <2>3
<1> HIDE DEF n, x
<1>4. more \in Seq(Item) /\ Len(more) = n /\ \A i \in 1 .. n : more[i] = x
  BY <1>3
<1> HIDE DEF more
<1>5. /\ queue' \in Seq(Item) /\ Len(queue') = Len(queue) + n
      /\ \A i \in 1 .. Len(queue) : queue'[i] = queue[i]
      /\ \A i \in 1 .. Len(queue') : i <= Len(queue) \/ queue'[i] = x
  <2>1. /\ queue' \in Seq(Item) /\ Len(queue') = Len(queue) + n
        /\ \A i \in 1 .. Len(queue) : queue'[i] = queue[i]
        /\ \A i \in 1 .. Len(queue) + n :
             queue'[i] = IF i <= Len(queue) THEN queue[i] ELSE more[i - Len(queue)]
    <3> DEFINE q == queue \o more
    <3>1. /\ q \in Seq(Item) /\ Len(q) = Len(queue) + Len(more)
          /\ \A i \in 1 .. Len(queue) + Len(more) :
               q[i] = IF i <= Len(queue) THEN queue[i] ELSE more[i - Len(queue)]
      BY <1>3, <1>4, ConcatProperties
    <3> HIDE DEF q
    <3>2. \A i \in 1 .. Len(queue) : i \in 1 .. Len(queue) + n /\ i <= Len(queue)
      BY <1>3
    <3>3. queue' = q
      BY <1>2 DEF q
    <3> QED
      BY <1>4, <3>1, <3>2, <3>3
  <2>2. ASSUME NEW i \in 1 .. Len(queue'), ~(i <= Len(queue)) PROVE queue'[i] = x
    <3>1. i - Len(queue) \in 1 .. n /\ i \in 1 .. Len(queue) + n
      BY <1>3, <2>1, <2>2
    <3> QED
      BY <1>4, <2>1, <2>2, <3>1
  <2> QED
    BY <2>1, <2>2
<1>6. DOMAIN queue = 1 .. Len(queue) /\ DOMAIN queue' = 1 .. Len(queue') /\ Len(queue') \in Nat
  BY <1>3, <1>5
<1>7. \A e \in Ran(queue') : e = x \/ e \in Ran(queue)
  <2>1. ASSUME NEW i \in 1 .. Len(queue'), queue'[i] # x PROVE queue'[i] \in Ran(queue)
    <3>1. i \in 1 .. Len(queue)
      BY <1>3, <1>5, <1>6, <2>1
    <3> QED
      BY <1>5, <1>6, <3>1 DEF Ran
  <2> QED
    BY <1>6, <2>1 DEF Ran
<1>8. Ran(queue) \subseteq Ran(queue')
  <2>1. \A i \in 1 .. Len(queue) : i \in 1 .. Len(queue')
    BY <1>3, <1>5
  <2> QED
    BY <1>5, <1>6, <2>1 DEF Ran
<1>9. PlaceInv' /\ Len(queue') <= NUMEVENTS /\ x[2] = NONE
  BY <1>1, <1>2 DEF PlaceInv, TimeInv, QueueOK, x
<1>10. EtimerInv' /\ Listed' = Listed
  BY <1>1, <1>2, <1>5, <1>7, <1>9, CtimerFacts, QuietEtimer
<1>11. \A t : Queued(t) => Queued(t)'
  BY <1>8, CtimerFacts, ListFacts, QueuedNext
<1>12. overtaken' = overtaken
  BY <1>2 DEF ghostVars
<1> QED
  BY <1>1, <1>2, <1>10, <1>11, <1>12, CtimerKept

-----------------------------------------------------------------------------
\* A callback timer is set, or set anew, and put at the end of ctimer_list.
LEMMA CtimerSetInv ==
  ASSUME CtimerInv, TimeInv', CtimerSet \/ CtimerReset
  PROVE  CtimerInv'
<1>1. /\ cur # NONE /\ UNCHANGED << scan, kernelVars >> /\ callback' = callback
      /\ queue' = queue
  BY DEF CtimerSet, CtimerReset, kernelVars
<1>2. scan = 0 /\ callback' \in BOOLEAN /\ cur \in Proc \cup {NONE}
  BY <1>1, CtimerFacts DEF EtimerInv, PlaceInv, EtimerTypeOK
<1>3. PICK t \in CTimer : Sets(t, CTIMER) /\ ctimer_list' = Relisted(t)
                          /\ cp' \in {cp, [cp EXCEPT ![t] = cur]}
  BY DEF CtimerSet, CtimerReset, Sets
<1>4. t \in Timer /\ User(t) = CTIMER
  BY CtimerFacts DEF User
<1>5. /\ EtimerInv' /\ Listed' = Listed \cup {t}
      /\ overtaken \ {t} \subseteq overtaken'
  BY <1>1, <1>2, <1>3, <1>4, CtimerFacts, SetsEtimer
<1>6. ctimer_list' \in Seq(CTimer) /\ CListed' = CListed \cup {t}
  <2> DEFINE rest == Without(ctimer_list, {t})
  <2>1. rest \in Seq(CTimer) /\ Ran(rest) = CListed \ {t}
    BY CtimerFacts, WithoutList
  <2>2. ctimer_list' = Append(rest, t)
    BY <1>3 DEF Relisted
  <2> HIDE DEF rest
  <2>3. ctimer_list' \in Seq(CTimer) /\ Ran(ctimer_list') = Ran(rest) \cup {t}
    BY <2>1, <2>2, AppendList
  <2>4. CListed' = Ran(ctimer_list')
    BY DEF CListed, Ran
  <2> QED
    BY <2>1, <2>3, <2>4
<1>7. cp' \in [CTimer -> Proc \cup {NONE}]
  BY <1>2, <1>3, CtimerFacts
<1>8. \A u : Queued(u)' <=> Queued(u)
  BY <1>1 DEF Queued
<1>9. ListsAgree'
  BY <1>5, <1>6, <1>8 DEF CtimerInv, ListsAgree
<1>10. CtimerTypeOK'
  BY <1>2, <1>5, <1>6, <1>7 DEF CtimerTypeOK, EtimerInv
<1> QED
  BY <1>5, <1>9, <1>10 DEF CtimerInv

LEMMA CtimerStopInv ==
  ASSUME CtimerInv, TimeInv', CtimerStop
  PROVE  CtimerInv'
<1>1. /\ cur # NONE /\ UNCHANGED << scan, kernelVars, cp, callback >>
      /\ queue' = queue
  BY DEF CtimerStop, kernelVars
<1>2. scan = 0 /\ callback' \in BOOLEAN
  BY <1>1, CtimerFacts DEF EtimerInv, PlaceInv
<1>3. PICK t \in CTimer : etimer_stop(t) /\ ctimer_list' = Without(ctimer_list, {t})
  BY DEF CtimerStop
<1>4. EtimerInv' /\ Listed' = Listed \ {t} /\ t \in Timer
  BY <1>1, <1>2, <1>3, CtimerFacts, StopEtimer
<1>5. ctimer_list' \in Seq(CTimer) /\ CListed' = CListed \ {t}
  <2>1. ctimer_list' \in Seq(CTimer) /\ Ran(ctimer_list') = CListed \ {t}
    BY <1>3, CtimerFacts, WithoutList
  <2>2. CListed' = Ran(ctimer_list')
    BY DEF CListed, Ran
  <2> QED
    BY <2>1, <2>2
<1>6. /\ \A u : Queued(u)' <=> Queued(u)
      /\ overtaken' = overtaken
  BY <1>1, <1>3 DEF Queued, etimer_stop, ghostVars
<1>7. ListsAgree'
  BY <1>4, <1>5, <1>6 DEF CtimerInv, ListsAgree
<1>8. CtimerTypeOK'
  BY <1>1, <1>2, <1>4, <1>5, CtimerFacts DEF CtimerTypeOK, EtimerInv
<1> QED
  BY <1>4, <1>7, <1>8 DEF CtimerInv

-----------------------------------------------------------------------------
LEMMA CtimerNext == CtimerInv /\ [Next]_vars => CtimerInv'
<1> SUFFICES ASSUME CtimerInv, [Next]_vars PROVE CtimerInv'
  OBVIOUS
<1>1. TimeInv'
  BY CtimerFacts, TimeNext
<1>2. CASE UNCHANGED vars
  <2>1. /\ UNCHANGED << timeVars, listVars, ghostVars, ctimer_list, cp >>
        /\ callback' = callback /\ alive' = alive /\ cur' = cur /\ turn' = turn
        /\ polled' = polled /\ scan' = scan /\ UNCHANGED queue /\ exiter' = exiter
    BY <1>2 DEF vars, etimerVars, kernelVars, ctimerVars
  <2>2. /\ polled \in BOOLEAN /\ scan \in 0 .. Len(timerlist) + 1
        /\ turn \in {"apps", "poll", "event"}
        /\ cur \in Proc \cup {NONE} /\ alive \subseteq Proc /\ PlaceInv
        /\ callback \in BOOLEAN /\ exiter \in Proc \cup {NONE}
    BY CtimerFacts DEF EtimerInv, EtimerTypeOK
  <2>3. PlaceInv'
    BY <2>1, <2>2 DEF PlaceInv
  <2> QED
    BY <1>1, <2>1, <2>2, <2>3, QuietInv
<1>3. CASE Clock
  BY <1>1, <1>3, ClockInv
<1>4. CASE Kernel
  <2>1. CASE cur = NONE /\ ScanStep /\ UNCHANGED ctimerVars
    BY <1>1, <2>1, ScanStepInv
  <2>2. CASE cur = NONE /\ RunEvent /\ UNCHANGED ctimerVars
    BY <1>1, <2>2, RunEventInv
  <2>3. CASE cur = NONE /\ CtimerEvent
    BY <1>1, <2>3, CtimerEventInv
  <2>4. CASE \/ cur = NONE /\ (RunPoll \/ ScanEnd \/ RunApps) /\ UNCHANGED ctimerVars
             \/ Return /\ callback' = (callback /\ exiter # NONE)
                  /\ UNCHANGED << ctimer_list, cp >>
    BY <1>1, <2>4, KernelInv
  <2> QED
    BY <1>4, <2>1, <2>2, <2>3, <2>4 DEF Kernel
<1>5. CASE App
  <2>1. CASE AppTimer /\ UNCHANGED ctimerVars
    BY <1>1, <2>1, AppTimerInv
  <2>2. CASE AppPost /\ UNCHANGED ctimerVars
    BY <1>1, <2>2, AppPostInv
  <2>3. CASE AppStart /\ UNCHANGED ctimerVars
    BY <1>1, <2>3, KernelInv
  <2>4. CASE \/ AppExit /\ UNCHANGED ctimerVars
             \/ AppEnd /\ UNCHANGED ctimerVars
             \/ CallbackExit
    BY <1>1, <2>4, AppExitInv
  <2>5. CASE CtimerSet \/ CtimerReset
    BY <1>1, <2>5, CtimerSetInv
  <2>6. CASE CtimerStop
    BY <1>1, <2>6, CtimerStopInv
  <2> QED
    BY <1>5, <2>1, <2>2, <2>3, <2>4, <2>5, <2>6 DEF App
<1> QED
  BY <1>2, <1>3, <1>4, <1>5 DEF Next

LEMMA CtimerAlways == Spec => []CtimerInv
BY StartInv, CtimerNext, PTL DEF Spec

\* The values the lists, the queue, the timers and the time of the next expiration
\* have, whatever the applications do with their timers.
THEOREM CtimerTyping == Spec => []CtimerTypeOK
<1>1. CtimerInv => CtimerTypeOK
  BY DEF CtimerInv
<1> QED
  BY <1>1, CtimerAlways, PTL

\* No timer is on the list of event timers twice, so that the list never closes into
\* a cycle, and no timer on it has lost its process: add_timer(), which searches the
\* list only for a timer with a process, never inserts one that is on it.
THEOREM NeverTwice == Spec => []ListSound
<1>1. CtimerInv => ListSound
  BY DEF CtimerInv, EtimerInv
<1> QED
  BY <1>1, CtimerAlways, PTL

\* etimer_process, told that a process has exited, leaves no timer of it on the list,
\* wherever on it they were; the only ones found there later were set by a callback
\* function that ran in the name of the process, or by its own thread when it handled
\* EXIT, which exit_process() sends after EXITED (process.c:157-190).
THEOREM NoTimerOfTheDead == Spec => []EndedHaveNoTimers
<1>1. CtimerInv => EndedHaveNoTimers
  BY DEF CtimerInv, EtimerInv
<1> QED
  BY <1>1, CtimerAlways, PTL

\* The time of the next expiration is that of the timer that expires first, though it
\* is computed in the arithmetic of a clock that wraps: unless a timer is late, or
\* timers were taken off the list with their process.
THEOREM FirstIsNext == Spec => []NextIsEarliest
<1>1. CtimerInv => NextIsEarliest
  BY DEF CtimerInv, EtimerInv
<1> QED
  BY <1>1, CtimerAlways, PTL

\* A callback timer that is due has its event timer running or the event on its way,
\* and no event timer runs for one that is not due, unless it was set anew while an
\* event of it waited: ctimer_list and the list of event timers agree.
THEOREM CallbacksComing == Spec => []ListsAgree
<1>1. CtimerInv => ListsAgree
  BY DEF CtimerInv
<1> QED
  BY <1>1, CtimerAlways, PTL
=============================================================================
