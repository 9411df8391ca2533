------------------------------- MODULE Ctimer -------------------------------
(***************************************************************************)
(* Callback timers (core/sys/ctimer.c) on top of the event timers: each    *)
(* has an event timer that is set in the name of ctimer_process, and is on *)
(* ctimer_list while its callback is due.  ctimer_process, told of an      *)
(* expired event timer, calls the function of the callback timer it finds  *)
(* on the list, in the context of the process that set it.                 *)
(*                                                                         *)
(* A callback timer is named by its event timer.  ctimer_process has been  *)
(* started, and `initialized' is 1: main() calls ctimer_init() before any  *)
(* callback timer is set.                                                  *)
(***************************************************************************)
EXTENDS Etimer

VARIABLES
  ctimer_list,  \* the callback timers that are due
  cp,           \* the process that set each
  callback      \* a callback function executes

ctimerVars == << ctimer_list, cp, callback >>
vars == << etimerVars, ctimerVars >>

Init ==
  /\ EtimerInit
  /\ ctimer_list = << >>
  /\ cp = [t \in CTimer |-> NONE]
  /\ callback = FALSE

CListed == {ctimer_list[i] : i \in DOMAIN ctimer_list}

\* list_remove() and list_add().
Relisted(t) == Append(Without(ctimer_list, {t}), t)

\* ctimer_set(), ctimer_reset(), ctimer_restart() and ctimer_stop().
CtimerSet ==
  /\ cur # NONE
  /\ \E t \in CTimer, i \in Interval :
       /\ etimer_set(t, i, CTIMER)
       /\ ctimer_list' = Relisted(t)
       /\ cp' = [cp EXCEPT ![t] = cur]
  /\ UNCHANGED << scan, kernelVars, callback >>

CtimerReset ==
  /\ cur # NONE
  /\ \E t \in {u \in CTimer : cp[u] # NONE} :
       /\ etimer_reset(t, CTIMER) \/ etimer_restart(t, CTIMER)
       /\ ctimer_list' = Relisted(t)
  /\ UNCHANGED << scan, kernelVars, cp, callback >>

\* Mutant: the timer stays on ctimer_list.
CtimerStopListMutant ==
  /\ cur # NONE
  /\ \E t \in CTimer : etimer_stop(t)
  /\ UNCHANGED << scan, kernelVars, ctimerVars >>

CtimerStop ==
  /\ cur # NONE
  /\ \E t \in CTimer :
       /\ etimer_stop(t)
       /\ ctimer_list' = Without(ctimer_list, {t})
  /\ UNCHANGED << scan, kernelVars, cp, callback >>

\* ctimer_process handles a TIMER event: it calls the function of the timer, or
\* finds that the timer has been stopped, or called already.
CtimerEvent ==
  /\ turn = "event" /\ queue # << >> /\ Head(queue)[1] = CTIMER
  /\ queue' = Tail(queue)
  /\ turn' = "apps"
  /\ LET t == Head(queue)[2] IN
       IF t \in CListed
         THEN /\ ctimer_list' = Without(ctimer_list, {t})
              /\ cur' = cp[t] /\ callback' = TRUE
         ELSE UNCHANGED << ctimer_list, cur, callback >>
  /\ UNCHANGED << timeVars, listVars, polled, scan, alive, exiter, ghostVars, cp >>

\* A callback function exits the process it runs for, and goes on in its name.
CallbackExit ==
  /\ callback
  /\ Exit(cur)
  /\ UNCHANGED << cur, turn, exiter, ctimerVars >>

\* The steps of the event timers, and of the threads that use them.  The return of
\* a callback goes to ctimer_process; a callback does not return by ending its process.
Kernel ==
  \/ cur = NONE /\ (RunPoll \/ ScanStep \/ ScanEnd \/ RunEvent \/ RunApps)
       /\ UNCHANGED ctimerVars
  \/ cur = NONE /\ CtimerEvent
  \/ Return /\ callback' = (callback /\ exiter # NONE)
       /\ UNCHANGED << ctimer_list, cp >>

App ==
  \/ (AppTimer \/ AppPost \/ AppStart \/ AppExit) /\ UNCHANGED ctimerVars
  \/ ~callback /\ AppEnd /\ UNCHANGED ctimerVars
  \/ CtimerSet \/ CtimerReset \/ CtimerStop \/ CallbackExit

Clock == Tick /\ UNCHANGED ctimerVars

Next == Clock \/ Kernel \/ App

\* The clock ticks, process_run() is called for ever and every thread returns.
Spec == Init /\ [][Next]_vars /\ WF_vars(Kernel) /\ WF_vars(Clock)

-----------------------------------------------------------------------------
CtimerTypeOK ==
  /\ EtimerTypeOK
  /\ ctimer_list \in Seq(CTimer)
  /\ cp \in [CTimer -> Proc \cup {NONE}]
  /\ callback \in BOOLEAN

\* The two lists agree: a callback timer that waits for its callback has its event
\* timer running, or the event on its way, and no event timer runs for one that
\* does not wait and was not overtaken (ctimer_set, ctimer_stop, ctimer_process).
ListsAgree ==
  /\ \A t \in CListed : t \in Listed \/ Queued(t)
  /\ \A t \in CTimer \cap Listed : t \in CListed \/ t \in overtaken
=============================================================================
