----------------------------- MODULE EventQueue -----------------------------
(***************************************************************************)
(* The event queue of the process kernel (core/sys/process.c): a ring of   *)
(* PROCESS_CONF_NUMEVENTS slots, filled by process_post() and emptied by   *)
(* do_event().  The counters fevent and nevents have the C type            *)
(* process_num_events_t, so the slot that process_post() fills is          *)
(*     (process_num_events_t)(fevent + nevents) % PROCESS_CONF_NUMEVENTS   *)
(* with the sum reduced to the width of that type BEFORE the remainder is  *)
(* taken.  NumSpan is the number of values of the type (256 on AVR).       *)
(***************************************************************************)
EXTENDS Naturals, Sequences

CONSTANTS
  NUMEVENTS,  \* PROCESS_CONF_NUMEVENTS
  NumSpan,    \* 2^w for the w-bit type process_num_events_t
  Message,    \* what a slot holds: receiver, event number and data
  NoMessage   \* a slot never written (the array is zeroed at boot)

\* The ring is sound for every size whose last index plus fill level fits the
\* counter type; micaz uses 8 slots and the default is 32, with NumSpan = 256.
ASSUME QueueAssumption ==
  /\ NUMEVENTS \in Nat \ {0}
  /\ NumSpan \in Nat
  /\ NUMEVENTS < NumSpan
  /\ 2 * NUMEVENTS - 1 <= NumSpan
  /\ NoMessage \notin Message

VARIABLES
  fevent,   \* index of the oldest message
  nevents,  \* number of waiting messages
  events    \* the slots

queueVars == << fevent, nevents, events >>

Slot == 0 .. NUMEVENTS - 1

QueueInit ==
  /\ fevent = 0
  /\ nevents = 0
  /\ events = [i \in Slot |-> NoMessage]

\* Mutant: the full ring is noticed one message too late.
QueueFullMutant == nevents = NUMEVENTS + 1

QueueFull == nevents = NUMEVENTS

\* Mutant: the new message goes to the slot at nevents, as if the oldest message
\* always sat in slot 0.
PostSlotMutant == nevents % NUMEVENTS

\* The slot process_post() fills.
PostSlot == ((fevent + nevents) % NumSpan) % NUMEVENTS

\* process_post() that returns PROCESS_ERR_OK.
PostOk(m) ==
  /\ ~QueueFull
  /\ events' = [events EXCEPT ![PostSlot] = m]
  /\ nevents' = (nevents + 1) % NumSpan
  /\ UNCHANGED fevent

\* process_post() that returns PROCESS_ERR_FULL.
PostFull ==
  /\ QueueFull
  /\ UNCHANGED queueVars

\* The message do_event() takes, and the removal.
NextMessage == events[fevent]

\* Mutant: fevent does not wrap.
TakeEventMutant ==
  /\ nevents > 0
  /\ fevent' = fevent + 1
  /\ nevents' = nevents - 1
  /\ UNCHANGED events

TakeEvent ==
  /\ nevents > 0
  /\ fevent' = (fevent + 1) % NUMEVENTS
  /\ nevents' = nevents - 1
  /\ UNCHANGED events

QueueNext == (\E m \in Message : PostOk(m)) \/ PostFull \/ TakeEvent

QueueSpec == QueueInit /\ [][QueueNext]_queueVars

-----------------------------------------------------------------------------
\* The messages waiting, oldest first: what do_event() will take, in order.
Waiting == [i \in 1 .. nevents |-> events[(fevent + (i - 1)) % NUMEVENTS]]

Fifo == INSTANCE BoundedFifo WITH Capacity <- NUMEVENTS, queue <- Waiting

QueueTypeOK ==
  /\ fevent \in Slot
  /\ nevents \in 0 .. NUMEVENTS
  /\ events \in [Slot -> Message \cup {NoMessage}]

\* No slot that process_post() never filled is ever delivered: every waiting
\* position holds a message (process_post, do_event).
WaitingAreMessages == \A i \in 1 .. nevents : Waiting[i] \in Message

\* The ring implements the bounded FIFO queue: nothing is lost, duplicated,
\* reordered or overwritten while the indices wrap (process_post, do_event).
FifoSpec == Fifo!Spec
=============================================================================
