-------------------------- MODULE ReliableUnicast --------------------------
(***************************************************************************)
(* What reliable single-hop unicast promises to the program that uses it   *)
(* (core/net/rime/runicast.h): one message at a time; each is reported     *)
(* once, as sent or as timed out; it is reported as sent only if the       *)
(* receiver has got it.  A message that timed out may have been received,  *)
(* and any message may be received more than once.                         *)
(***************************************************************************)
EXTENDS Naturals

VARIABLES
  count,      \* how many messages were accepted
  busy,       \* the last of them has no outcome yet
  delivered,  \* the messages the receiver has got
  confirmed,  \* those reported as sent
  failed      \* those reported as timed out

vars == << count, busy, delivered, confirmed, failed >>

Init ==
  /\ count = 0 /\ busy = FALSE
  /\ delivered = {} /\ confirmed = {} /\ failed = {}

Send ==
  /\ ~busy
  /\ count' = count + 1 /\ busy' = TRUE
  /\ UNCHANGED << delivered, confirmed, failed >>

\* The time-out may be reported before the call returns.
SendInVain ==
  /\ ~busy
  /\ count' = count + 1
  /\ failed' = failed \cup {count + 1}
  /\ UNCHANGED << busy, delivered, confirmed >>

Deliver ==
  /\ \E n \in 1 .. count : delivered' = delivered \cup {n}
  /\ UNCHANGED << count, busy, confirmed, failed >>

Confirm ==
  /\ busy /\ count \in delivered
  /\ busy' = FALSE /\ confirmed' = confirmed \cup {count}
  /\ UNCHANGED << count, delivered, failed >>

GiveUp ==
  /\ busy
  /\ busy' = FALSE /\ failed' = failed \cup {count}
  /\ UNCHANGED << count, delivered, confirmed >>

\* The connection is closed under the message.
Abandon ==
  /\ busy
  /\ busy' = FALSE
  /\ UNCHANGED << count, delivered, confirmed, failed >>

Next == Send \/ SendInVain \/ Deliver \/ Confirm \/ GiveUp \/ Abandon

Spec == Init /\ [][Next]_vars
=============================================================================
