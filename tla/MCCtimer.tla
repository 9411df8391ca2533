------------------------------ MODULE MCCtimer ------------------------------
\* TLC instance of Ctimer: one process with two event timers and a callback timer,
\* a clock that wraps after five ticks and an event queue of one place.
EXTENDS Ctimer

CONSTANTS a, e, f, ct

MCOwner == [t \in ETimer |-> a]
=============================================================================
