----------------------------- MODULE MCDSwitch -----------------------------
\* TLC instances of DSwitch.
EXTENDS DSwitch

CONSTANTS a, b, c

MCMessage == [ev : Events, p : Proc \cup {NULL}]

MCTwo == << a, b >>
MCThree == << a, b, c >>
=============================================================================
