----------------------------- MODULE MCProcess -----------------------------
\* TLC instances of Process.
EXTENDS Process

CONSTANTS a, b, c

MCMessage == [ev : Events, p : Proc \cup {NULL}]

\* Every event to all processes, and EXIT also to one of them.
MCBroadcasts == [ev : Events, p : {NULL}] \cup [ev : {"EXIT"}, p : {a}]

MCOne == << a >>
MCTwo == << a, b >>
MCThree == << a, b, c >>
=============================================================================
