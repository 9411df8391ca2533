------------------------------ MODULE MCRtimer ------------------------------
\* TLC instances of Rtimer.
EXTENDS Rtimer
=============================================================================
