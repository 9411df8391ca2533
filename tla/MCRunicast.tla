----------------------------- MODULE MCRunicast -----------------------------
\* TLC instance of Runicast: packet ids of two bits, which five messages wrap, and
\* frames that outlive two transmissions, as many as the ids allow.
EXTENDS Runicast
=============================================================================
