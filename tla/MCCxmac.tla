------------------------------ MODULE MCCxmac ------------------------------
\* TLC instance of Cxmac: two nodes and the address of an absent third, trains of
\* two strobes.
EXTENDS Cxmac

CONSTANTS a, b
=============================================================================
