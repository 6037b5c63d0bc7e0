------------------------------ MODULE MCDmtcp ------------------------------
EXTENDS Dmtcp, TLC
=============================================================================
