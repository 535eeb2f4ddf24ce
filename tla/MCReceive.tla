----------------------------- MODULE MCReceive ------------------------------
EXTENDS Receive
=============================================================================
