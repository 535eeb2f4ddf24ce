---------------------------- MODULE MCCommWrite -----------------------------
EXTENDS CommWrite
=============================================================================
