------------------------------ MODULE MCParser ------------------------------
EXTENDS Parser

\* Nothing, a byte, two digits at most, and what does and does not fit.
MCCounts == {0, 1, 99, 100, 511, 512, 513}
=============================================================================
