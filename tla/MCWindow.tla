------------------------------ MODULE MCWindow ------------------------------
EXTENDS Window
=============================================================================
