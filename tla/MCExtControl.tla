------------------------------ MODULE MCExtControl ------------------------------
EXTENDS ExtControl
=============================================================================
