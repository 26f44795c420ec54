------------------------------ MODULE MCExtHub ------------------------------
EXTENDS ExtHub
=============================================================================
