------------------------------ MODULE MCIntQueue ------------------------------
EXTENDS IntQueue

MCNumbers == <<1, 2, 3>>
=============================================================================
