-------------------------- MODULE MCConnectionChain --------------------------
EXTENDS ConnectionChain

CONSTANTS c1, c2

MCConnection == {c1, c2}
MCTask       == MCConnection \X Step
=============================================================================
