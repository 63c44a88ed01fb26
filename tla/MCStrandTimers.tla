---------------------------- MODULE MCStrandTimers ----------------------------
\* Two threads, as in main(), that are interchangeable.
EXTENDS StrandTimers, TLC

Symmetry == Permutations(Thread)
=============================================================================
