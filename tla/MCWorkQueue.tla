---------------------------- MODULE MCWorkQueue ----------------------------
(* Model-checking instance of WorkQueue: threads and tasks are model values, *)
(* and the threads are interchangeable.                                      *)
EXTENDS WorkQueue, TLC

Symmetry == Permutations(Thread) \cup Permutations(Task)
=============================================================================
