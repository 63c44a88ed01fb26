--------------------------- MODULE MCTasksProcessor ---------------------------
(***************************************************************************)
(* The processor under main() of boost-thread-2.cpp and, chosen at the     *)
(* start, under any other use, with a few of the tasks.                    *)
(***************************************************************************)
EXTENDS TasksMain

\* As in the source, with fewer calls: three throw, one each way, and one stops
\* the processor.
MCThrows ==
  [n \in 2..4 |-> CASE n = 2 -> "std::exception"
                    [] n = 3 -> "thread_interrupted"
                    [] n = 4 -> "other"]
MCTask == 1..Calls \cup {Lambda}

\* Bound: how many tasks any other use has.
Few == 3

MCInit ==
  \/ MainInit
  \/ /\ Init /\ main_at = "other"
     /\ with_asserts = TRUE /\ counter = 0 /\ sum = 0

Other(Action) == main_at = "other" /\ Action /\ UNCHANGED mainVars

\* Tasks are alike but for their names, so that they may be given to the processor
\* in the order of the names.
OtherUse == Other(Next) /\ \E n \in 0..Few : {task \in Task : ~Fresh(task)'} = 1..n

\* main() has returned, or the process has ended.
Terminated ==
  /\ main_at \in {"done", "aborted"} \/ at[Main] = "escaped"
  /\ UNCHANGED programVars

MCSpec ==
  /\ MCInit /\ [][MainNext \/ OtherUse \/ Terminated]_programVars
  /\ WF_programVars(MainNext)
  /\ \A w \in Worker : WF_programVars(Other(Work(w)))
  /\ \A task \in 1..Few : WF_programVars(Other(Expire(task)))
  /\ WF_programVars(Other(Tick))
=============================================================================
