---------------------------- MODULE MCSmallPrograms ----------------------------
(***************************************************************************)
(* Small programs in one run.  They share nothing: which of them runs is   *)
(* chosen at the start.                                                    *)
(***************************************************************************)
EXTENDS GreetingClient, Buffers, DebugSettings, RepeatTimers, TLC

CONSTANTS x, y

MCValue == {<<>>, <<x>>, <<y>>, <<x, y>>}
MCText  == {"", "debug.log"}

\* A file with and one without each of its nodes, and modules in any number.
Written(filename, level, modules) ==
  [filename |-> filename, level |-> level, modules |-> modules]
MCHandWritten ==
  {Written("debug.log", 2, {m}) : m \in Module}
  \cup {Written("debug.log", Absent, Module), Written("debug.log", 0, {}),
        Written("debug.log", 2, Absent), Written(Absent, 2, Module)}

MCSymmetry == Permutations(Cell)

VARIABLE program

MCInit ==
  /\ GreetingInit /\ BufferInit /\ SettingsInit /\ TimersInit
  /\ program \in {"greeting", "buffer", "settings", "timers"}
  /\ program # "timers" => handler = "print"
  /\ program # "settings" => m_level = 0

\* Only p goes on.
Runs(p) ==
  /\ program = p /\ UNCHANGED program
  /\ p # "greeting" => UNCHANGED greetingVars
  /\ p # "buffer"   => UNCHANGED bufferVars
  /\ p # "settings" => UNCHANGED settingsVars
  /\ p # "timers"   => UNCHANGED timerVars

MCNext ==
  \/ Runs("greeting") /\ GreetingNext
  \/ Runs("buffer") /\ BufferNext
  \/ Runs("settings") /\ SettingsNext
  \/ Runs("timers") /\ TimersNext

MCSpec ==
  MCInit /\ [][MCNext]_<<greetingVars, bufferVars, settingsVars, timerVars, program>>
=============================================================================
