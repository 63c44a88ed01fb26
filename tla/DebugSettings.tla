----------------------------- MODULE DebugSettings -----------------------------
(***************************************************************************)
(* struct debug_settings of src/boost-config-3-xml.cpp: load() reads the   *)
(* settings from an XML file, a field at a time, and save() writes them to *)
(* one.  Any caller loads and saves; files are edited, too.                *)
(***************************************************************************)
EXTENDS Naturals

CONSTANTS
  File, Text, Level, Module,
  HandWritten,  \* the trees that somebody may write by hand
  Absent,       \* a node that a tree does not have
  Unreadable,   \* what a file holds that is missing or no XML
  Unknown       \* what a file holds that save() was not the last to write

Settings == [filename : Text, level : Level, modules : SUBSET Module]
Tree == [filename : Text \cup {Absent}, level : Level \cup {Absent},
         modules : (SUBSET Module) \cup {Absent}]

ASSUME SettingsAssumption ==
  /\ "" \in Text /\ 0 \in Level /\ HandWritten \subseteq Tree
  /\ Absent \notin Text /\ Absent \notin Level
  /\ \A modules \in SUBSET Module : Absent # modules
  /\ Unreadable \notin Tree /\ Unknown \notin Settings

VARIABLES
  m_file, m_level, m_modules,
  files,      \* the property tree that each file holds
  call,       \* the call just made, if any: its name, its file and how it ended
  saved       \* history: the settings that save() has written to each file

object       == <<m_file, m_level, m_modules>>
settingsVars == <<object, files, call, saved>>

NoCall == [name |-> "none", file |-> Absent, end |-> "returned"]
Called(name, f, end) == call' = [name |-> name, file |-> f, end |-> end]

\* A new object; nothing initialises m_level.
SettingsInit ==
  /\ m_file = "" /\ m_level \in Level /\ m_modules = {}
  /\ files = [f \in File |-> Unreadable] /\ saved = [f \in File |-> Unknown]
  /\ call = NoCall

New ==
  /\ m_file' = "" /\ m_level' \in Level /\ m_modules' = {}
  /\ call' = NoCall
  /\ UNCHANGED <<files, saved>>

-----------------------------------------------------------------------------
\* tree.get("debug.level", 0)
LevelOf(tree) == IF tree.level = Absent THEN 0 ELSE tree.level

HasFilename(f) == files[f] # Unreadable /\ files[f].filename # Absent

\* read_xml() throws, or get() does.
LoadThrows(f) ==
  /\ ~HasFilename(f)
  /\ Called("load", f, "threw")
  /\ UNCHANGED object

\* get_child() throws when two of the three fields are assigned.
LoadBreaksOff(f) ==
  /\ HasFilename(f) /\ files[f].modules = Absent
  /\ m_file' = files[f].filename /\ m_level' = LevelOf(files[f])
  /\ Called("load", f, "threw")
  /\ UNCHANGED m_modules

\* The modules are inserted into those the object has.
LoadReturns(f) ==
  /\ HasFilename(f) /\ files[f].modules # Absent
  /\ m_file' = files[f].filename /\ m_level' = LevelOf(files[f])
  /\ m_modules' = m_modules \cup files[f].modules
  /\ Called("load", f, "returned")

\* void load(filename)
Load(f) ==
  /\ LoadThrows(f) \/ LoadBreaksOff(f) \/ LoadReturns(f)
  /\ UNCHANGED <<files, saved>>

\* Faulty: the level is not written.
TreeWithoutLevel ==
  [filename |-> m_file, level |-> Absent,
   modules  |-> IF m_modules = {} THEN Absent ELSE m_modules]

\* put, put, and one add for each module: none makes no node.
TreeOf ==
  [filename |-> m_file, level |-> m_level,
   modules  |-> IF m_modules = {} THEN Absent ELSE m_modules]

\* void save(filename): the file cannot be opened, or breaks off, or is written.
Save(f) ==
  /\ \/ Called("save", f, "threw") /\ UNCHANGED <<files, saved>>
     \/ /\ Called("save", f, "threw")
        /\ files' = [files EXCEPT ![f] = Unreadable]
        /\ saved' = [saved EXCEPT ![f] = Unknown]
     \/ /\ Called("save", f, "returned")
        /\ files' = [files EXCEPT ![f] = TreeOf]
        /\ saved' = [saved EXCEPT ![f] =
                       [filename |-> m_file, level |-> m_level, modules |-> m_modules]]
  /\ UNCHANGED object

\* Somebody writes a file by hand.
Edit(f, tree) ==
  /\ files' = [files EXCEPT ![f] = tree]
  /\ saved' = [saved EXCEPT ![f] = Unknown]
  /\ call' = NoCall
  /\ UNCHANGED object

SettingsNext ==
  \/ New
  \/ \E f \in File : Load(f) \/ Save(f) \/ \E tree \in HandWritten : Edit(f, tree)

SettingsSpec == SettingsInit /\ [][SettingsNext]_settingsVars

-----------------------------------------------------------------------------
\* What one object has saved another loads as it was, whatever the other held
\* before, except that modules accumulate; but settings without a module do not
\* come back: save() writes a file that load() breaks off at, and only after it
\* has taken over the other two fields.
RoundTrip ==
  [][ \A f \in File :
        call'.name = "load" /\ call'.file = f /\ saved[f] # Unknown =>
          /\ m_file' = saved[f].filename /\ m_level' = saved[f].level
          /\ m_modules' = m_modules \cup saved[f].modules
          /\ call'.end = "threw" <=> saved[f].modules = {} ]_settingsVars
=============================================================================
