---------------------------- MODULE LoadSimulation ----------------------------
(***************************************************************************)
(* The tab that replays a simulation: its view (views/load_simulation_tab),*)
(* its presenter (presenters/load_simulation), and the tasks that parse    *)
(* the files of a folder on the thread pool.  An answer is posted to the   *)
(* GUI thread when its task is done, in any order, and names no folder.    *)
(***************************************************************************)
EXTENDS Integers, FiniteSets

CONSTANTS Folders,
          Contents,    \* what each folder has of each kind of file
          NoFolder,    \* an empty path, a null pointer, a value not set
          MaxChoices   \* bound on the folders a user chooses

FileKinds == {"settings", "system", "diagnostics"}

\* A file is good, missing, or cannot be read (corrupt).  Settings may lack a
\* method (partial) or hold a number out of range (huge).  A system file may be
\* damaged after its first snapshot, by a line cut short (torn) or a time that
\* is no number (garbled), or in its first snapshot outside the time (botched);
\* it may have a header and no rows (empty), or columns of something else that
\* has times (foreign).
States == {"missing", "good", "corrupt", "partial", "huge",
           "torn", "garbled", "botched", "empty", "foreign"}

\* The states of a file that each of its parsers gets a value from: the initial
\* system is read up to the second time, the count needs all lines whole and
\* their times, the duration only a column of times, and skips lines cut short.
ReadableStates ==
  [settings    |-> {"good", "partial"},
   system      |-> {"good", "torn", "garbled"},
   count       |-> {"good", "botched", "empty"},
   duration    |-> {"good", "torn", "botched", "foreign"},
   diagnostics |-> {"good"}]

KindOf(what) == IF what \in {"count", "duration"} THEN "system" ELSE what

ASSUME LoadAssumption ==
  /\ Contents \in [Folders -> [FileKinds -> States]]
  /\ NoFolder \notin Folders
  /\ MaxChoices \in Nat

VARIABLES
  folder,        \* the folder the tab names
  found,         \* settings_file_path_, system_file_path_, diagnostics_file_path_
  icon,          \* the status icons
  openEnabled, runEnabled,  \* btnOpenSettings, btnRun
  shownMethods,  \* the folder whose methods are shown
  loadPreview,   \* the folder whose system is shown
  systemData,    \* system_data_: which folder its file, count and duration are of
  series,        \* diagnostics_data_
  player,        \* simulation_player_ with what it was given
  loadTimer,     \* preview_timer_
  parsing,       \* tasks whose answers are not handled
  choices,       \* folders chosen so far
  loadCrashed,   \* an exception has left a task or a slot
  hurried        \* history: a folder was chosen while tasks were under way

tabVars  == <<folder, found, icon, openEnabled, runEnabled, shownMethods, loadPreview>>
dataVars == <<systemData, series>>
loadVars == <<tabVars, dataVars, player, loadTimer, parsing, choices, loadCrashed, hurried>>

NoPlayer == [file |-> "none"]

LoadInit ==
  /\ folder = NoFolder /\ found = [k \in FileKinds |-> NoFolder]
  /\ icon = [k \in FileKinds |-> "notFound"]
  /\ openEnabled = FALSE /\ runEnabled = FALSE
  /\ shownMethods = NoFolder /\ loadPreview = NoFolder
  /\ systemData = [file |-> NoFolder, count |-> NoFolder, duration |-> NoFolder]
  /\ series = NoFolder
  /\ player = NoPlayer /\ loadTimer = FALSE
  /\ parsing = {} /\ choices = 0 /\ loadCrashed = FALSE /\ hurried = FALSE

Tasks(kinds, chosen) == [what : kinds, folder : {chosen}, id : {choices}]

\* checkFiles of the presenter: one task for a settings or diagnostics file,
\* three for a system file.
TasksFor(files, chosen) ==
  Tasks(files \cup IF "system" \in files THEN {"count", "duration"} ELSE {}, chosen)

\* Faulty variant: the icons of the folder before stay.
ChooseKeepingIcons(chosen) ==
  LET present == {k \in FileKinds : Contents[chosen][k] # "missing"}
  IN  /\ ~loadCrashed /\ choices < MaxChoices
      /\ folder' = chosen
      /\ found' = [k \in FileKinds |-> IF k \in present THEN chosen ELSE NoFolder]
      /\ icon' = [k \in FileKinds |-> IF k \in present THEN "loading" ELSE icon[k]]
      /\ openEnabled' = FALSE /\ UNCHANGED runEnabled
      /\ shownMethods' = NoFolder /\ loadPreview' = NoFolder
      /\ systemData' = IF "system" \in present THEN [systemData EXCEPT !.file = chosen] ELSE systemData
      /\ parsing' = parsing \cup TasksFor(present, chosen)
      /\ choices' = choices + 1
      /\ hurried' = (hurried \/ parsing # {})
      /\ UNCHANGED <<series, player, loadTimer, loadCrashed>>

\* openFolderDialog: the tab is reset, its three files are looked for, and
\* those that exist are checked.  What the presenter has is not reset.
ChooseFolder(chosen) ==
  LET present == {k \in FileKinds : Contents[chosen][k] # "missing"}
  IN  /\ ~loadCrashed /\ choices < MaxChoices
      /\ folder' = chosen
      /\ found' = [k \in FileKinds |-> IF k \in present THEN chosen ELSE NoFolder]
      /\ icon' = [k \in FileKinds |-> IF k \in present THEN "loading" ELSE "notFound"]
      /\ openEnabled' = FALSE /\ runEnabled' = FALSE
      /\ shownMethods' = NoFolder /\ loadPreview' = NoFolder
      /\ systemData' = IF "system" \in present THEN [systemData EXCEPT !.file = chosen] ELSE systemData
      /\ parsing' = parsing \cup TasksFor(present, chosen)
      /\ choices' = choices + 1
      /\ hurried' = (hurried \/ parsing # {})
      /\ UNCHANGED <<series, player, loadTimer, loadCrashed>>
-----------------------------------------------------------------------------
(* Answers.                                                                *)

Answered(task, what) ==
  /\ ~loadCrashed /\ task \in parsing /\ task.what = what
  /\ parsing' = parsing \ {task}
  /\ UNCHANGED <<player, loadTimer, choices, hurried>>

CanRead(what, of) == Contents[of][KindOf(what)] \in ReadableStates[what]

\* Settings that lack a method: get() throws after the button is enabled.
SettingsParsed(task) ==
  /\ Answered(task, "settings")
  /\ Contents[task.folder]["settings"] # "huge"
  /\ IF ~CanRead("settings", task.folder)
     THEN /\ icon' = [icon EXCEPT !["settings"] = "corrupted"]
          /\ openEnabled' = FALSE
          /\ found' = [found EXCEPT !["settings"] = NoFolder]
          /\ UNCHANGED <<shownMethods, loadCrashed>>
     ELSE /\ icon' = [icon EXCEPT !["settings"] = "checked"]
          /\ openEnabled' = TRUE
          /\ IF Contents[task.folder]["settings"] = "partial"
             THEN loadCrashed' = TRUE /\ UNCHANGED shownMethods
             ELSE shownMethods' = task.folder /\ UNCHANGED loadCrashed
          /\ UNCHANGED found
  /\ UNCHANGED <<folder, runEnabled, loadPreview, dataVars>>

\* parseSettings catches parse_error and no other exception of the JSON library:
\* the task ends the program.
SettingsThrow(task) ==
  /\ Answered(task, "settings")
  /\ Contents[task.folder]["settings"] = "huge"
  /\ loadCrashed' = TRUE
  /\ UNCHANGED <<tabVars, dataVars>>

InitialSystemParsed(task) ==
  /\ Answered(task, "system")
  /\ IF CanRead("system", task.folder)
     THEN /\ icon' = [icon EXCEPT !["system"] = "checked"]
          /\ loadPreview' = task.folder /\ runEnabled' = TRUE
     ELSE /\ icon' = [icon EXCEPT !["system"] = "corrupted"]
          /\ UNCHANGED <<loadPreview, runEnabled>>
  /\ UNCHANGED <<folder, found, openEnabled, shownMethods, dataVars, loadCrashed>>

\* Faulty variant: a count that is known stays.
CountedOnce(task) ==
  /\ Answered(task, "count")
  /\ systemData' = IF CanRead("count", task.folder) /\ systemData.count = NoFolder
                   THEN [systemData EXCEPT !.count = task.folder] ELSE systemData
  /\ UNCHANGED <<tabVars, series, loadCrashed>>

SnapshotsCounted(task) ==
  /\ Answered(task, "count")
  /\ systemData' = IF CanRead("count", task.folder)
                   THEN [systemData EXCEPT !.count = task.folder] ELSE systemData
  /\ UNCHANGED <<tabVars, series, loadCrashed>>

DurationRetrieved(task) ==
  /\ Answered(task, "duration")
  /\ systemData' = IF CanRead("duration", task.folder)
                   THEN [systemData EXCEPT !.duration = task.folder] ELSE systemData
  /\ UNCHANGED <<tabVars, series, loadCrashed>>

DiagnosticsSeriesParsed(task) ==
  /\ Answered(task, "diagnostics")
  /\ IF CanRead("diagnostics", task.folder)
     THEN /\ icon' = [icon EXCEPT !["diagnostics"] = "checked"]
          /\ runEnabled' = TRUE /\ series' = task.folder
     ELSE /\ icon' = [icon EXCEPT !["diagnostics"] = "corrupted"]
          /\ UNCHANGED <<runEnabled, series>>
  /\ UNCHANGED <<folder, found, openEnabled, shownMethods, loadPreview, systemData, loadCrashed>>

HandleParsed ==
  \E task \in parsing :
    \/ SettingsParsed(task) \/ SettingsThrow(task)
    \/ InitialSystemParsed(task) \/ DiagnosticsSeriesParsed(task)
    \/ SnapshotsCounted(task) \/ DurationRetrieved(task)
-----------------------------------------------------------------------------
(* Playback.                                                               *)

Refused == (systemData.file = NoFolder /\ series # NoFolder) \/ player # NoPlayer

\* playSimulation, when it does not return early; folder and tasks under way
\* are noted beside what the player is given.
PlaySimulation ==
  /\ ~loadCrashed /\ runEnabled /\ ~Refused
  /\ loadTimer' = FALSE
  /\ player' = [file |-> systemData.file, count |-> systemData.count,
                duration |-> systemData.duration, series |-> series,
                folder |-> folder, found |-> found, early |-> parsing # {}]
  /\ UNCHANGED <<tabVars, dataVars, parsing, choices, loadCrashed, hurried>>

\* windowClosed.
EndSimulationPlayback ==
  /\ ~loadCrashed /\ player # NoPlayer
  /\ player' = NoPlayer /\ loadTimer' = TRUE
  /\ UNCHANGED <<tabVars, dataVars, parsing, choices, loadCrashed, hurried>>

SetLoadTimer(active) ==
  /\ ~loadCrashed
  /\ loadTimer' = active
  /\ UNCHANGED <<tabVars, dataVars, player, parsing, choices, loadCrashed, hurried>>

LoadUserStep == (\E chosen \in Folders : ChooseFolder(chosen)) \/ PlaySimulation
LoadNext == LoadUserStep \/ HandleParsed \/ EndSimulationPlayback
-----------------------------------------------------------------------------
\* As long as the user waits for the answers, what the tab says is true of the
\* folder it names: a file is checked only if what the tab shows of it can be
\* read, a run is offered only if there is something to run, and the preview is
\* the folder's.
TabTellsTheTruth ==
  ~hurried =>
    /\ \A k \in FileKinds : icon[k] = "checked" => CanRead(k, folder)
    /\ runEnabled <=> \E k \in {"system", "diagnostics"} : icon[k] = "checked"
    /\ {loadPreview, shownMethods} \subseteq {folder, NoFolder}

\* The playback of a folder shows that folder's files when the answers have
\* been waited for, whatever folders were open before: its system file if it
\* has one, and of its files whatever can be read.  What cannot be read, of a
\* file that is damaged or not there, stays what an earlier folder left, for a
\* file damaged after its first snapshot the count, perhaps the duration too.
PlaysFilesFound ==
  player # NoPlayer /\ ~hurried /\ ~player.early =>
    /\ player.found["system"] # NoFolder =>
         /\ player.file = player.folder
         /\ CanRead("count", player.folder) => player.count = player.folder
         /\ CanRead("duration", player.folder) => player.duration = player.folder
    /\ player.found["diagnostics"] # NoFolder /\ CanRead("diagnostics", player.folder) =>
         player.series = player.folder

\* "Starts the simulation playback with the loaded data"
\* (i_load_simulation_presenter.h:28-30): of the folder that was loaded, for a
\* user who waits for it.
PlaysLoadedFolder ==
  player # NoPlayer /\ ~hurried /\ ~player.early =>
    {player.file, player.count, player.duration, player.series} \subseteq {player.folder, NoFolder}
=============================================================================
