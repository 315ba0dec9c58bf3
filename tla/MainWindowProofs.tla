--------------------------- MODULE MainWindowProofs ---------------------------
(***************************************************************************)
(* Proofs about the tabs for every set of folders, files, methods and      *)
(* number of user actions.  A step of the window is, for each of the two   *)
(* tabs, a step of its own, a switch of its timer, or nothing; what is     *)
(* true of a tab is proved against these three.                            *)
(***************************************************************************)
EXTENDS FormHistory, TLAPS

NewTabMoves ==
  \/ NewSimulationNext
  \/ \E active \in BOOLEAN : SetPreviewTimer(active)
  \/ UNCHANGED newSimulationVars

LoadTabMoves ==
  \/ LoadNext
  \/ \E active \in BOOLEAN : SetLoadTimer(active)
  \/ UNCHANGED loadVars

LEMMA WindowStepOfTabs ==
  ASSUME [WindowNext]_windowVars
  PROVE  NewTabMoves /\ LoadTabMoves
<1>1. CASE \E to \in Tabs : SwitchTab(to)
  BY <1>1 DEF SwitchTab, NewTabMoves, LoadTabMoves
<1>2. CASE NewTabStep
  BY <1>2 DEF NewTabStep, NewTabMoves, LoadTabMoves, NewSimulationNext
<1>3. CASE LoadTabStep
  BY <1>3 DEF LoadTabStep, NewTabMoves, LoadTabMoves, LoadNext
<1>4. CASE ClosePlayback
  BY <1>4 DEF ClosePlayback, NewTabMoves, LoadTabMoves, LoadNext
<1>5. CASE UNCHANGED windowVars
  BY <1>5 DEF windowVars, NewTabMoves, LoadTabMoves
<1>6. QED
  BY <1>1, <1>2, <1>3, <1>4, <1>5 DEF WindowNext

-----------------------------------------------------------------------------
(* The page of the new tab and its runner.                                 *)

\* What the user does to the form, and what files are answered, leave the run
\* alone; a step of the form adds tasks and takes none away.
LEMMA FormStepsLeaveRun ==
  /\ EditForm => UNCHANGED <<runVars, crashed>>
  /\ \A json : OpenSettingsDialog(json) => UNCHANGED <<runVars, crashed>>
  /\ HandleAnswer => UNCHANGED runVars
<1>1. EditForm => UNCHANGED <<runVars, crashed>>
  BY DEF EditForm, EditNumber, ChangeMethod, EditPath, CancelFileDialog, ResetSettings
<1>2. \A json : OpenSettingsDialog(json) => UNCHANGED <<runVars, crashed>>
  BY DEF OpenSettingsDialog
<1>3. HandleAnswer => UNCHANGED runVars
  BY DEF HandleAnswer, AnswerSettings, AnswerSystem
<1>4. QED
  BY <1>1, <1>2, <1>3

LEMMA PageShowsRunnerStep ==
  ASSUME PageShowsRunner, NewTabMoves
  PROVE  PageShowsRunner'
<1> USE DEF PageShowsRunner
<1>1. CASE UNCHANGED <<page, runner, progressTimer>>
  BY <1>1
<1>2. CASE EditForm \/ HandleAnswer \/ \E json \in disk \cup Foreign : OpenSettingsDialog(json)
  BY <1>1, <1>2, FormStepsLeaveRun DEF runVars
<1>3. CASE StartSimulation
  BY <1>3 DEF StartSimulation
<1>4. CASE AbortSimulation
  BY <1>4 DEF AbortSimulation
<1>5. CASE GenerationCompletes
  BY <1>5 DEF GenerationCompletes, RunnerStep
<1>6. CASE InitializationCompletes
  BY <1>6 DEF InitializationCompletes, RunnerStep
<1>7. CASE \E active \in BOOLEAN : SetPreviewTimer(active)
  BY <1>1, <1>7 DEF SetPreviewTimer
<1>8. CASE UNCHANGED newSimulationVars
  BY <1>1, <1>8 DEF newSimulationVars, runVars
<1>9. QED
  BY <1>2, <1>3, <1>4, <1>5, <1>6, <1>7, <1>8
     DEF NewTabMoves, NewSimulationNext, UserStep, RunnerProgress

\* The page, its buttons and the progress timer agree with the runner, wherever
\* between generation and the end of a run the user aborts, whatever is edited,
\* answered or shown meanwhile.
THEOREM WindowPageShowsRunner == WindowSpec => []PageShowsRunner
<1>1. WindowInit => PageShowsRunner
  BY DEF WindowInit, NewSimulationInit, PageShowsRunner
<1>2. PageShowsRunner /\ [WindowNext]_windowVars => PageShowsRunner'
  BY WindowStepOfTabs, PageShowsRunnerStep
<1>3. QED
  BY <1>1, <1>2, PTL DEF WindowSpec

-----------------------------------------------------------------------------
(* The path of the new tab and the tasks that check files.                 *)

\* A path that is set, and not that of a good file, is one whose check is
\* under way.
LEMMA PathIsCheckedStep ==
  ASSUME PathIsChecked, NewTabMoves
  PROVE  PathIsChecked'
<1>1. CASE path' = path /\ tasks \subseteq tasks'
  BY <1>1 DEF PathIsChecked
<1>2. ASSUME NEW file, ChoosePath(file)
      PROVE  PathIsChecked'
  <2> DEFINE task == [id |-> asked, kind |-> "system", file |-> file, json |-> NoJson]
  <2>1. path' = file /\ task \in tasks'
    BY <1>2 DEF ChoosePath, Ask
  <2>2. task.kind = "system" /\ task.file = file
    OBVIOUS
  <2>3. QED
    BY <2>1, <2>2 DEF PathIsChecked
<1>3. CASE EditForm
  BY <1>1, <1>2, <1>3
     DEF EditForm, EditNumber, ChangeMethod, EditPath, CancelFileDialog, ResetSettings, taskVars
<1>4. CASE \E json \in disk \cup Foreign : OpenSettingsDialog(json)
  BY <1>1, <1>4 DEF OpenSettingsDialog, Ask, formVars
<1>5. CASE StartSimulation \/ AbortSimulation
  BY <1>1, <1>5 DEF StartSimulation, AbortSimulation, formVars, taskVars
<1>6. CASE RunnerProgress
  BY <1>1, <1>6
     DEF RunnerProgress, GenerationCompletes, InitializationCompletes, RunnerStep, formVars, taskVars
<1>7. ASSUME NEW task \in tasks, AnswerSettings(task)
      PROVE  PathIsChecked'
  BY <1>7 DEF AnswerSettings, Take, PathIsChecked
<1>8. ASSUME NEW task \in tasks, AnswerSystem(task)
      PROVE  PathIsChecked'
  <2>1. CASE task.file \in GoodFiles
    BY <1>8, <2>1 DEF AnswerSystem, Take, PathIsChecked
  <2>2. CASE task.file \notin GoodFiles
    BY <1>8, <2>2 DEF AnswerSystem, PathIsChecked
  <2>3. QED
    BY <2>1, <2>2
<1>9. CASE \E active \in BOOLEAN : SetPreviewTimer(active)
  BY <1>1, <1>9 DEF SetPreviewTimer, formVars, taskVars
<1>10. CASE UNCHANGED newSimulationVars
  BY <1>1, <1>10 DEF newSimulationVars, formVars, taskVars
<1>11. QED
  BY <1>3, <1>4, <1>5, <1>6, <1>7, <1>8, <1>9, <1>10
     DEF NewTabMoves, NewSimulationNext, UserStep, HandleAnswer

\* The tab does not keep a path that holds no system: its check is under way,
\* however many paths were chosen and in whatever order the answers come.
THEOREM WindowPathIsChecked == WindowSpec => []PathIsChecked
<1>1. WindowInit => PathIsChecked
  BY DEF WindowInit, NewSimulationInit, PathIsChecked
<1>2. PathIsChecked /\ [WindowNext]_windowVars => PathIsChecked'
  BY WindowStepOfTabs, PathIsCheckedStep
<1>3. QED
  BY <1>1, <1>2, PTL DEF WindowSpec

-----------------------------------------------------------------------------
(* The timers of the previews.                                             *)

LEMMA PlayerIsOne ==
  ASSUME PlaySimulation
  PROVE  player' # NoPlayer /\ loadTimer' = FALSE
  BY DEF PlaySimulation, NoPlayer

LEMMA TimersFollowTabStep ==
  ASSUME TimersFollowTab, [WindowNext]_windowVars
  PROVE  TimersFollowTab'
<1> USE DEF TimersFollowTab
<1>1. CASE UNCHANGED <<previewTimer, runner, loadTimer, player, tab, closedElsewhere>>
  BY <1>1
<1>2. ASSUME NEW to \in Tabs, SwitchTab(to)
      PROVE  TimersFollowTab'
  BY <1>2 DEF SwitchTab, SetPreviewTimer, SetLoadTimer
<1>3. CASE NewTabStep
  <2>1. UNCHANGED <<loadTimer, player, tab, closedElsewhere>>
    BY <1>3 DEF NewTabStep, loadVars
  <2>2. CASE EditForm \/ HandleAnswer \/ \E json \in disk \cup Foreign : OpenSettingsDialog(json)
    BY <1>1, <2>1, <2>2, FormStepsLeaveRun DEF runVars
  <2>3. CASE StartSimulation
    BY <2>1, <2>3 DEF StartSimulation
  <2>4. CASE tab = "new" /\ AbortSimulation
    BY <2>1, <2>4 DEF AbortSimulation
  <2>5. CASE RunnerProgress
    BY <2>1, <2>5 DEF RunnerProgress, GenerationCompletes, InitializationCompletes, RunnerStep
  <2>6. QED
    BY <1>3, <2>2, <2>3, <2>4, <2>5 DEF NewTabStep, UserStep
<1>4. CASE LoadTabStep
  <2>1. UNCHANGED <<previewTimer, runner, tab, closedElsewhere>>
    BY <1>4 DEF LoadTabStep, newSimulationVars, runVars
  <2>2. CASE PlaySimulation
    BY <2>1, <2>2, PlayerIsOne
  <2>3. ASSUME NEW chosen \in Folders, ChooseFolder(chosen)
        PROVE  TimersFollowTab'
    BY <1>1, <2>1, <2>3 DEF ChooseFolder
  <2>4. CASE HandleParsed
    <3>1. PICK task \in parsing : \E what : Answered(task, what)
      BY <2>4 DEF HandleParsed, SettingsParsed, SettingsThrow, InitialSystemParsed,
                  DiagnosticsSeriesParsed, SnapshotsCounted, DurationRetrieved
    <3>2. UNCHANGED <<loadTimer, player>>
      BY <3>1 DEF Answered
    <3>3. QED
      BY <1>1, <2>1, <3>2
  <2>5. QED
    BY <1>4, <2>2, <2>3, <2>4 DEF LoadTabStep, LoadUserStep
<1>5. CASE ClosePlayback
  <2>1. UNCHANGED <<previewTimer, runner, tab>>
    BY <1>5 DEF ClosePlayback, newSimulationVars, runVars
  <2>2. QED
    BY <1>5, <2>1 DEF ClosePlayback, EndSimulationPlayback
<1>6. CASE UNCHANGED windowVars
  BY <1>1, <1>6 DEF windowVars, newSimulationVars, runVars, loadVars
<1>7. QED
  BY <1>2, <1>3, <1>4, <1>5, <1>6 DEF WindowNext

\* The previews of the tabs run where they are shown and nowhere else, through
\* any order of tab switches, starts, aborts and playbacks; only a playback
\* closed from another tab restarts the preview of a tab that is not shown.
THEOREM WindowTimersFollowTab == WindowSpec => []TimersFollowTab
<1>1. WindowInit => TimersFollowTab
  BY DEF WindowInit, NewSimulationInit, LoadInit, TimersFollowTab
<1>2. TimersFollowTab /\ [WindowNext]_windowVars => TimersFollowTab'
  BY TimersFollowTabStep
<1>3. QED
  BY <1>1, <1>2, PTL DEF WindowSpec

-----------------------------------------------------------------------------
(* What the tab that loads shows and plays, as long as the answers about a *)
(* folder are waited for before the next one is chosen.                    *)

Icons == {"notFound", "loading", "checked", "corrupted"}

LoadTypeOK ==
  /\ folder \in Folders \cup {NoFolder}
  /\ found \in [FileKinds -> Folders \cup {NoFolder}]
  /\ icon \in [FileKinds -> Icons]
  /\ runEnabled \in BOOLEAN /\ hurried \in BOOLEAN
  /\ systemData \in [file : Folders \cup {NoFolder}, count : Folders \cup {NoFolder},
                     duration : Folders \cup {NoFolder}]
  /\ \A task \in parsing :
       /\ task.what \in FileKinds \cup {"count", "duration"}
       /\ task.folder \in Folders
       /\ Contents[task.folder][KindOf(task.what)] # "missing"

\* The tasks under way are of the folder shown, one of each kind, and the icon
\* of a file whose task is under way still turns.
TasksOfFolder ==
  ~hurried =>
    /\ \A task \in parsing :
         /\ task.folder = folder
         /\ task.what \in FileKinds => icon[task.what] = "loading"
    /\ \A task, other \in parsing : task.what = other.what => task = other

Awaited(what) == \E task \in parsing : task.what = what

\* What can be read of the folder shown has been read, or its task is under way.
DataOfFolder ==
  ~hurried =>
    /\ found["system"] # NoFolder => systemData.file = folder
    /\ found["system"] # NoFolder /\ CanRead("count", folder) =>
         systemData.count = folder \/ Awaited("count")
    /\ found["system"] # NoFolder /\ CanRead("duration", folder) =>
         systemData.duration = folder \/ Awaited("duration")
    /\ found["diagnostics"] # NoFolder /\ CanRead("diagnostics", folder) =>
         series = folder \/ Awaited("diagnostics")

LoadInv == LoadTypeOK /\ TasksOfFolder /\ TabTellsTheTruth /\ DataOfFolder /\ PlaysFilesFound

LEMMA LoadInvInit ==
  ASSUME LoadInit
  PROVE  LoadInv
<1> USE DEF LoadInit
<1>1. LoadTypeOK
  BY DEF LoadTypeOK, Icons
<1>2. TasksOfFolder /\ DataOfFolder
  BY DEF TasksOfFolder, DataOfFolder, FileKinds
<1>3. TabTellsTheTruth /\ PlaysFilesFound
  BY DEF TabTellsTheTruth, PlaysFilesFound, FileKinds
<1>4. QED
  BY <1>1, <1>2, <1>3 DEF LoadInv

\* The tasks a folder is given: of the files it has, one of each kind.
TasksCover(new, files, chosen) ==
  /\ \A task \in new :
       /\ task.what \in FileKinds \cup {"count", "duration"}
       /\ task.folder = chosen
       /\ Contents[chosen][KindOf(task.what)] # "missing"
       /\ task.what \in FileKinds => task.what \in files
  /\ \A task, other \in new : task.what = other.what => task = other
  /\ "system" \in files =>
       (\E task \in new : task.what = "count") /\ (\E task \in new : task.what = "duration")
  /\ \A k \in files : \E task \in new : task.what = k

LEMMA TasksForFiles ==
  ASSUME NEW chosen \in Folders, NEW files \in SUBSET FileKinds,
         \A k \in files : Contents[chosen][k] # "missing"
  PROVE  TasksCover(TasksFor(files, chosen), files, chosen)
<1> DEFINE kinds == files \cup IF "system" \in files THEN {"count", "duration"} ELSE {}
           new == TasksFor(files, chosen)
           Of(kind) == [what |-> kind, folder |-> chosen, id |-> choices]
<1>1. new = [what : kinds, folder : {chosen}, id : {choices}]
  BY DEF TasksFor, Tasks
<1>2. \A kind \in kinds : Of(kind) \in new /\ Of(kind).what = kind
  BY <1>1
<1>3. \A task \in new : task.what \in kinds /\ task.folder = chosen /\ task = Of(task.what)
  BY <1>1
<1>4. \A kind \in kinds : /\ kind \in FileKinds \cup {"count", "duration"}
                          /\ kind \in FileKinds => kind \in files
                          /\ kind \in {"count", "duration"} => "system" \in files
  BY DEF FileKinds
<1>5. \A task \in new : Contents[chosen][KindOf(task.what)] # "missing"
  BY <1>3, <1>4 DEF KindOf
<1>6. \A task, other \in new : task.what = other.what => task = other
  BY <1>3
<1>7. "system" \in files => "count" \in kinds /\ "duration" \in kinds
  OBVIOUS
<1> HIDE DEF kinds, new, Of
<1>8. QED
  BY <1>2, <1>3, <1>4, <1>5, <1>6, <1>7 DEF new, kinds, TasksCover

LEMMA ChooseFolderKeeps ==
  ASSUME LoadInv, NEW chosen \in Folders, ChooseFolder(chosen)
  PROVE  LoadInv'
<1> DEFINE present == {k \in FileKinds : Contents[chosen][k] # "missing"}
           new == TasksFor(present, chosen)
<1> USE DEF LoadInv
<1>1. /\ folder' = chosen
      /\ found' = [k \in FileKinds |-> IF k \in present THEN chosen ELSE NoFolder]
      /\ icon' = [k \in FileKinds |-> IF k \in present THEN "loading" ELSE "notFound"]
      /\ runEnabled' = FALSE
      /\ shownMethods' = NoFolder /\ loadPreview' = NoFolder
      /\ systemData' = IF "system" \in present THEN [systemData EXCEPT !.file = chosen] ELSE systemData
      /\ parsing' = parsing \cup new
      /\ hurried' = (hurried \/ parsing # {})
      /\ UNCHANGED <<series, player>>
  BY DEF ChooseFolder
<1>2. TasksCover(new, present, chosen)
  BY TasksForFiles
<1>3. present \subseteq FileKinds
  OBVIOUS
<1> HIDE DEF present, new
<1>4. LoadTypeOK'
  <2>1. /\ folder' \in Folders \cup {NoFolder}
        /\ found' \in [FileKinds -> Folders \cup {NoFolder}]
        /\ icon' \in [FileKinds -> Icons]
        /\ runEnabled' \in BOOLEAN /\ hurried' \in BOOLEAN
    BY <1>1 DEF LoadTypeOK, Icons
  <2>2. systemData' \in [file : Folders \cup {NoFolder}, count : Folders \cup {NoFolder},
                         duration : Folders \cup {NoFolder}]
    BY <1>1 DEF LoadTypeOK
  <2>3. \A task \in parsing' :
          /\ task.what \in FileKinds \cup {"count", "duration"}
          /\ task.folder \in Folders
          /\ Contents[task.folder][KindOf(task.what)] # "missing"
    BY <1>1, <1>2 DEF LoadTypeOK, TasksCover
  <2>4. QED
    BY <2>1, <2>2, <2>3 DEF LoadTypeOK, KindOf
<1>5. hurried' \/ (parsing' = new /\ ~hurried)
  BY <1>1
<1>6. TasksOfFolder'
  BY <1>1, <1>2, <1>5 DEF TasksOfFolder, TasksCover
<1>7. TabTellsTheTruth'
  BY <1>1, <1>3 DEF TabTellsTheTruth, FileKinds
<1>8. DataOfFolder'
  <2>1. found'["system"] # NoFolder => "system" \in present
    BY <1>1 DEF FileKinds
  <2>2. found'["diagnostics"] # NoFolder => "diagnostics" \in present
    BY <1>1 DEF FileKinds
  <2>3. "system" \in present => systemData'.file = chosen
    BY <1>1 DEF LoadTypeOK
  <2>4. QED
    BY <1>1, <1>2, <1>5, <2>1, <2>2, <2>3 DEF DataOfFolder, Awaited, TasksCover
<1>9. PlaysFilesFound'
  BY <1>1 DEF PlaysFilesFound
<1>10. QED
  BY <1>4, <1>6, <1>7, <1>8, <1>9

\* Handling an answer takes its task away and turns no other icon.
Answers(task) ==
  /\ parsing' = parsing \ {task}
  /\ folder' = folder /\ hurried' = hurried /\ player' = player
  /\ \A k \in FileKinds : k # task.what => icon'[k] = icon[k]

LEMMA AnswerLeavesTasks ==
  ASSUME LoadInv, NEW task \in parsing, Answers(task)
  PROVE  /\ TasksOfFolder' /\ PlaysFilesFound'
         /\ ~hurried' => task.folder = folder
         /\ ~hurried' /\ task.what \in FileKinds => icon[task.what] = "loading"
         /\ \A what : what # task.what => (Awaited(what) => Awaited(what)')
<1>1. TasksOfFolder'
  BY DEF LoadInv, TasksOfFolder, Answers
<1>2. PlaysFilesFound'
  BY DEF LoadInv, PlaysFilesFound, Answers
<1>3. \A what : what # task.what => (Awaited(what) => Awaited(what)')
  BY DEF Awaited, Answers
<1>4. QED
  BY <1>1, <1>2, <1>3 DEF LoadInv, TasksOfFolder, Answers

LEMMA AnswerKeepsType ==
  ASSUME LoadTypeOK, NEW task \in parsing, Answers(task),
         found' = found \/ \E k \in FileKinds : found' = [found EXCEPT ![k] = NoFolder],
         icon' = icon \/ \E k \in FileKinds : \E i \in Icons : icon' = [icon EXCEPT ![k] = i],
         runEnabled' \in BOOLEAN,
         \/ systemData' = systemData
         \/ systemData' = [systemData EXCEPT !.count = task.folder]
         \/ systemData' = [systemData EXCEPT !.duration = task.folder]
  PROVE  LoadTypeOK'
<1> USE DEF LoadTypeOK
<1>1. found' \in [FileKinds -> Folders \cup {NoFolder}]
  OBVIOUS
<1>2. icon' \in [FileKinds -> Icons]
  OBVIOUS
<1>3. systemData' \in [file : Folders \cup {NoFolder}, count : Folders \cup {NoFolder},
                       duration : Folders \cup {NoFolder}]
  OBVIOUS
<1>4. folder' = folder /\ hurried' = hurried /\ parsing' \subseteq parsing
  BY DEF Answers
<1>5. QED
  BY <1>1, <1>2, <1>3, <1>4 DEF KindOf

LEMMA SettingsAnswerKeeps ==
  ASSUME LoadInv, NEW task \in parsing, SettingsParsed(task)
  PROVE  LoadInv'
<1> USE DEF LoadInv
<1>1. /\ UNCHANGED <<folder, runEnabled, loadPreview, systemData, series, player, hurried>>
      /\ task.what = "settings" /\ parsing' = parsing \ {task}
  BY DEF SettingsParsed, Answered, dataVars
<1>2. \/ /\ icon' = [icon EXCEPT !["settings"] = "corrupted"]
         /\ found' = [found EXCEPT !["settings"] = NoFolder]
         /\ shownMethods' = shownMethods
      \/ /\ CanRead("settings", task.folder)
         /\ icon' = [icon EXCEPT !["settings"] = "checked"]
         /\ found' = found
         /\ shownMethods' \in {shownMethods, task.folder}
  BY DEF SettingsParsed
<1>3. Answers(task)
  BY <1>1, <1>2 DEF Answers, LoadTypeOK
<1>4. LoadTypeOK'
  <2>1. found' = found \/ \E k \in FileKinds : found' = [found EXCEPT ![k] = NoFolder]
    BY <1>2 DEF FileKinds
  <2>2. icon' = icon \/ \E k \in FileKinds : \E i \in Icons : icon' = [icon EXCEPT ![k] = i]
    BY <1>2 DEF FileKinds, Icons
  <2>3. QED
    BY <1>1, <1>3, <2>1, <2>2, AnswerKeepsType DEF LoadTypeOK
<1>5. TabTellsTheTruth'
  <2>1. ~hurried' => task.folder = folder
    BY <1>3, AnswerLeavesTasks
  <2>2. icon'["system"] = icon["system"] /\ icon'["diagnostics"] = icon["diagnostics"]
    BY <1>2 DEF LoadTypeOK, FileKinds
  <2>3. ~hurried' /\ icon'["settings"] = "checked" => CanRead("settings", folder')
    BY <1>1, <1>2, <2>1 DEF LoadTypeOK, FileKinds
  <2>4. QED
    BY <1>1, <1>2, <2>1, <2>2, <2>3 DEF TabTellsTheTruth, FileKinds
<1>6. DataOfFolder'
  <2>1. found'["system"] = found["system"] /\ found'["diagnostics"] = found["diagnostics"]
    BY <1>2 DEF LoadTypeOK, FileKinds
  <2>2. \A what \in {"count", "duration", "diagnostics"} : Awaited(what) => Awaited(what)'
    BY <1>1, <1>3, AnswerLeavesTasks
  <2>3. QED
    BY <1>1, <2>1, <2>2 DEF DataOfFolder
<1>7. QED
  BY <1>3, <1>4, <1>5, <1>6, AnswerLeavesTasks

\* A task that throws takes nothing but itself away.
LEMMA SettingsThrowKeeps ==
  ASSUME LoadInv, NEW task \in parsing, SettingsThrow(task)
  PROVE  LoadInv'
<1>1. /\ UNCHANGED <<folder, found, icon, runEnabled, shownMethods, loadPreview, systemData, series,
                     player, hurried>>
      /\ task.what = "settings" /\ parsing' = parsing \ {task}
  BY DEF SettingsThrow, Answered, tabVars, dataVars
<1>2. Answers(task)
  BY <1>1 DEF Answers
<1>3. \A what \in {"count", "duration", "diagnostics"} : Awaited(what) => Awaited(what)'
  BY <1>1, <1>2, AnswerLeavesTasks
<1>4. LoadTypeOK'
  BY <1>1 DEF LoadInv, LoadTypeOK
<1>5. TabTellsTheTruth' /\ DataOfFolder'
  BY <1>1, <1>3 DEF LoadInv, TabTellsTheTruth, DataOfFolder
<1>6. QED
  BY <1>2, <1>4, <1>5, AnswerLeavesTasks DEF LoadInv

LEMMA SystemAnswerKeeps ==
  ASSUME LoadInv, NEW task \in parsing, InitialSystemParsed(task)
  PROVE  LoadInv'
<1> USE DEF LoadInv
<1>1. /\ UNCHANGED <<folder, found, shownMethods, systemData, series, player, hurried>>
      /\ task.what = "system" /\ parsing' = parsing \ {task}
  BY DEF InitialSystemParsed, Answered, dataVars
<1>2. \/ /\ CanRead("system", task.folder)
         /\ icon' = [icon EXCEPT !["system"] = "checked"]
         /\ loadPreview' = task.folder /\ runEnabled' = TRUE
      \/ /\ icon' = [icon EXCEPT !["system"] = "corrupted"]
         /\ UNCHANGED <<loadPreview, runEnabled>>
  BY DEF InitialSystemParsed
<1>3. Answers(task)
  BY <1>1, <1>2 DEF Answers, LoadTypeOK
<1>4. LoadTypeOK'
  <2>1. icon' = icon \/ \E k \in FileKinds : \E i \in Icons : icon' = [icon EXCEPT ![k] = i]
    BY <1>2 DEF FileKinds, Icons
  <2>2. runEnabled' \in BOOLEAN
    BY <1>2 DEF LoadTypeOK
  <2>3. QED
    BY <1>1, <1>3, <2>1, <2>2, AnswerKeepsType
<1>5. TabTellsTheTruth'
  <2>1. ~hurried' => task.folder = folder /\ icon["system"] = "loading"
    BY <1>1, <1>3, AnswerLeavesTasks DEF FileKinds
  <2>2. icon'["settings"] = icon["settings"] /\ icon'["diagnostics"] = icon["diagnostics"]
    BY <1>2 DEF LoadTypeOK, FileKinds
  <2>3. icon'["system"] = IF CanRead("system", task.folder) THEN "checked" ELSE "corrupted"
    BY DEF InitialSystemParsed, LoadTypeOK, FileKinds
  <2>4. ~hurried' /\ icon'["system"] = "checked" => CanRead("system", folder')
    BY <1>1, <2>1, <2>3
  <2>5. ~hurried' => (runEnabled' <=> \E k \in {"system", "diagnostics"} : icon'[k] = "checked")
    BY <1>1, <1>2, <2>1, <2>2, <2>3, <1>4 DEF TabTellsTheTruth, LoadTypeOK, FileKinds
  <2>6. QED
    BY <1>1, <1>2, <2>1, <2>2, <2>4, <2>5 DEF TabTellsTheTruth, FileKinds
<1>6. DataOfFolder'
  <2>1. \A what \in {"count", "duration", "diagnostics"} : Awaited(what) => Awaited(what)'
    BY <1>1, <1>3, AnswerLeavesTasks
  <2>2. QED
    BY <1>1, <2>1 DEF DataOfFolder
<1>7. QED
  BY <1>3, <1>4, <1>5, <1>6, AnswerLeavesTasks

LEMMA DiagnosticsAnswerKeeps ==
  ASSUME LoadInv, NEW task \in parsing, DiagnosticsSeriesParsed(task)
  PROVE  LoadInv'
<1> USE DEF LoadInv
<1>1. /\ UNCHANGED <<folder, found, shownMethods, loadPreview, systemData, player, hurried>>
      /\ task.what = "diagnostics" /\ parsing' = parsing \ {task}
  BY DEF DiagnosticsSeriesParsed, Answered
<1>2. \/ /\ CanRead("diagnostics", task.folder)
         /\ icon' = [icon EXCEPT !["diagnostics"] = "checked"]
         /\ series' = task.folder /\ runEnabled' = TRUE
      \/ /\ ~CanRead("diagnostics", task.folder)
         /\ icon' = [icon EXCEPT !["diagnostics"] = "corrupted"]
         /\ UNCHANGED <<series, runEnabled>>
  BY DEF DiagnosticsSeriesParsed
<1>3. Answers(task)
  BY <1>1, <1>2 DEF Answers, LoadTypeOK
<1>4. LoadTypeOK'
  <2>1. icon' = icon \/ \E k \in FileKinds : \E i \in Icons : icon' = [icon EXCEPT ![k] = i]
    BY <1>2 DEF FileKinds, Icons
  <2>2. runEnabled' \in BOOLEAN
    BY <1>2 DEF LoadTypeOK
  <2>3. QED
    BY <1>1, <1>3, <2>1, <2>2, AnswerKeepsType
<1>5. TabTellsTheTruth'
  <2>1. ~hurried' => task.folder = folder /\ icon["diagnostics"] = "loading"
    BY <1>1, <1>3, AnswerLeavesTasks DEF FileKinds
  <2>2. icon'["settings"] = icon["settings"] /\ icon'["system"] = icon["system"]
    BY <1>2 DEF LoadTypeOK, FileKinds
  <2>3. icon'["diagnostics"] = IF CanRead("diagnostics", task.folder) THEN "checked" ELSE "corrupted"
    BY DEF DiagnosticsSeriesParsed, LoadTypeOK, FileKinds
  <2>4. ~hurried' /\ icon'["diagnostics"] = "checked" => CanRead("diagnostics", folder')
    BY <1>1, <2>1, <2>3
  <2>5. ~hurried' => (runEnabled' <=> \E k \in {"system", "diagnostics"} : icon'[k] = "checked")
    BY <1>1, <1>2, <2>1, <2>2, <2>3, <1>4 DEF TabTellsTheTruth, LoadTypeOK, FileKinds
  <2>6. QED
    BY <1>1, <1>2, <2>1, <2>2, <2>4, <2>5 DEF TabTellsTheTruth, FileKinds
<1>6. DataOfFolder'
  <2>1. \A what \in {"count", "duration"} : Awaited(what) => Awaited(what)'
    BY <1>1, <1>3, AnswerLeavesTasks
  <2>2. ~hurried' /\ CanRead("diagnostics", folder') => series' = folder'
    BY <1>1, <1>2, <1>3, AnswerLeavesTasks
  <2>3. QED
    BY <1>1, <2>1, <2>2 DEF DataOfFolder
<1>7. QED
  BY <1>3, <1>4, <1>5, <1>6, AnswerLeavesTasks

LEMMA CountAnswerKeeps ==
  ASSUME LoadInv, NEW task \in parsing, SnapshotsCounted(task)
  PROVE  LoadInv'
<1> USE DEF LoadInv
<1>1. /\ UNCHANGED <<folder, found, icon, runEnabled, shownMethods, loadPreview, series, player, hurried>>
      /\ task.what = "count" /\ parsing' = parsing \ {task}
  BY DEF SnapshotsCounted, Answered, tabVars
<1>2. systemData' = IF CanRead("count", task.folder)
                    THEN [systemData EXCEPT !.count = task.folder] ELSE systemData
  BY DEF SnapshotsCounted
<1>3. Answers(task)
  BY <1>1 DEF Answers
<1>4. LoadTypeOK'
  <2>1. runEnabled' \in BOOLEAN
    BY <1>1 DEF LoadTypeOK
  <2>2. QED
    BY <1>1, <1>2, <1>3, <2>1, AnswerKeepsType
<1>5. TabTellsTheTruth'
  BY <1>1 DEF TabTellsTheTruth
<1>6. DataOfFolder'
  <2>1. \A what \in {"duration", "diagnostics"} : Awaited(what) => Awaited(what)'
    BY <1>1, <1>3, AnswerLeavesTasks
  <2>2. systemData'.file = systemData.file /\ systemData'.duration = systemData.duration
    BY <1>2 DEF LoadTypeOK
  <2>3. ~hurried' /\ CanRead("count", folder') => systemData'.count = folder'
    BY <1>1, <1>2, <1>3, AnswerLeavesTasks DEF LoadTypeOK
  <2>4. QED
    BY <1>1, <2>1, <2>2, <2>3 DEF DataOfFolder
<1>7. QED
  BY <1>3, <1>4, <1>5, <1>6, AnswerLeavesTasks

LEMMA DurationAnswerKeeps ==
  ASSUME LoadInv, NEW task \in parsing, DurationRetrieved(task)
  PROVE  LoadInv'
<1> USE DEF LoadInv
<1>1. /\ UNCHANGED <<folder, found, icon, runEnabled, shownMethods, loadPreview, series, player, hurried>>
      /\ task.what = "duration" /\ parsing' = parsing \ {task}
  BY DEF DurationRetrieved, Answered, tabVars
<1>2. systemData' = IF CanRead("duration", task.folder)
                    THEN [systemData EXCEPT !.duration = task.folder] ELSE systemData
  BY DEF DurationRetrieved
<1>3. Answers(task)
  BY <1>1 DEF Answers
<1>4. LoadTypeOK'
  <2>1. runEnabled' \in BOOLEAN
    BY <1>1 DEF LoadTypeOK
  <2>2. QED
    BY <1>1, <1>2, <1>3, <2>1, AnswerKeepsType
<1>5. TabTellsTheTruth'
  BY <1>1 DEF TabTellsTheTruth
<1>6. DataOfFolder'
  <2>1. \A what \in {"count", "diagnostics"} : Awaited(what) => Awaited(what)'
    BY <1>1, <1>3, AnswerLeavesTasks
  <2>2. systemData'.file = systemData.file /\ systemData'.count = systemData.count
    BY <1>2 DEF LoadTypeOK
  <2>3. ~hurried' /\ CanRead("duration", folder') => systemData'.duration = folder'
    BY <1>1, <1>2, <1>3, AnswerLeavesTasks DEF LoadTypeOK
  <2>4. QED
    BY <1>1, <2>1, <2>2, <2>3 DEF DataOfFolder
<1>7. QED
  BY <1>3, <1>4, <1>5, <1>6, AnswerLeavesTasks

\* What is played once the answers are there is what the folder has.
LEMMA PlayKeeps ==
  ASSUME LoadInv, PlaySimulation
  PROVE  LoadInv'
<1> USE DEF LoadInv
<1>1. UNCHANGED <<folder, found, icon, runEnabled, shownMethods, loadPreview, systemData, series,
                  parsing, hurried>>
  BY DEF PlaySimulation, tabVars, dataVars
<1>2. /\ player'.file = systemData.file /\ player'.count = systemData.count
      /\ player'.duration = systemData.duration /\ player'.series = series
      /\ player'.folder = folder /\ player'.found = found
      /\ player'.early <=> parsing # {}
  BY DEF PlaySimulation
<1>3. LoadTypeOK' /\ TasksOfFolder' /\ TabTellsTheTruth'
  BY <1>1 DEF LoadTypeOK, TasksOfFolder, TabTellsTheTruth, KindOf
<1>4. DataOfFolder'
  BY <1>1 DEF DataOfFolder, Awaited
<1>5. ASSUME ~hurried', ~player'.early
      PROVE  ~hurried /\ parsing = {} /\ \A what : ~Awaited(what)
  BY <1>1, <1>2, <1>5 DEF Awaited
<1>6. ASSUME ~hurried', ~player'.early, player'.found["system"] # NoFolder
      PROVE  /\ player'.file = player'.folder
             /\ CanRead("count", player'.folder) => player'.count = player'.folder
             /\ CanRead("duration", player'.folder) => player'.duration = player'.folder
  BY <1>2, <1>5, <1>6 DEF DataOfFolder
<1>7. ASSUME ~hurried', ~player'.early,
             player'.found["diagnostics"] # NoFolder, CanRead("diagnostics", player'.folder)
      PROVE  player'.series = player'.folder
  BY <1>2, <1>5, <1>7 DEF DataOfFolder
<1>8. PlaysFilesFound'
  BY <1>6, <1>7 DEF PlaysFilesFound
<1>9. QED
  BY <1>3, <1>4, <1>8

LEMMA LoadInvStep ==
  ASSUME LoadInv, LoadTabMoves
  PROVE  LoadInv'
<1>1. ASSUME UNCHANGED <<folder, found, icon, runEnabled, shownMethods, loadPreview, systemData,
                         series, parsing, hurried>>,
             player' \in {player, NoPlayer}
      PROVE  LoadInv'
  <2>1. LoadTypeOK' /\ TasksOfFolder' /\ TabTellsTheTruth'
    BY <1>1 DEF LoadInv, LoadTypeOK, TasksOfFolder, TabTellsTheTruth, KindOf
  <2>2. DataOfFolder'
    BY <1>1 DEF LoadInv, DataOfFolder, Awaited
  <2>3. PlaysFilesFound'
    BY <1>1 DEF LoadInv, PlaysFilesFound
  <2>4. QED
    BY <2>1, <2>2, <2>3 DEF LoadInv
<1>2. CASE EndSimulationPlayback
  BY <1>1, <1>2 DEF EndSimulationPlayback, tabVars, dataVars
<1>3. CASE \E active \in BOOLEAN : SetLoadTimer(active)
  BY <1>1, <1>3 DEF SetLoadTimer, tabVars, dataVars
<1>4. CASE UNCHANGED loadVars
  BY <1>1, <1>4 DEF loadVars, tabVars, dataVars
<1>5. CASE LoadUserStep
  BY <1>5, ChooseFolderKeeps, PlayKeeps DEF LoadUserStep
<1>6. CASE HandleParsed
  BY <1>6, SettingsAnswerKeeps, SettingsThrowKeeps, SystemAnswerKeeps, DiagnosticsAnswerKeeps, CountAnswerKeeps,
     DurationAnswerKeeps DEF HandleParsed
<1>7. QED
  BY <1>2, <1>3, <1>4, <1>5, <1>6 DEF LoadTabMoves, LoadNext

LEMMA WindowLoadInv == WindowSpec => []LoadInv
<1>1. WindowInit => LoadInv
  BY LoadInvInit DEF WindowInit
<1>2. LoadInv /\ [WindowNext]_windowVars => LoadInv'
  BY WindowStepOfTabs, LoadInvStep
<1>3. QED
  BY <1>1, <1>2, PTL DEF WindowSpec

\* As long as the user waits for the answers, what the tab says is true of the
\* folder it names, in whatever order they come and whatever was open before.
THEOREM WindowTabTellsTheTruth == WindowSpec => []TabTellsTheTruth
<1>1. LoadInv => TabTellsTheTruth
  BY DEF LoadInv
<1>2. QED
  BY <1>1, WindowLoadInv, PTL

\* A playback started when the answers have been waited for shows the folder's
\* own files, as far as it has them, and their own number and duration.
THEOREM WindowPlaysFilesFound == WindowSpec => []PlaysFilesFound
<1>1. LoadInv => PlaysFilesFound
  BY DEF LoadInv
<1>2. QED
  BY <1>1, WindowLoadInv, PTL

-----------------------------------------------------------------------------
(* The forms.                                                              *)

EditorTypes == {"Double", "Int", "RandomInt", "FilePath"}

\* What an editor of a schema is: a random seed starts at zero, and an ordinary
\* number is within every range.
IsEditor(editor) ==
  /\ editor.type \in EditorTypes
  /\ editor.min \in Int /\ editor.min <= Ordinary
  /\ editor.type = "RandomInt" => editor.min <= 0

LEMMA SchemaEditors ==
  \A method \in Methods : \A p \in Parameters[method] : IsEditor(Schemas[method][p])
<1> USE DEF IsEditor, EditorTypes, Ordinary, Editor, FromZero, Positive, Count, Seed, Path
<1>1. \A p \in Parameters["NormalSphere"] : IsEditor(Schemas["NormalSphere"][p])
  BY DEF Parameters, Schemas, NormalSphereSchema
<1>2. \A p \in Parameters["UniformCube"] : IsEditor(Schemas["UniformCube"][p])
  BY DEF Parameters, Schemas, UniformCubeSchema
<1>3. \A p \in Parameters["UniformSphere"] : IsEditor(Schemas["UniformSphere"][p])
  BY DEF Parameters, Schemas, UniformSphereSchema
<1>4. \A p \in Parameters["PlummerSphere"] : IsEditor(Schemas["PlummerSphere"][p])
  BY DEF Parameters, Schemas, PlummerSphereSchema
<1>5. \A p \in Parameters["SpiralGalaxy"] : IsEditor(Schemas["SpiralGalaxy"][p])
  BY DEF Parameters, Schemas, SpiralGalaxySchema
<1>6. \A p \in Parameters["CollisionModel"] : IsEditor(Schemas["CollisionModel"][p])
  BY DEF Parameters, Schemas, CollisionModelSchema
<1>7. \A p \in Parameters["File"] : IsEditor(Schemas["File"][p])
  BY DEF Parameters, Schemas, FileSchema
<1>8. \A m \in {"Euler", "Leapfrog", "Hermite"} :
         \A p \in Parameters[m] : IsEditor(Schemas[m][p])
  BY DEF Parameters, Schemas, EulerSchema, LeapfrogSchema, HermiteSchema
<1>9. \A m \in {"Hits", "BarnesHutLeapfrog"} :
         \A p \in Parameters[m] : IsEditor(Schemas[m][p])
  BY DEF Parameters, Schemas, HitsSchema, BarnesHutLeapfrogSchema
<1>10. QED
  BY <1>1, <1>2, <1>3, <1>4, <1>5, <1>6, <1>7, <1>8, <1>9
     DEF Methods, GenerationMethods, SimulationMethods

\* The one parameter whose form is wider than what the library accepts.
Wider(method, p) == method = "NormalSphere" /\ p = "VelocityStdDev"

Meets(editor, demand) ==
  editor.type # "FilePath" /\ TypeOf(editor) = demand.type

LEMMA SchemasMeetDemands ==
  /\ \A method \in DOMAIN Demands : \A p \in DOMAIN Demands[method] :
       /\ p \in Parameters[method]
       /\ Meets(Schemas[method][p], Demands[method][p])
       /\ Demands[method][p].from \in Int
       /\ ~Wider(method, p) => Schemas[method][p].min >= Demands[method][p].from
  /\ DOMAIN Demands = Methods \ {"File"}
<1> USE DEF Meets, Wider, Editor, FromZero, Positive, Count, Seed, Path, TypeOf,
            Demand, AnyInt, PositiveInt, AnyReal, PositiveReal
<1> DEFINE Met(method) ==
      \A p \in DOMAIN Demands[method] :
        /\ p \in Parameters[method]
        /\ Meets(Schemas[method][p], Demands[method][p])
        /\ Demands[method][p].from \in Int
        /\ ~Wider(method, p) => Schemas[method][p].min >= Demands[method][p].from
<1>1. Met("NormalSphere")
  BY DEF Parameters, Schemas, NormalSphereSchema, Demands, NormalSphereSettings
<1>2. Met("UniformCube")
  BY DEF Parameters, Schemas, UniformCubeSchema, Demands, UniformCubeSettings
<1>3. Met("UniformSphere")
  BY DEF Parameters, Schemas, UniformSphereSchema, Demands, UniformSphereSettings
<1>4. Met("PlummerSphere")
  BY DEF Parameters, Schemas, PlummerSphereSchema, Demands, PlummerSphereSettings
<1>5. Met("SpiralGalaxy")
  BY DEF Parameters, Schemas, SpiralGalaxySchema, Demands, SpiralGalaxySettings
<1>6. Met("CollisionModel")
  BY DEF Parameters, Schemas, CollisionModelSchema, Demands, CollisionModelSettings
<1>7. Met("Euler")
  BY DEF Parameters, Schemas, EulerSchema, Demands, EulerSettings
<1>8. Met("Leapfrog")
  BY DEF Parameters, Schemas, LeapfrogSchema, Demands, LeapfrogSettings
<1>9. Met("Hermite")
  BY DEF Parameters, Schemas, HermiteSchema, Demands, HermiteSettings
<1>10. Met("Hits")
  BY DEF Parameters, Schemas, HitsSchema, Demands, HitsSettings
<1>11. Met("BarnesHutLeapfrog")
  BY DEF Parameters, Schemas, BarnesHutLeapfrogSchema, Demands, BarnesHutLeapfrogSettings
<1>12. DOMAIN Demands = {"NormalSphere", "UniformCube", "UniformSphere", "PlummerSphere", "SpiralGalaxy",
                         "CollisionModel", "Euler", "Leapfrog", "Hermite", "Hits", "BarnesHutLeapfrog"}
  BY DEF Demands
<1> HIDE DEF Met
<1>13. \A method \in DOMAIN Demands : Met(method)
  BY <1>1, <1>2, <1>3, <1>4, <1>5, <1>6, <1>7, <1>8, <1>9, <1>10, <1>11, <1>12
<1>14. DOMAIN Demands = Methods \ {"File"}
  BY <1>12 DEF Methods, GenerationMethods, SimulationMethods
<1>15. QED
  BY <1>13, <1>14 DEF Met

\* What an editor shows.  A form shows one value for every parameter of its
\* method, and settings have a number wherever the form shows one.
Shows(editor, value) == editor.type # "FilePath" => value \in Int /\ value >= editor.min

IsForm(form, method) ==
  /\ DOMAIN form = KeysOf(method)
  /\ \A k \in KeysOf(method) : Shows(EditorOf(k), form[k])

HasNumbers(settings, method) ==
  \A k \in KeysOf(method) :
    Has(settings, k) /\ EditorOf(k).type # "FilePath" => Get(settings, k) \in Int

LEMMA KeyEditors ==
  ASSUME NEW method \in Methods, NEW k \in KeysOf(method)
  PROVE  k[1] = method /\ IsEditor(EditorOf(k))
  BY SchemaEditors DEF KeysOf, EditorOf

LEMMA NewFormIsForm ==
  ASSUME NEW method \in Methods, NEW form \in NewForms(method)
  PROVE  IsForm(form, method)
<1> DEFINE Shown(key, seed) == CASE EditorOf(key).type = "RandomInt" -> seed
                                 [] EditorOf(key).type = "FilePath"  -> ""
                                 [] OTHER -> Ordinary
<1>1. PICK seed \in Seeds : form = [k \in KeysOf(method) |-> Shown(k, seed)]
  BY DEF NewForms
<1>2. seed \in Int /\ seed >= 0
  BY SchemaAssumption DEF Numbers
<1>3. ASSUME NEW k \in KeysOf(method)
      PROVE  Shows(EditorOf(k), Shown(k, seed))
  <2>1. IsEditor(EditorOf(k))
    BY KeyEditors
  <2>2. CASE EditorOf(k).type = "RandomInt"
    BY <1>2, <2>1, <2>2 DEF Shows, IsEditor
  <2>3. CASE EditorOf(k).type = "FilePath"
    BY <2>3 DEF Shows
  <2>4. CASE EditorOf(k).type \notin {"RandomInt", "FilePath"}
    BY <2>1, <2>4 DEF Shows, IsEditor, Ordinary
  <2>5. QED
    BY <2>2, <2>3, <2>4
<1> HIDE DEF Shown
<1>4. QED
  BY <1>1, <1>3 DEF IsForm

\* What a form is asked for, and what it makes of settings it is given.
LEMMA FormHasNumbers ==
  ASSUME NEW method \in Methods, NEW form, IsForm(form, method)
  PROVE  HasNumbers(GetSettings(form), method)
  BY DEF IsForm, HasNumbers, GetSettings, Object, Variant, Has, Get, Shows

LEMMA SetSettingsIsForm ==
  ASSUME NEW method \in Methods, NEW form, NEW settings,
         IsForm(form, method), HasNumbers(settings, method)
  PROVE  IsForm(SetSettings(form, settings), method)
<1> DEFINE new == SetSettings(form, settings)
<1>1. DOMAIN new = KeysOf(method)
  BY DEF SetSettings, IsForm
<1>2. ASSUME NEW k \in KeysOf(method)
      PROVE  Shows(EditorOf(k), new[k])
  <2>1. IsEditor(EditorOf(k)) /\ Shows(EditorOf(k), form[k])
    BY KeyEditors DEF IsForm
  <2>2. new[k] = IF Has(settings, k) THEN Clamp(EditorOf(k), Get(settings, k)) ELSE form[k]
    BY DEF SetSettings, IsForm
  <2>3. Has(settings, k) /\ EditorOf(k).type # "FilePath" => Get(settings, k) \in Int
    BY DEF HasNumbers
  <2> HIDE DEF new
  <2>4. QED
    BY <2>1, <2>2, <2>3 DEF Shows, Clamp, IsEditor
<1> HIDE DEF new
<1>3. QED
  BY <1>1, <1>2 DEF IsForm, new

\* One side of the tab: the form is that of the method chosen, which is also
\* the one left last, and what is stored for a method fits its form.
IsPanel(p, side) ==
  /\ p = [method |-> p.method, previous |-> p.previous, form |-> p.form, stored |-> p.stored]
  /\ p.method \in MethodsOf(side) /\ p.previous = p.method
  /\ IsForm(p.form, p.method)
  /\ \A m \in DOMAIN p.stored : HasNumbers(p.stored[m], m)

LEMMA StoredHasNumbers ==
  ASSUME NEW p, NEW side \in Sides, IsPanel(p, side)
  PROVE  HasNumbers(Stored(p), p.method)
<1>1. HasNumbers(Empty, p.method)
  BY DEF HasNumbers, Empty, Object, Has
<1>2. QED
  BY <1>1 DEF Stored, IsPanel

LEMMA MethodsOfSides ==
  \A side \in Sides : MethodsOf(side) \subseteq Methods
  BY DEF Sides, MethodsOf, MethodsNamedBy, Methods

LEMMA NewPanelIsPanel ==
  ASSUME NEW side \in Sides, NEW method \in MethodsOf(side), NEW form \in NewForms(method)
  PROVE  IsPanel(NewPanel(method, form), side)
<1>1. IsForm(form, method) /\ HasNumbers(GetSettings(form), method)
  BY NewFormIsForm, FormHasNumbers, MethodsOfSides
<1>2. QED
  BY <1>1 DEF IsPanel, NewPanel

LEMMA PutHasNumbers ==
  ASSUME NEW stored, NEW method, NEW settings, HasNumbers(settings, method),
         \A m \in DOMAIN stored : HasNumbers(stored[m], m)
  PROVE  \A m \in DOMAIN Put(stored, method, settings) : HasNumbers(Put(stored, method, settings)[m], m)
  BY DEF Put

LEMMA ResetIsPanel ==
  ASSUME NEW p, NEW side \in Sides, IsPanel(p, side)
  PROVE  /\ IsPanel(Reset(p), side)
         /\ Reset(p).method = p.method
         /\ Reset(p).form = SetSettings(p.form, Stored(p))
<1>1. p = [method |-> p.method, previous |-> p.previous, form |-> p.form, stored |-> p.stored]
  BY DEF IsPanel
<1>2. Reset(p) = [method |-> p.method, previous |-> p.previous,
                  form |-> SetSettings(p.form, Stored(p)), stored |-> p.stored]
  BY <1>1 DEF Reset
<1>3. IsForm(SetSettings(p.form, Stored(p)), p.method)
  BY SetSettingsIsForm, StoredHasNumbers, MethodsOfSides DEF IsPanel
<1>4. QED
  BY <1>2, <1>3 DEF IsPanel

\* A switch stores what the form holds under the method left, and shows what is
\* stored for the one chosen.
LEMMA SwitchedIsPanel ==
  ASSUME NEW p, NEW side \in Sides, IsPanel(p, side),
         NEW method \in MethodsOf(side), NEW fresh \in NewForms(method)
  PROVE  /\ IsPanel(Switched(p, method, fresh), side)
         /\ Switched(p, method, fresh).method = method
         /\ Switched(p, method, fresh).stored = Put(p.stored, p.previous, GetSettings(p.form))
<1> DEFINE stored == Put(p.stored, p.previous, GetSettings(p.form))
           shown  == IF method \in DOMAIN stored THEN stored[method] ELSE Empty
           left   == [p EXCEPT !.method = method, !.previous = method, !.stored = stored]
           q      == Switched(p, method, fresh)
<1>1. p = [method |-> p.method, previous |-> p.previous, form |-> p.form, stored |-> p.stored]
  BY DEF IsPanel
<1>2. q = [method |-> method, previous |-> method, form |-> SetSettings(fresh, shown), stored |-> stored]
  <2>1. q = [left EXCEPT !.form = SetSettings(fresh, Stored(left))]
    BY DEF Switched
  <2> HIDE DEF stored, q
  <2>2. left = [method |-> method, previous |-> method, form |-> p.form, stored |-> stored]
    <3>1. PICK q1 : q1 = [p EXCEPT !.method = method]
      OBVIOUS
    <3>2. PICK q2 : q2 = [q1 EXCEPT !.previous = method]
      OBVIOUS
    <3>3. left = [q2 EXCEPT !.stored = stored]
      BY <3>1, <3>2 DEF left
    <3> HIDE DEF left
    <3>4. q1 = [method |-> method, previous |-> p.previous, form |-> p.form, stored |-> p.stored]
      BY <1>1, <3>1
    <3>5. q2 = [method |-> method, previous |-> method, form |-> p.form, stored |-> p.stored]
      BY <3>2, <3>4
    <3>6. QED
      BY <3>3, <3>5
  <2>3. Stored(left) = shown
    BY <2>2 DEF Stored
  <2> HIDE DEF left, shown
  <2>4. QED
    BY <2>1, <2>2, <2>3
<1>3. HasNumbers(GetSettings(p.form), p.previous)
  BY FormHasNumbers, MethodsOfSides DEF IsPanel
<1>4. \A m \in DOMAIN stored : HasNumbers(stored[m], m)
  BY <1>3, PutHasNumbers DEF IsPanel
<1>5. HasNumbers(Empty, method)
  BY DEF HasNumbers, Empty, Object, Has
<1>6. HasNumbers(shown, method)
  BY <1>4, <1>5
<1> HIDE DEF stored, shown, q
<1>7. IsForm(SetSettings(fresh, shown), method)
  BY <1>6, NewFormIsForm, SetSettingsIsForm, MethodsOfSides
<1>8. IsPanel(q, side) /\ q.method = method /\ q.stored = stored
  BY <1>2, <1>4, <1>7 DEF IsPanel
<1>9. QED
  BY <1>8 DEF q, stored

\* A side that has loaded a file has it stored for the method it names.
LEMMA LoadedIsPanel ==
  ASSUME NEW p, NEW side \in Sides, IsPanel(p, side),
         NEW method \in MethodsOf(side), NEW fresh \in NewForms(method),
         NEW settings, HasNumbers(settings, method)
  PROVE  /\ IsPanel(Loaded(p, method, settings, fresh), side)
         /\ Loaded(p, method, settings, fresh).method = method
         /\ Stored(Loaded(p, method, settings, fresh)) = settings
<1> DEFINE kept == Put(p.stored, method, settings)
           q == [p EXCEPT !.stored = kept]
           loaded == Loaded(p, method, settings, fresh)
<1>1. p = [method |-> p.method, previous |-> p.previous, form |-> p.form, stored |-> p.stored]
  BY DEF IsPanel
<1>2. q = [method |-> p.method, previous |-> p.previous, form |-> p.form, stored |-> kept]
  BY <1>1
<1>3. \A m \in DOMAIN kept : HasNumbers(kept[m], m)
  BY PutHasNumbers DEF IsPanel
<1>4. method \in DOMAIN kept /\ kept[method] = settings
  BY DEF Put
<1>5. loaded = IF method = p.method THEN q ELSE Switched(q, method, fresh)
  BY DEF Loaded
<1> HIDE DEF kept, q, loaded
<1>6. IsPanel(q, side)
  BY <1>2, <1>3 DEF IsPanel
<1>7. CASE method = p.method
  BY <1>2, <1>4, <1>5, <1>6, <1>7 DEF loaded, Stored
<1>8. CASE method # p.method
  <2>1. /\ IsPanel(loaded, side) /\ loaded.method = method
        /\ loaded.stored = Put(kept, q.previous, GetSettings(q.form))
    BY <1>2, <1>5, <1>6, <1>8, SwitchedIsPanel
  <2>2. q.previous # method
    BY <1>2, <1>8 DEF IsPanel
  <2>3. method \in DOMAIN loaded.stored /\ loaded.stored[method] = settings
    BY <1>4, <2>1, <2>2 DEF Put
  <2>4. QED
    BY <2>1, <2>3 DEF loaded, Stored
<1>9. QED
  BY <1>7, <1>8

-----------------------------------------------------------------------------
(* Settings and their files.                                               *)

IsJson(json) ==
  \A k \in DOMAIN json : json[k].json \in {"integer", "float"} => json[k].value \in Int

\* Settings as the program makes them itself: every key has a name, a method
\* is one of the side it is for, anything else has the type its editor reads.
IsValue(k, v) ==
  /\ v = Variant(v.type, v.value)
  /\ IF k \in MethodKeys THEN v.type = k[2] /\ v.value \in MethodsNamedBy(k)
     ELSE /\ v.type \in {"int", "double", "bool", "string"}
          /\ v.type \in {"int", "double"} => v.value \in Int

IsSaved(settings) ==
  /\ settings # Nothing
  /\ settings = Object([k \in DOMAIN settings.values |-> settings.values[k]])
  /\ MethodKeys \subseteq DOMAIN settings.values
  /\ DOMAIN settings.values \subseteq SettingKeys
  /\ \A k \in DOMAIN settings.values :
       /\ IsValue(k, settings.values[k])
       /\ k \notin GeneralKeys => settings.values[k].type = TypeOf(EditorOf(k))

FormInv ==
  /\ DOMAIN panel = Sides /\ \A side \in Sides : IsPanel(panel[side], side)
  /\ started = Empty \/ IsSaved(started)
  /\ \A json \in disk : IsSaved(CreateFromJson(json)) /\ IsJson(json)
  /\ \A task \in tasks : task.kind = "settings" => IsJson(task.json)

LEMMA MethodKeysApart ==
  /\ GenerationMethods \cap SimulationMethods = {}
  /\ \A method \in Methods : KeysOf(method) \cap GeneralKeys = {}
  /\ \A method, other \in Methods : method # other => KeysOf(method) \cap KeysOf(other) = {}
  /\ MethodKeys \subseteq GeneralKeys
<1>1. GenerationMethods \cap SimulationMethods = {}
  BY DEF GenerationMethods, SimulationMethods
<1>2. \A method \in Methods : method # "General"
  BY DEF Methods, GenerationMethods, SimulationMethods
<1>3. \A k \in GeneralKeys : k[1] = "General"
  BY DEF GeneralKeys, MethodKeys, RealKeys, FlagKeys, GenerationMethod, SimulationMethod, General
<1>4. \A method \in Methods : \A k \in KeysOf(method) : k[1] = method
  BY DEF KeysOf
<1>5. QED
  BY <1>1, <1>2, <1>3, <1>4 DEF GeneralKeys

\* What is read from a file is a number where the form reads one.
LEMMA CreatedHasNumbers ==
  ASSUME NEW json, IsJson(json), NEW method \in Methods,
         CreateFromJson(json) # Nothing, Readable(method, CreateFromJson(json))
  PROVE  HasNumbers(CreateFromJson(json), method)
<1> DEFINE settings == CreateFromJson(json)
<1>1. settings = Object([k \in DOMAIN json |-> FromJson(k, json[k])])
  BY DEF CreateFromJson
<1>2. \A k \in DOMAIN json : FromJson(k, json[k]) # Nothing
  BY DEF CreateFromJson
<1> HIDE DEF settings
<1>3. ASSUME NEW k \in KeysOf(method), Has(settings, k), EditorOf(k).type # "FilePath"
      PROVE  Get(settings, k) \in Int
  <2>1. k \in DOMAIN json /\ settings.values[k] = FromJson(k, json[k])
    BY <1>1, <1>3 DEF Has, Object
  <2>2. settings.values[k].type = TypeOf(EditorOf(k))
    BY <1>3 DEF Readable, Gets, IsA, settings
  <2>3. settings.values[k].type \in {"int", "double"}
    BY <1>3, <2>2 DEF TypeOf
  <2>4. k \notin MethodKeys
    BY MethodKeysApart
  <2>5. \/ json[k].json = "integer" /\ FromJson(k, json[k]) = Variant("int", json[k].value)
        \/ json[k].json = "float" /\ FromJson(k, json[k]) = Variant("double", json[k].value)
        \/ FromJson(k, json[k]) = Variant("bool", json[k].value)
        \/ FromJson(k, json[k]) = Variant("string", json[k].value)
        \/ FromJson(k, json[k]) = Nothing
    BY <2>4 DEF FromJson
  <2>6. json[k].json \in {"integer", "float"} /\ settings.values[k].value = json[k].value
    BY <1>2, <2>1, <2>3, <2>5 DEF Variant
  <2>7. QED
    BY <2>1, <2>6 DEF IsJson, Get
<1>4. QED
  BY <1>3 DEF HasNumbers, settings

LEMMA ValueComesBack ==
  ASSUME NEW k, NEW v, IsValue(k, v)
  PROVE  /\ FromJson(k, [json |-> Json(v.type), value |-> v.value]) = v
         /\ v # Nothing
<1>1. v = [type |-> v.type, value |-> v.value]
  BY DEF IsValue, Variant
<1>2. v # Nothing
  BY <1>1 DEF Nothing
<1>3. CASE k \in MethodKeys
  <2>1. Json(v.type) = "string"
    BY <1>3 DEF IsValue, MethodKeys, GenerationMethod, SimulationMethod, General, Json
  <2>2. v.type = k[2] /\ v.value \in MethodsNamedBy(k)
    BY <1>3 DEF IsValue
  <2>3. FromJson(k, [json |-> Json(v.type), value |-> v.value]) = Variant(k[2], v.value)
    BY <1>3, <2>1, <2>2 DEF FromJson
  <2>4. Variant(k[2], v.value) = v
    BY <2>2 DEF IsValue
  <2>5. QED
    BY <1>2, <2>3, <2>4
<1>4. CASE k \notin MethodKeys
  <2>1. FromJson(k, [json |-> Json(v.type), value |-> v.value]) = Variant(v.type, v.value)
    BY <1>4 DEF IsValue, FromJson, Json
  <2>2. QED
    BY <1>2, <2>1 DEF IsValue
<1>5. QED
  BY <1>2, <1>3, <1>4

\* Settings of the program's own come back from their file, and can be loaded.
LEMMA SavedComesBack ==
  ASSUME NEW settings, IsSaved(settings)
  PROVE  /\ CreateFromJson(ToJson(settings)) = settings
         /\ IsJson(ToJson(settings))
<1> DEFINE values == settings.values
           json   == ToJson(settings)
           back   == [k \in DOMAIN json |-> FromJson(k, json[k])]
<1>1. settings = Object([k \in DOMAIN values |-> values[k]])
  BY DEF IsSaved
<1>2. /\ settings.keys = DOMAIN values
      /\ \A k \in DOMAIN values : IsValue(k, values[k])
      /\ DOMAIN values \subseteq SettingKeys
  <2>1. settings.keys = DOMAIN values
    BY <1>1 DEF Object
  <2>2. QED
    BY <2>1 DEF IsSaved
<1>3. json = [k \in DOMAIN values |-> [json |-> Json(values[k].type), value |-> values[k].value]]
  BY <1>2 DEF ToJson
<1>4. \A k \in DOMAIN values : FromJson(k, json[k]) = values[k] /\ values[k] # Nothing
  BY <1>2, <1>3, ValueComesBack
<1>5. CreateFromJson(json) = IF DOMAIN json \subseteq SettingKeys /\ \A k \in DOMAIN json : back[k] # Nothing
                             THEN Object(back) ELSE Nothing
  BY DEF CreateFromJson
<1> HIDE DEF json
<1>6. back = [k \in DOMAIN values |-> values[k]]
  BY <1>3, <1>4
<1>7. CreateFromJson(json) = Object(back)
  BY <1>2, <1>3, <1>4, <1>5
<1>8. ASSUME NEW k \in DOMAIN json, json[k].json \in {"integer", "float"}
      PROVE  json[k].value \in Int
  <2>1. /\ k \in DOMAIN values /\ IsValue(k, values[k])
        /\ json[k].json = Json(values[k].type) /\ json[k].value = values[k].value
    BY <1>2, <1>3
  <2>2. values[k].type \in {"int", "double"}
    BY <1>8, <2>1 DEF Json
  <2>3. k \notin MethodKeys
    BY <2>1, <2>2 DEF IsValue, MethodKeys, GenerationMethod, SimulationMethod, General
  <2>4. QED
    BY <2>1, <2>2, <2>3 DEF IsValue
<1>9. QED
  BY <1>1, <1>6, <1>7, <1>8 DEF IsJson, json

LEMMA SavedIsLoadable ==
  ASSUME NEW settings, IsSaved(settings)
  PROVE  Loadable(settings)
<1>1. ASSUME NEW side \in Sides
      PROVE  /\ Gets(settings, MethodKey(side), MethodKey(side)[2])
             /\ Get(settings, MethodKey(side)) \in MethodsOf(side)
  BY DEF Sides, MethodKey, MethodKeys, MethodsOf, IsSaved, IsValue, Gets, Has, IsA, Get
<1>2. ASSUME NEW method \in Methods
      PROVE  Readable(method, settings)
  <2>1. ASSUME NEW k \in KeysOf(method), Has(settings, k)
        PROVE  Gets(settings, k, TypeOf(EditorOf(k)))
    <3>1. k \notin GeneralKeys
      BY MethodKeysApart
    <3>2. QED
      BY <2>1, <3>1 DEF IsSaved, Gets, Has, IsA
  <2>2. QED
    BY <2>1 DEF Readable
<1>3. QED
  BY <1>1, <1>2, MethodsOfSides DEF Loadable

-----------------------------------------------------------------------------
(* What the tab fetches from its forms.                                    *)

Fetchable == DOMAIN panel = Sides /\ \A side \in Sides : IsPanel(panel[side], side)

\* The keys of the settings fetched, and where each value comes from.
LEMMA FetchedValues ==
  ASSUME Fetchable, NEW save \in BOOLEAN
  PROVE  LET settings == FetchSettings(save)
             gen == panel["generation"]
             sim == panel["simulation"]
         IN  /\ settings # Nothing
             /\ settings = Object([k \in DOMAIN settings.values |-> settings.values[k]])
             /\ DOMAIN settings.values = GeneralKeys \cup KeysOf(gen.method) \cup KeysOf(sim.method)
             /\ \A k \in KeysOf(gen.method) :
                  settings.values[k] = Variant(TypeOf(EditorOf(k)), gen.form[k])
             /\ \A k \in KeysOf(sim.method) :
                  settings.values[k] = Variant(TypeOf(EditorOf(k)), sim.form[k])
             /\ \A k \in GeneralKeys : settings.values[k] = GeneralSettings(save).values[k]
<1> DEFINE gen == panel["generation"]
           sim == panel["simulation"]
           G == GeneralSettings(save)
           A == GetSettings(gen.form)
           B == GetSettings(sim.form)
           M == Merge(G, A)
           settings == Merge(M, B)
<1>1. /\ gen.method \in GenerationMethods /\ DOMAIN gen.form = KeysOf(gen.method)
      /\ sim.method \in SimulationMethods /\ DOMAIN sim.form = KeysOf(sim.method)
  BY DEF Fetchable, IsPanel, IsForm, Sides, MethodsOf, MethodsNamedBy, MethodKey, GenerationMethod,
         SimulationMethod, General
<1>2. /\ KeysOf(gen.method) \cap GeneralKeys = {} /\ KeysOf(sim.method) \cap GeneralKeys = {}
      /\ KeysOf(gen.method) \cap KeysOf(sim.method) = {}
  BY <1>1, MethodKeysApart DEF Methods
<1>3. G.keys = GeneralKeys /\ DOMAIN G.values = GeneralKeys
  BY DEF GeneralSettings, Object
<1>4. /\ A.keys = KeysOf(gen.method) /\ DOMAIN A.values = KeysOf(gen.method)
      /\ \A k \in KeysOf(gen.method) : A.values[k] = Variant(TypeOf(EditorOf(k)), gen.form[k])
  BY <1>1 DEF GetSettings, Object
<1>5. /\ B.keys = KeysOf(sim.method) /\ DOMAIN B.values = KeysOf(sim.method)
      /\ \A k \in KeysOf(sim.method) : B.values[k] = Variant(TypeOf(EditorOf(k)), sim.form[k])
  BY <1>1 DEF GetSettings, Object
<1>6. settings = FetchSettings(save)
  BY DEF FetchSettings
<1> HIDE DEF gen, sim, G, A, B
<1>7. /\ M.keys = GeneralKeys \cup KeysOf(gen.method)
      /\ M.values = [k \in GeneralKeys \cup KeysOf(gen.method) |->
                       IF k \in KeysOf(gen.method) THEN A.values[k] ELSE G.values[k]]
  BY <1>3, <1>4 DEF Merge, Override
<1> HIDE DEF M
<1>8. /\ settings.keys = GeneralKeys \cup KeysOf(gen.method) \cup KeysOf(sim.method)
      /\ settings.values = [k \in GeneralKeys \cup KeysOf(gen.method) \cup KeysOf(sim.method) |->
                              IF k \in KeysOf(sim.method) THEN B.values[k] ELSE M.values[k]]
      /\ settings = [keys |-> settings.keys, values |-> settings.values]
  BY <1>5, <1>7 DEF Merge, Override
<1> HIDE DEF settings
<1>9. settings = Object([k \in DOMAIN settings.values |-> settings.values[k]]) /\ settings # Nothing
  BY <1>8 DEF Object, Nothing
<1>10. QED
  BY <1>2, <1>4, <1>5, <1>6, <1>7, <1>8, <1>9 DEF gen, sim, G

\* What a form shows is saved as a value of its editor's type.
LEMMA FormValues ==
  ASSUME NEW method \in Methods, NEW form, IsForm(form, method), NEW k \in KeysOf(method)
  PROVE  /\ IsValue(k, Variant(TypeOf(EditorOf(k)), form[k]))
         /\ k \in SettingKeys /\ k \notin GeneralKeys
<1>1. k \notin GeneralKeys /\ k \notin MethodKeys /\ k \in SettingKeys
  BY MethodKeysApart DEF SettingKeys
<1>2. TypeOf(EditorOf(k)) \in {"double", "string", "int"}
  BY DEF TypeOf
<1>3. TypeOf(EditorOf(k)) # "string" => form[k] \in Int
  BY DEF TypeOf, IsForm, Shows
<1>4. QED
  BY <1>1, <1>2, <1>3 DEF IsValue, Variant

LEMMA GeneralValues ==
  ASSUME Fetchable, NEW save \in BOOLEAN, NEW k \in GeneralKeys
  PROVE  IsValue(k, GeneralSettings(save).values[k])
<1> DEFINE v == GeneralSettings(save).values[k]
<1>1. /\ panel["generation"].method \in GenerationMethods
      /\ panel["simulation"].method \in SimulationMethods
  BY DEF Fetchable, IsPanel, Sides, MethodsOf, MethodsNamedBy, MethodKey, GenerationMethod,
         SimulationMethod, General
<1>2. GenerationMethod # SimulationMethod /\ \A key \in RealKeys \cup FlagKeys : key \notin MethodKeys
  BY DEF GenerationMethod, SimulationMethod, General, RealKeys, FlagKeys, MethodKeys
<1>3. RealKeys \cap FlagKeys = {}
  BY DEF RealKeys, FlagKeys, General
<1>4. CASE k = GenerationMethod
  <2>1. v = Variant(k[2], panel["generation"].method)
    BY <1>2, <1>4 DEF GeneralSettings, Object, MethodKeys
  <2>2. QED
    BY <1>1, <1>4, <2>1 DEF IsValue, Variant, MethodKeys, MethodsNamedBy
<1>5. CASE k = SimulationMethod
  <2>1. v = Variant(k[2], panel["simulation"].method)
    BY <1>2, <1>5 DEF GeneralSettings, Object, MethodKeys
  <2>2. QED
    BY <1>1, <1>2, <1>5, <2>1 DEF IsValue, Variant, MethodKeys, MethodsNamedBy
<1>6. CASE k \in RealKeys
  <2>1. v = Variant("double", Ordinary)
    BY <1>2, <1>3, <1>6 DEF GeneralSettings, Object, MethodKeys
  <2>2. QED
    BY <1>2, <1>6, <2>1 DEF IsValue, Variant, Ordinary
<1>7. CASE k \in FlagKeys
  <2>1. v = Variant("bool", save)
    BY <1>2, <1>3, <1>7 DEF GeneralSettings, Object, MethodKeys
  <2>2. QED
    BY <1>2, <1>7, <2>1 DEF IsValue, Variant
<1>8. QED
  BY <1>4, <1>5, <1>6, <1>7 DEF GeneralKeys, MethodKeys

LEMMA FetchedIsSaved ==
  ASSUME Fetchable, NEW save \in BOOLEAN
  PROVE  IsSaved(FetchSettings(save))
<1> DEFINE gen == panel["generation"]
           sim == panel["simulation"]
           settings == FetchSettings(save)
<1>1. /\ gen.method \in Methods /\ IsForm(gen.form, gen.method)
      /\ sim.method \in Methods /\ IsForm(sim.form, sim.method)
  BY MethodsOfSides DEF Fetchable, IsPanel, Sides
<1>2. /\ settings # Nothing
      /\ settings = Object([k \in DOMAIN settings.values |-> settings.values[k]])
      /\ DOMAIN settings.values = GeneralKeys \cup KeysOf(gen.method) \cup KeysOf(sim.method)
      /\ \A k \in KeysOf(gen.method) : settings.values[k] = Variant(TypeOf(EditorOf(k)), gen.form[k])
      /\ \A k \in KeysOf(sim.method) : settings.values[k] = Variant(TypeOf(EditorOf(k)), sim.form[k])
      /\ \A k \in GeneralKeys : settings.values[k] = GeneralSettings(save).values[k]
  BY FetchedValues
<1> HIDE DEF settings, gen, sim
<1>3. \A k \in GeneralKeys : IsValue(k, settings.values[k]) /\ k \in SettingKeys
  BY <1>2, GeneralValues DEF SettingKeys
<1>4. \A k \in KeysOf(gen.method) : /\ IsValue(k, settings.values[k]) /\ k \in SettingKeys
                                    /\ settings.values[k].type = TypeOf(EditorOf(k))
  <2> SUFFICES ASSUME NEW k \in KeysOf(gen.method)
               PROVE  /\ IsValue(k, settings.values[k]) /\ k \in SettingKeys
                      /\ settings.values[k].type = TypeOf(EditorOf(k))
    OBVIOUS
  <2>1. settings.values[k] = Variant(TypeOf(EditorOf(k)), gen.form[k])
    BY <1>2
  <2>2. IsValue(k, settings.values[k]) /\ k \in SettingKeys
    BY <1>1, <2>1, FormValues
  <2>3. QED
    BY <2>1, <2>2 DEF Variant
<1>5. \A k \in KeysOf(sim.method) : /\ IsValue(k, settings.values[k]) /\ k \in SettingKeys
                                    /\ settings.values[k].type = TypeOf(EditorOf(k))
  <2> SUFFICES ASSUME NEW k \in KeysOf(sim.method)
               PROVE  /\ IsValue(k, settings.values[k]) /\ k \in SettingKeys
                      /\ settings.values[k].type = TypeOf(EditorOf(k))
    OBVIOUS
  <2>1. settings.values[k] = Variant(TypeOf(EditorOf(k)), sim.form[k])
    BY <1>2
  <2>2. IsValue(k, settings.values[k]) /\ k \in SettingKeys
    BY <1>1, <2>1, FormValues
  <2>3. QED
    BY <2>1, <2>2 DEF Variant
<1>6. MethodKeys \subseteq DOMAIN settings.values
  BY <1>2, MethodKeysApart
<1>7. QED
  BY <1>2, <1>3, <1>4, <1>5, <1>6 DEF IsSaved, settings

\* A form fits the demands on its method, with the one exception.
LEMMA FetchedIsAccepted ==
  ASSUME Fetchable, NEW save \in BOOLEAN, NEW side \in Sides,
         panel[side].method # "File",
         LET zero == <<"NormalSphere", "VelocityStdDev">>
         IN  ~(zero \in DOMAIN panel[side].form /\ panel[side].form[zero] = 0)
  PROVE  Accepts(FetchSettings(save), MethodKey(side))
<1> DEFINE method == panel[side].method
           form == panel[side].form
           settings == FetchSettings(save)
<1>1. method \in Methods /\ IsForm(form, method)
  BY MethodsOfSides DEF Fetchable, IsPanel
<1>2. \A k \in KeysOf(method) : k \in DOMAIN settings.values /\ settings.values[k] = Variant(TypeOf(EditorOf(k)), form[k])
  BY FetchedValues DEF Sides
<1>3. MethodKey(side) \in GeneralKeys
  BY DEF MethodKey, GeneralKeys, MethodKeys
<1>4. /\ MethodKey(side) \in DOMAIN settings.values
      /\ settings.values[MethodKey(side)] = Variant(MethodKey(side)[2], method)
  <2>1. settings.values[MethodKey(side)] = GeneralSettings(save).values[MethodKey(side)]
    BY <1>3, FetchedValues
  <2>2. GeneralSettings(save).values[MethodKey(side)] = Variant(MethodKey(side)[2], method)
    <3>1. GenerationMethod # SimulationMethod /\ \A key \in RealKeys \cup FlagKeys : key \notin MethodKeys
      BY DEF GenerationMethod, SimulationMethod, General, RealKeys, FlagKeys, MethodKeys
    <3>2. CASE side = "generation"
      BY <1>3, <3>1, <3>2 DEF GeneralSettings, Object, MethodKey, MethodKeys
    <3>3. CASE side = "simulation"
      BY <1>3, <3>1, <3>3 DEF GeneralSettings, Object, MethodKey, MethodKeys
    <3>4. QED
      BY <3>2, <3>3 DEF Sides
  <2>3. MethodKey(side) \in DOMAIN settings.values
    BY <1>3, FetchedValues
  <2>4. QED
    BY <2>1, <2>2, <2>3
<1>5. <<"NormalSphere", "VelocityStdDev">> \in KeysOf("NormalSphere")
  BY DEF KeysOf, Parameters
<1> HIDE DEF settings, form, method
<1>6. ASSUME NEW p \in DOMAIN Demands[method]
      PROVE  /\ Gets(settings, <<method, p>>, Demands[method][p].type)
             /\ Get(settings, <<method, p>>) >= Demands[method][p].from
  <2>1. /\ p \in Parameters[method] /\ Meets(Schemas[method][p], Demands[method][p])
        /\ Demands[method][p].from \in Int
        /\ ~Wider(method, p) => Schemas[method][p].min >= Demands[method][p].from
    BY <1>1, SchemasMeetDemands DEF method
  <2>2. <<method, p>> \in KeysOf(method) /\ EditorOf(<<method, p>>) = Schemas[method][p]
    BY <2>1 DEF KeysOf, EditorOf
  <2>3. /\ settings.values[<<method, p>>].type = TypeOf(Schemas[method][p])
        /\ settings.values[<<method, p>>].value = form[<<method, p>>]
        /\ <<method, p>> \in DOMAIN settings.values
    <3>1. /\ <<method, p>> \in DOMAIN settings.values
          /\ settings.values[<<method, p>>] = Variant(TypeOf(Schemas[method][p]), form[<<method, p>>])
      BY <1>2, <2>2
    <3>2. QED
      BY <3>1 DEF Variant
  <2>4. form[<<method, p>>] \in Int /\ form[<<method, p>>] >= Schemas[method][p].min
    BY <1>1, <2>1, <2>2 DEF IsForm, Shows, Meets
  <2>5. IsEditor(Schemas[method][p])
    BY <1>1, <2>1, SchemaEditors
  <2>6. form[<<method, p>>] >= Demands[method][p].from
    <3>1. CASE ~Wider(method, p)
      BY <2>1, <2>4, <2>5, <3>1 DEF IsEditor
    <3>2. CASE Wider(method, p)
      <4>1. form[<<method, p>>] # 0
        BY <1>1, <1>5, <3>2 DEF Wider, IsForm, form
      <4>2. /\ Schemas[method][p].min = 0 /\ Demands[method][p].from = 1
        BY <3>2 DEF Wider, Schemas, NormalSphereSchema, FromZero, Editor, Demands, NormalSphereSettings,
                    PositiveReal, Demand
      <4>3. QED
        BY <2>4, <4>1, <4>2
    <3>3. QED
      BY <3>1, <3>2
  <2>7. QED
    BY <2>1, <2>3, <2>6 DEF Gets, Has, IsA, Get, Meets
<1>7. method \in DOMAIN Demands
  BY <1>1, SchemasMeetDemands DEF method
<1>8. QED
  BY <1>4, <1>6, <1>7 DEF Accepts, Gets, Has, IsA, Get, Variant, settings

-----------------------------------------------------------------------------
(* The steps of the tab keep its forms.                                    *)

LEMMA EditedForm ==
  ASSUME NEW method \in Methods, NEW form, IsForm(form, method),
         NEW key \in KeysOf(method), NEW value, Shows(EditorOf(key), value)
  PROVE  IsForm([form EXCEPT ![key] = value], method)
  BY DEF IsForm

LEMMA EditedPanel ==
  ASSUME Fetchable, NEW side \in Sides, NEW key \in DOMAIN panel[side].form, NEW value,
         Shows(EditorOf(key), value),
         panel' = [panel EXCEPT ![side].form[key] = value]
  PROVE  Fetchable'
<1> DEFINE p == panel[side]
           form == [p.form EXCEPT ![key] = value]
<1>1. p = [method |-> p.method, previous |-> p.previous, form |-> p.form, stored |-> p.stored]
  BY DEF Fetchable, IsPanel
<1>2. PICK q : q = [p EXCEPT !.form = form]
  OBVIOUS
<1>3. panel' = [panel EXCEPT ![side] = q]
  BY <1>2
<1>4. IsForm(form, p.method)
  BY EditedForm, MethodsOfSides DEF Fetchable, IsPanel, IsForm
<1> HIDE DEF p, form
<1>5. q = [method |-> p.method, previous |-> p.previous, form |-> form, stored |-> p.stored]
  BY <1>1, <1>2
<1>6. IsPanel(q, side)
  BY <1>4, <1>5 DEF Fetchable, IsPanel, p
<1>7. QED
  BY <1>3, <1>6 DEF Fetchable

LEMMA EditFormKeeps ==
  ASSUME FormInv, EditForm
  PROVE  FormInv'
<1> USE DEF FormInv
<1>1. Fetchable /\ UNCHANGED <<started, disk>>
  BY FormStepsLeaveRun DEF Fetchable, runVars
<1>2. ASSUME NEW file, ChoosePath(file)
      PROVE  \A task \in tasks' : task.kind = "settings" => task \in tasks
  BY <1>2 DEF ChoosePath, Ask
<1>3. \A task \in tasks' : task.kind = "settings" => task \in tasks
  BY <1>2 DEF EditForm, EditNumber, ChangeMethod, EditPath, CancelFileDialog, ResetSettings, taskVars
<1>4. ASSUME NEW side \in Sides, NEW key \in DOMAIN panel[side].form, NEW v \in Range(EditorOf(key)),
             EditNumber(side, key, v)
      PROVE  Fetchable'
  <2>1. key \in KeysOf(panel[side].method) /\ panel[side].method \in Methods
    BY <1>1, MethodsOfSides DEF Fetchable, IsPanel, IsForm
  <2>2. Shows(EditorOf(key), v)
    BY <2>1, KeyEditors DEF Range, Shows, IsEditor, Ordinary
  <2>3. panel' = [panel EXCEPT ![side].form[key] = v]
    BY <1>4 DEF EditNumber
  <2>4. QED
    BY <1>1, <2>2, <2>3, EditedPanel
<1>5. ASSUME NEW side \in Sides, NEW method \in menu \cap MethodsOf(side), ChangeMethod(side, method)
      PROVE  Fetchable'
  <2>1. PICK fresh \in NewForms(method) :
               panel' = [panel EXCEPT ![side] = Switched(panel[side], method, fresh)]
    BY <1>5 DEF ChangeMethod
  <2>2. IsPanel(Switched(panel[side], method, fresh), side)
    BY <1>1, SwitchedIsPanel DEF Fetchable
  <2>3. QED
    BY <1>1, <2>1, <2>2 DEF Fetchable
<1>6. ASSUME NEW file, EditPath(file)
      PROVE  Fetchable'
  <2>1. /\ panel["generation"].method = "File"
        /\ panel' = [panel EXCEPT !["generation"].form[<<"File", "FilePath">>] = file]
    BY <1>6 DEF EditPath
  <2>2. <<"File", "FilePath">> \in DOMAIN panel["generation"].form
    BY <1>1, <2>1 DEF Fetchable, Sides, IsPanel, IsForm, KeysOf, Parameters
  <2>3. Shows(EditorOf(<<"File", "FilePath">>), file)
    BY DEF Shows, EditorOf, Schemas, FileSchema, Path, Editor
  <2>4. QED
    BY <1>1, <2>1, <2>2, <2>3, EditedPanel DEF Sides
<1>7. ASSUME CancelFileDialog
      PROVE  Fetchable'
  <2>1. panel' = panel
    BY <1>7 DEF CancelFileDialog
  <2>2. QED
    BY <1>1, <2>1 DEF Fetchable
<1>8. ASSUME ResetSettings
      PROVE  Fetchable'
  <2>1. panel' = [side \in Sides |-> Reset(panel[side])]
    BY <1>8 DEF ResetSettings
  <2>2. \A side \in Sides : IsPanel(Reset(panel[side]), side)
    BY <1>1, ResetIsPanel DEF Fetchable
  <2>3. DOMAIN panel' = Sides /\ \A side \in Sides : panel'[side] = Reset(panel[side])
    BY <2>1
  <2>4. QED
    BY <2>2, <2>3 DEF Fetchable
<1>9. Fetchable'
  BY <1>4, <1>5, <1>6, <1>7, <1>8 DEF EditForm
<1>10. QED
  BY <1>1, <1>3, <1>9 DEF Fetchable

LEMMA StartKeeps ==
  ASSUME FormInv, StartSimulation
  PROVE  FormInv'
<1> USE DEF FormInv
<1>1. UNCHANGED <<panel, tasks>>
  BY DEF StartSimulation, formVars, taskVars
<1>2. CASE UNCHANGED <<started, disk>>
  BY <1>1, <1>2
<1>3. ASSUME NEW save \in BOOLEAN, started' = FetchSettings(save),
             disk' = IF save THEN disk \cup {ToJson(FetchSettings(save))} ELSE disk
      PROVE  FormInv'
  <2>1. IsSaved(FetchSettings(save))
    BY FetchedIsSaved DEF Fetchable
  <2>2. /\ CreateFromJson(ToJson(FetchSettings(save))) = FetchSettings(save)
        /\ IsJson(ToJson(FetchSettings(save)))
    BY <2>1, SavedComesBack
  <2>3. QED
    BY <1>1, <1>3, <2>1, <2>2
<1>4. QED
  BY <1>2, <1>3 DEF StartSimulation

\* Both forms show the file that has been loaded.
LEMMA LoadedForms ==
  ASSUME Fetchable, NEW json, IsJson(json),
         CreateFromJson(json) # Nothing, Loadable(CreateFromJson(json)),
         ShowSettings(CreateFromJson(json))
  PROVE  /\ Fetchable'
         /\ \A side \in Sides :
              /\ panel'[side].method = Get(CreateFromJson(json), MethodKey(side))
              /\ \A k \in DOMAIN panel'[side].form :
                   Has(CreateFromJson(json), k) =>
                     panel'[side].form[k] = Clamp(EditorOf(k), Get(CreateFromJson(json), k))
<1> DEFINE settings == CreateFromJson(json)
<1>1. \A side \in Sides :
        /\ Gets(settings, MethodKey(side), MethodKey(side)[2])
        /\ Readable(Get(settings, MethodKey(side)), settings)
  BY DEF Loadable
<1>2. \A side \in Sides : Get(settings, MethodKey(side)) \in MethodsOf(side)
  <2> SUFFICES ASSUME NEW side \in Sides
               PROVE  Get(settings, MethodKey(side)) \in MethodsOf(side)
    OBVIOUS
  <2> DEFINE key == MethodKey(side)
  <2>1. settings = Object([k \in DOMAIN json |-> FromJson(k, json[k])])
    BY DEF CreateFromJson
  <2>2. key \in DOMAIN json /\ settings.values[key] = FromJson(key, json[key])
    BY <1>1, <2>1 DEF Gets, Has, Object
  <2>3. FromJson(key, json[key]) # Nothing
    BY <2>2 DEF CreateFromJson
  <2>4. key \in MethodKeys
    BY DEF MethodKey, MethodKeys
  <2>5. FromJson(key, json[key]).value \in MethodsNamedBy(key)
    BY <2>3, <2>4 DEF FromJson, Variant
  <2>6. QED
    BY <2>2, <2>5 DEF Get, MethodsOf
<1>3. \A side \in Sides : HasNumbers(settings, Get(settings, MethodKey(side)))
  BY <1>1, <1>2, CreatedHasNumbers, MethodsOfSides
<1> HIDE DEF settings
<1>4. ASSUME NEW side \in Sides,
             NEW fresh \in NewForms(Get(settings, MethodKey(side))),
             panel'[side] = Reset(Loaded(panel[side], Get(settings, MethodKey(side)), settings, fresh))
      PROVE  /\ IsPanel(panel'[side], side)
             /\ panel'[side].method = Get(settings, MethodKey(side))
             /\ \A k \in DOMAIN panel'[side].form :
                  Has(settings, k) => panel'[side].form[k] = Clamp(EditorOf(k), Get(settings, k))
  <2> DEFINE method == Get(settings, MethodKey(side))
             loaded == Loaded(panel[side], method, settings, fresh)
  <2>1. IsPanel(loaded, side) /\ loaded.method = method /\ Stored(loaded) = settings
    BY <1>2, <1>3, LoadedIsPanel DEF Fetchable
  <2> HIDE DEF loaded
  <2>2. /\ IsPanel(Reset(loaded), side) /\ Reset(loaded).method = method
        /\ Reset(loaded).form = SetSettings(loaded.form, settings)
    BY <2>1, ResetIsPanel
  <2>3. \A k \in DOMAIN SetSettings(loaded.form, settings) :
          Has(settings, k) => SetSettings(loaded.form, settings)[k] = Clamp(EditorOf(k), Get(settings, k))
    BY DEF SetSettings
  <2>4. QED
    BY <1>4, <2>2, <2>3 DEF loaded
<1>5. PICK g \in NewForms(Get(settings, GenerationMethod)), s \in NewForms(Get(settings, SimulationMethod)) :
        panel' = [generation |-> Reset(Loaded(panel["generation"], Get(settings, GenerationMethod), settings, g)),
                  simulation |-> Reset(Loaded(panel["simulation"], Get(settings, SimulationMethod), settings, s))]
  BY DEF ShowSettings, settings
<1>6. /\ panel'["generation"] = Reset(Loaded(panel["generation"], Get(settings, GenerationMethod), settings, g))
      /\ panel'["simulation"] = Reset(Loaded(panel["simulation"], Get(settings, SimulationMethod), settings, s))
      /\ DOMAIN panel' = Sides
  BY <1>5 DEF Sides
<1>7. MethodKey("generation") = GenerationMethod /\ MethodKey("simulation") = SimulationMethod
  BY DEF MethodKey
<1>8. \A side \in Sides :
        /\ IsPanel(panel'[side], side)
        /\ panel'[side].method = Get(settings, MethodKey(side))
        /\ \A k \in DOMAIN panel'[side].form :
             Has(settings, k) => panel'[side].form[k] = Clamp(EditorOf(k), Get(settings, k))
  BY <1>4, <1>6, <1>7 DEF Sides
<1>9. QED
  BY <1>6, <1>8 DEF Fetchable, settings

LEMMA AnswerKeeps ==
  ASSUME FormInv, NEW task \in tasks, AnswerSettings(task) \/ AnswerSystem(task)
  PROVE  FormInv'
<1>1. /\ UNCHANGED <<started, disk>> /\ tasks' = tasks \ {task}
  BY DEF AnswerSettings, AnswerSystem, Take, runVars
<1>2. CASE panel' = panel
  BY <1>1, <1>2 DEF FormInv
<1>3. CASE /\ task.kind = "settings" /\ CreateFromJson(task.json) # Nothing
           /\ Loadable(CreateFromJson(task.json)) /\ ShowSettings(CreateFromJson(task.json))
  <2>1. Fetchable /\ IsJson(task.json)
    BY <1>3 DEF FormInv, Fetchable
  <2>2. Fetchable'
    BY <1>3, <2>1, LoadedForms
  <2>3. QED
    BY <1>1, <2>2 DEF FormInv, Fetchable
<1>4. QED
  BY <1>2, <1>3 DEF AnswerSettings, AnswerSystem

LEMMA FormInvInit ==
  ASSUME NewSimulationInit
  PROVE  FormInv
<1>1. PICK g \in NewForms("NormalSphere"), s \in NewForms("Euler") :
        panel = [generation |-> NewPanel("NormalSphere", g), simulation |-> NewPanel("Euler", s)]
  BY DEF NewSimulationInit
<1>2. "NormalSphere" \in MethodsOf("generation") /\ "Euler" \in MethodsOf("simulation")
  BY DEF MethodsOf, MethodsNamedBy, MethodKey, GenerationMethods, SimulationMethods, GenerationMethod,
         SimulationMethod, General
<1>3. /\ IsPanel(NewPanel("NormalSphere", g), "generation")
      /\ IsPanel(NewPanel("Euler", s), "simulation")
  BY <1>2, NewPanelIsPanel DEF Sides
<1>4. DOMAIN panel = Sides /\ \A side \in Sides : IsPanel(panel[side], side)
  BY <1>1, <1>3 DEF Sides
<1>5. started = Empty /\ disk = {} /\ tasks = {}
  BY DEF NewSimulationInit
<1>6. QED
  BY <1>4, <1>5 DEF FormInv

LEMMA FormInvStep ==
  ASSUME FormInv, NewTabMoves
  PROVE  FormInv'
<1>1. CASE UNCHANGED <<panel, started, disk, tasks>>
  BY <1>1 DEF FormInv
<1>2. ASSUME NEW json \in disk \cup Foreign, OpenSettingsDialog(json)
      PROVE  FormInv'
  <2>1. IsJson(json)
    BY NewSimulationAssumption DEF FormInv, IsJson
  <2>2. UNCHANGED <<panel, started, disk>>
    BY <1>2 DEF OpenSettingsDialog, formVars, runVars
  <2>3. \A task \in tasks' : task \in tasks \/ task.json = json
    <3> DEFINE new == [id |-> asked, kind |-> "settings", file |-> "", json |-> json]
    <3>1. tasks' = tasks \cup {new}
      BY <1>2 DEF OpenSettingsDialog, Ask
    <3>2. new.json = json
      OBVIOUS
    <3> HIDE DEF new
    <3>3. QED
      BY <3>1, <3>2
  <2>4. QED
    BY <2>1, <2>2, <2>3 DEF FormInv
<1>3. CASE AbortSimulation
  BY <1>1, <1>3 DEF AbortSimulation, formVars, taskVars
<1>4. CASE RunnerProgress
  BY <1>1, <1>4
     DEF RunnerProgress, GenerationCompletes, InitializationCompletes, RunnerStep, formVars, taskVars
<1>5. CASE \E active \in BOOLEAN : SetPreviewTimer(active)
  BY <1>1, <1>5 DEF SetPreviewTimer, formVars, taskVars
<1>6. CASE UNCHANGED newSimulationVars
  BY <1>1, <1>6 DEF newSimulationVars, formVars, runVars, taskVars
<1>7. CASE HandleAnswer
  BY <1>7, AnswerKeeps DEF HandleAnswer
<1>8. CASE UserStep
  BY <1>2, <1>3, <1>8, EditFormKeeps, StartKeeps DEF UserStep
<1>9. QED
  BY <1>4, <1>5, <1>6, <1>7, <1>8 DEF NewTabMoves, NewSimulationNext

LEMMA WindowFormInv == WindowSpec => []FormInv
<1>1. WindowInit => FormInv
  BY FormInvInit DEF WindowInit
<1>2. FormInv /\ [WindowNext]_windowVars => FormInv'
  BY WindowStepOfTabs, FormInvStep
<1>3. QED
  BY <1>1, <1>2, PTL DEF WindowSpec

\* What the form lets the user enter, and what a file, a reset or a change of
\* method puts into it, the factories and isValid() accept, for every method of
\* either side; but for a velocity dispersion of zero.
THEOREM WindowFormIsAccepted == WindowSpec => []FormIsAccepted
<1>1. ASSUME FormInv
      PROVE  FormIsAccepted
  <2> DEFINE form == panel["generation"].form
             zero == <<"NormalSphere", "VelocityStdDev">>
  <2>1. Fetchable
    BY <1>1 DEF FormInv, Fetchable
  <2>2. /\ panel["simulation"].method \in SimulationMethods
        /\ DOMAIN panel["simulation"].form = KeysOf(panel["simulation"].method)
    BY <2>1 DEF Fetchable, Sides, IsPanel, IsForm, MethodsOf, MethodsNamedBy, MethodKey,
                GenerationMethod, SimulationMethod, General
  <2>3. panel["simulation"].method # "File" /\ zero \notin DOMAIN panel["simulation"].form
    BY <2>2 DEF SimulationMethods, KeysOf
  <2>4. MakesSimulator(FetchSettings(TRUE))
    BY <2>1, <2>3, FetchedIsAccepted DEF MakesSimulator, Sides, MethodKey
  <2>5. panel["generation"].method # "File" /\ ~(zero \in DOMAIN form /\ form[zero] = 0)
          => MakesGenerator(FetchSettings(TRUE))
    BY <2>1, FetchedIsAccepted DEF MakesGenerator, Sides, MethodKey
  <2>6. QED
    BY <2>4, <2>5 DEF FormIsAccepted
<1>2. QED
  BY <1>1, WindowFormInv, PTL

\* What a simulation was started with comes back from its settings file as it
\* was, and can be loaded, whatever the user had entered or loaded before.
THEOREM WindowSavedSettingsReload == WindowSpec => []SavedSettingsReload
<1>1. ASSUME FormInv
      PROVE  SavedSettingsReload
  <2>1. started # Empty => CreateFromJson(ToJson(started)) = started
    BY <1>1, SavedComesBack DEF FormInv
  <2>2. \A json \in disk : CreateFromJson(json) # Nothing /\ Loadable(CreateFromJson(json))
    BY <1>1, SavedIsLoadable DEF FormInv, IsSaved
  <2>3. QED
    BY <2>1, <2>2 DEF SavedSettingsReload
<1>2. QED
  BY <1>1, WindowFormInv, PTL

\* When the answer about a settings file is handled, both forms show that file,
\* whatever methods and values they showed when it was asked for.
THEOREM WindowLoadShowsFile == WindowSpec => LoadShowsFile
<1> DEFINE Shown(task) ==
      LET settings == CreateFromJson(task.json)
      IN  task.kind = "settings" /\ settings # Nothing /\ ~crashed' =>
            \A side \in Sides :
              /\ panel'[side].method = Get(settings, MethodKey(side))
              /\ \A k \in DOMAIN panel'[side].form :
                   Has(settings, k) => panel'[side].form[k] = Clamp(EditorOf(k), Get(settings, k))
<1>1. ASSUME FormInv, NewTabMoves, NEW task \in tasks \ tasks'
      PROVE  Shown(task)
  <2>1. PICK answered \in tasks : AnswerSettings(answered) \/ AnswerSystem(answered)
    <3>1. \A file : ChoosePath(file) => tasks \subseteq tasks'
      BY DEF ChoosePath, Ask
    <3>2. EditForm => tasks \subseteq tasks'
      BY <3>1 DEF EditForm, EditNumber, ChangeMethod, EditPath, CancelFileDialog, ResetSettings, taskVars
    <3>3. (\E json \in disk \cup Foreign : OpenSettingsDialog(json)) => tasks \subseteq tasks'
      BY DEF OpenSettingsDialog, Ask
    <3>4. StartSimulation \/ AbortSimulation \/ RunnerProgress => tasks \subseteq tasks'
      BY DEF StartSimulation, AbortSimulation, RunnerProgress, GenerationCompletes,
             InitializationCompletes, RunnerStep, taskVars
    <3>5. (\E active \in BOOLEAN : SetPreviewTimer(active)) => tasks \subseteq tasks'
      BY DEF SetPreviewTimer, taskVars
    <3>6. UNCHANGED newSimulationVars => tasks \subseteq tasks'
      BY DEF newSimulationVars, taskVars
    <3>7. QED
      BY <1>1, <3>2, <3>3, <3>4, <3>5, <3>6
         DEF NewTabMoves, NewSimulationNext, UserStep, HandleAnswer
  <2>2. task = answered
    BY <1>1, <2>1 DEF AnswerSettings, AnswerSystem, Take
  <2>3. CASE task.kind # "settings"
    BY <2>3
  <2>4. CASE task.kind = "settings"
    <3>1. AnswerSettings(task)
      BY <2>1, <2>2, <2>4 DEF AnswerSystem
    <3>2. CASE CreateFromJson(task.json) = Nothing \/ crashed'
      BY <3>2
    <3>3. CASE CreateFromJson(task.json) # Nothing /\ ~crashed'
      <4>1. Loadable(CreateFromJson(task.json)) /\ ShowSettings(CreateFromJson(task.json))
        BY <3>1, <3>3 DEF AnswerSettings
      <4>2. Fetchable /\ IsJson(task.json)
        BY <1>1, <2>4 DEF FormInv, Fetchable
      <4>3. QED
        BY <3>3, <4>1, <4>2, LoadedForms
    <3>4. QED
      BY <3>2, <3>3
  <2>5. QED
    BY <2>3, <2>4
<1>2. FormInv /\ [WindowNext]_windowVars =>
        [\A task \in tasks \ tasks' : Shown(task)]_newSimulationVars
  BY <1>1, WindowStepOfTabs
<1>3. QED
  BY <1>2, WindowFormInv, PTL DEF WindowSpec, LoadShowsFile

-----------------------------------------------------------------------------
(* The forms of the methods that are not shown.  What a method showed when *)
(* it was left is stored for it, and a form, stored and set again, is the  *)
(* same (FormComesBack).                                                   *)

IsMap(form) == form = [k \in DOMAIN form |-> form[k]]

IsKnown(p, shown) ==
  /\ IsMap(p.form)
  /\ p.method \in DOMAIN shown /\ shown[p.method] = p.form
  /\ \A m \in DOMAIN shown \ {p.method} :
       /\ m \in DOMAIN p.stored
       /\ \A fresh \in NewForms(m) : SetSettings(fresh, p.stored[m]) = shown[m]

KnownInv == \A side \in Sides : IsKnown(panel[side], known[side])

\* What one side of the tab does to what it has stored: it forgets nothing but
\* of the method it shows next, and stores the form of the one it leaves.
Leaves(p, q) ==
  /\ IsMap(p.form) => IsMap(q.form)
  /\ \A m \in DOMAIN p.stored \ {p.method, q.method} :
       m \in DOMAIN q.stored /\ q.stored[m] = p.stored[m]
  /\ q.method # p.method =>
       p.method \in DOMAIN q.stored /\ q.stored[p.method] = GetSettings(p.form)

LEMMA FormComesBack ==
  ASSUME NEW method \in Methods, NEW form, IsForm(form, method), IsMap(form),
         NEW fresh, DOMAIN fresh = KeysOf(method)
  PROVE  SetSettings(fresh, GetSettings(form)) = form
<1> DEFINE settings == GetSettings(form)
<1>1. DOMAIN form = KeysOf(method)
  BY DEF IsForm
<1>2. ASSUME NEW k \in KeysOf(method)
      PROVE  Has(settings, k) /\ Get(settings, k) = form[k]
  BY <1>1, <1>2 DEF GetSettings, Object, Variant, Has, Get
<1>3. ASSUME NEW k \in KeysOf(method)
      PROVE  Clamp(EditorOf(k), form[k]) = form[k]
  <2>1. IsEditor(EditorOf(k)) /\ Shows(EditorOf(k), form[k])
    BY KeyEditors DEF IsForm
  <2>2. CASE EditorOf(k).type = "FilePath"
    BY <2>2 DEF Clamp
  <2>3. CASE EditorOf(k).type # "FilePath"
    <3>1. form[k] \in Int /\ EditorOf(k).min \in Int /\ form[k] >= EditorOf(k).min
      BY <2>1, <2>3 DEF Shows, IsEditor
    <3>2. ~(form[k] < EditorOf(k).min)
      BY <3>1
    <3>3. QED
      BY <3>2 DEF Clamp
  <2>4. QED
    BY <2>2, <2>3
<1> HIDE DEF settings
<1>4. SetSettings(fresh, settings) = [k \in KeysOf(method) |-> form[k]]
  BY <1>2, <1>3 DEF SetSettings
<1>5. QED
  BY <1>1, <1>4 DEF IsMap, settings

LEMMA NewFormKeys ==
  ASSUME NEW method, NEW fresh \in NewForms(method)
  PROVE  DOMAIN fresh = KeysOf(method) /\ IsMap(fresh)
  BY DEF NewForms, IsMap

LEMMA SetSettingsIsMap ==
  ASSUME NEW form, NEW settings
  PROVE  IsMap(SetSettings(form, settings))
  BY DEF SetSettings, IsMap

\* Whatever leaves what is stored keeps what is known.
LEMMA KnownKept ==
  ASSUME NEW p, NEW q, NEW shown, NEW side \in Sides,
         IsPanel(p, side), IsKnown(p, shown), Leaves(p, q)
  PROVE  IsKnown(q, Override(shown, Showing(q)))
<1> DEFINE new == Override(shown, Showing(q))
<1>1. /\ DOMAIN new = DOMAIN shown \cup {q.method}
      /\ new[q.method] = q.form
      /\ \A m \in DOMAIN shown \ {q.method} : new[m] = shown[m]
  BY DEF Override, Showing
<1> HIDE DEF new
<1>2. IsMap(q.form)
  BY DEF IsKnown, Leaves
<1>3. ASSUME NEW m \in DOMAIN new \ {q.method}
      PROVE  /\ m \in DOMAIN q.stored
             /\ \A fresh \in NewForms(m) : SetSettings(fresh, q.stored[m]) = new[m]
  <2>1. m \in DOMAIN shown /\ new[m] = shown[m]
    BY <1>1, <1>3
  <2>2. CASE m = p.method
    <3>1. m \in DOMAIN q.stored /\ q.stored[m] = GetSettings(p.form)
      BY <1>3, <2>2 DEF Leaves
    <3>2. m \in Methods /\ IsForm(p.form, m) /\ IsMap(p.form) /\ shown[m] = p.form
      BY <2>2, MethodsOfSides DEF IsPanel, IsKnown
    <3>3. \A fresh \in NewForms(m) : SetSettings(fresh, GetSettings(p.form)) = p.form
      BY <3>2, FormComesBack, NewFormKeys
    <3>4. QED
      BY <2>1, <3>1, <3>2, <3>3
  <2>3. CASE m # p.method
    <3>1. /\ m \in DOMAIN p.stored
          /\ \A fresh \in NewForms(m) : SetSettings(fresh, p.stored[m]) = shown[m]
      BY <2>1, <2>3 DEF IsKnown
    <3>2. m \in DOMAIN q.stored /\ q.stored[m] = p.stored[m]
      BY <1>3, <2>3, <3>1 DEF Leaves
    <3>3. QED
      BY <2>1, <3>1, <3>2
  <2>4. QED
    BY <2>2, <2>3
<1>4. QED
  BY <1>1, <1>2, <1>3 DEF IsKnown, new

LEMMA EditLeaves ==
  ASSUME NEW p, NEW side \in Sides, IsPanel(p, side), NEW form, IsMap(p.form) => IsMap(form),
         NEW q, q = [p EXCEPT !.form = form]
  PROVE  Leaves(p, q) /\ q.method = p.method
<1>1. p = [method |-> p.method, previous |-> p.previous, form |-> p.form, stored |-> p.stored]
  BY DEF IsPanel
<1>2. q = [method |-> p.method, previous |-> p.previous, form |-> form, stored |-> p.stored]
  BY <1>1
<1>3. q.method = p.method /\ q.form = form /\ q.stored = p.stored
  BY <1>2
<1>4. QED
  BY <1>3 DEF Leaves

LEMMA ResetLeaves ==
  ASSUME NEW p, NEW side \in Sides, IsPanel(p, side)
  PROVE  /\ Leaves(p, Reset(p)) /\ Reset(p).method = p.method /\ Reset(p).stored = p.stored
         /\ IsMap(Reset(p).form)
<1>1. p = [method |-> p.method, previous |-> p.previous, form |-> p.form, stored |-> p.stored]
  BY DEF IsPanel
<1>2. PICK form : form = SetSettings(p.form, Stored(p))
  OBVIOUS
<1>3. Reset(p) = [method |-> p.method, previous |-> p.previous, form |-> form, stored |-> p.stored]
  BY <1>1, <1>2 DEF Reset
<1>4. IsMap(form)
  BY <1>2, SetSettingsIsMap
<1>5. /\ Reset(p).method = p.method /\ Reset(p).form = form /\ Reset(p).stored = p.stored
  BY <1>3
<1>6. QED
  BY <1>4, <1>5 DEF Leaves

\* A switch shows the form that is stored, if there is one.
LEMMA SwitchLeaves ==
  ASSUME NEW p, NEW side \in Sides, IsPanel(p, side),
         NEW method \in MethodsOf(side), NEW fresh \in NewForms(method), method # p.method
  PROVE  /\ Leaves(p, Switched(p, method, fresh))
         /\ Switched(p, method, fresh).method = method
         /\ method \in DOMAIN p.stored =>
              Switched(p, method, fresh).form = SetSettings(fresh, p.stored[method])
<1> DEFINE stored == Put(p.stored, p.previous, GetSettings(p.form))
           left   == [p EXCEPT !.method = method, !.previous = method, !.stored = stored]
           q      == Switched(p, method, fresh)
<1>1. q.method = method /\ q.stored = stored
  BY SwitchedIsPanel
<1>2. p = [method |-> p.method, previous |-> p.method, form |-> p.form, stored |-> p.stored]
  BY DEF IsPanel
<1>3. DOMAIN stored = DOMAIN p.stored \cup {p.method}
      /\ stored[p.method] = GetSettings(p.form)
      /\ \A m \in DOMAIN p.stored \ {p.method} : stored[m] = p.stored[m]
  <2>1. p.previous = p.method
    BY DEF IsPanel
  <2>2. QED
    BY <2>1 DEF Put
<1>4. q = [left EXCEPT !.form = SetSettings(fresh, Stored(left))]
  BY DEF Switched
<1> HIDE DEF stored, q
<1>5. left = [method |-> method, previous |-> method, form |-> p.form, stored |-> stored]
  <2>1. PICK q1 : q1 = [p EXCEPT !.method = method]
    OBVIOUS
  <2>2. PICK q2 : q2 = [q1 EXCEPT !.previous = method]
    OBVIOUS
  <2>3. left = [q2 EXCEPT !.stored = stored]
    BY <2>1, <2>2
  <2> HIDE DEF left
  <2>4. q1 = [method |-> method, previous |-> p.method, form |-> p.form, stored |-> p.stored]
    BY <1>2, <2>1
  <2>5. q2 = [method |-> method, previous |-> method, form |-> p.form, stored |-> p.stored]
    BY <2>2, <2>4
  <2>6. QED
    BY <2>3, <2>5
<1> HIDE DEF left
<1>6. q.form = SetSettings(fresh, Stored(left))
  BY <1>4, <1>5
<1>7. IsMap(q.form)
  BY <1>6, SetSettingsIsMap
<1>8. method \in DOMAIN p.stored => Stored(left) = p.stored[method]
  <2>1. left.method = method /\ left.stored = stored
    BY <1>5
  <2>2. QED
    BY <1>3, <2>1 DEF Stored
<1>9. Leaves(p, q)
  BY <1>1, <1>3, <1>7 DEF Leaves
<1>10. QED
  BY <1>1, <1>6, <1>8, <1>9 DEF q

LEMMA LoadLeaves ==
  ASSUME NEW p, NEW side \in Sides, IsPanel(p, side),
         NEW method \in MethodsOf(side), NEW fresh \in NewForms(method),
         NEW settings, HasNumbers(settings, method)
  PROVE  Leaves(p, Reset(Loaded(p, method, settings, fresh)))
<1> DEFINE kept == Put(p.stored, method, settings)
           loaded == Loaded(p, method, settings, fresh)
<1>1. p = [method |-> p.method, previous |-> p.previous, form |-> p.form, stored |-> p.stored]
  BY DEF IsPanel
<1>2. PICK q : q = [p EXCEPT !.stored = kept]
  OBVIOUS
<1>3. loaded = IF method = p.method THEN q ELSE Switched(q, method, fresh)
  BY <1>2 DEF Loaded
<1>4. /\ DOMAIN kept = DOMAIN p.stored \cup {method}
      /\ \A m \in DOMAIN p.stored \ {method} : kept[m] = p.stored[m]
  BY DEF Put
<1>5. \A m \in DOMAIN kept : HasNumbers(kept[m], m)
  BY PutHasNumbers DEF IsPanel
<1>6. IsPanel(loaded, side) /\ loaded.method = method
  BY LoadedIsPanel
<1> HIDE DEF kept, loaded
<1>7. q = [method |-> p.method, previous |-> p.previous, form |-> p.form, stored |-> kept]
  BY <1>1, <1>2
<1>8. q.method = p.method /\ q.form = p.form /\ q.stored = kept
  BY <1>7
<1>9. IsPanel(q, side)
  BY <1>5, <1>7 DEF IsPanel
<1>10. PICK last : last = Reset(loaded)
  OBVIOUS
<1>11. last.method = method /\ last.stored = loaded.stored /\ IsMap(last.form)
  BY <1>6, <1>10, ResetLeaves
<1>12. CASE method = p.method
  BY <1>3, <1>4, <1>8, <1>10, <1>11, <1>12 DEF Leaves, loaded
<1>13. CASE method # p.method
  <2>1. Leaves(q, Switched(q, method, fresh))
    BY <1>8, <1>9, <1>13, SwitchLeaves
  <2>2. loaded = Switched(q, method, fresh)
    BY <1>3, <1>13
  <2>3. Leaves(q, loaded)
    BY <2>1, <2>2
  <2>4. /\ \A m \in DOMAIN kept \ {p.method, method} :
             m \in DOMAIN last.stored /\ last.stored[m] = kept[m]
        /\ p.method \in DOMAIN last.stored /\ last.stored[p.method] = GetSettings(p.form)
    BY <1>6, <1>8, <1>11, <1>13, <2>3 DEF Leaves
  <2>5. Leaves(p, last)
    BY <1>4, <1>11, <2>4 DEF Leaves
  <2>6. QED
    BY <1>10, <2>5 DEF loaded
<1>14. QED
  BY <1>12, <1>13

\* Every step leaves what is stored, on either side; and when no task is
\* answered, the method of a side changes only by the user's choice.
SideStep(side) ==
  /\ Leaves(panel[side], panel'[side])
  /\ /\ panel'[side].method # panel[side].method /\ tasks' = tasks
     /\ panel'[side].method \in DOMAIN panel[side].stored
     => \E fresh \in NewForms(panel'[side].method) :
          panel'[side].form = SetSettings(fresh, panel[side].stored[panel'[side].method])

LEMMA SameMethodStep ==
  ASSUME NEW side, Leaves(panel[side], panel'[side]), panel'[side].method = panel[side].method
  PROVE  SideStep(side)
  BY DEF SideStep

LEMMA NothingLeft ==
  ASSUME panel' = panel, NEW side
  PROVE  SideStep(side)
  BY DEF SideStep, Leaves

LEMMA FieldEdited ==
  ASSUME Fetchable, NEW edited \in Sides, NEW key, NEW value,
         panel' = [panel EXCEPT ![edited].form[key] = value],
         NEW side \in Sides
  PROVE  SideStep(side)
<1>1. CASE side = edited
  <2>1. PICK form : form = [panel[side].form EXCEPT ![key] = value]
    OBVIOUS
  <2>2. panel'[side] = [panel[side] EXCEPT !.form = form]
    BY <1>1, <2>1 DEF Fetchable
  <2>3. IsMap(panel[side].form) => IsMap(form)
    BY <2>1 DEF IsMap
  <2>4. PICK q : q = panel'[side]
    OBVIOUS
  <2>5. Leaves(panel[side], q) /\ q.method = panel[side].method
    BY <2>2, <2>3, <2>4, EditLeaves DEF Fetchable
  <2>6. QED
    BY <2>4, <2>5, SameMethodStep
<1>2. CASE side # edited
  <2>1. panel'[side] = panel[side]
    BY <1>2 DEF Fetchable
  <2>2. QED
    BY <2>1 DEF SideStep, Leaves
<1>3. QED
  BY <1>1, <1>2

LEMMA MethodChanged ==
  ASSUME Fetchable, NEW changed \in Sides, NEW method \in MethodsOf(changed),
         ChangeMethod(changed, method), NEW side \in Sides
  PROVE  SideStep(side)
<1>1. PICK fresh \in NewForms(method) :
        panel' = [panel EXCEPT ![changed] = Switched(panel[changed], method, fresh)]
  BY DEF ChangeMethod
<1>2. method # panel[changed].method
  BY DEF ChangeMethod
<1>3. CASE side = changed
  <2>1. panel'[side] = Switched(panel[side], method, fresh)
    BY <1>1, <1>3 DEF Fetchable
  <2>2. /\ Leaves(panel[side], Switched(panel[side], method, fresh))
        /\ Switched(panel[side], method, fresh).method = method
        /\ method \in DOMAIN panel[side].stored =>
             Switched(panel[side], method, fresh).form
               = SetSettings(fresh, panel[side].stored[method])
    BY <1>2, <1>3, SwitchLeaves DEF Fetchable
  <2>3. QED
    BY <2>1, <2>2 DEF SideStep
<1>4. CASE side # changed
  <2>1. panel'[side] = panel[side]
    BY <1>1, <1>4 DEF Fetchable
  <2>2. QED
    BY <2>1 DEF SideStep, Leaves
<1>5. QED
  BY <1>3, <1>4

LEMMA SettingsLoaded ==
  ASSUME Fetchable, NEW json, IsJson(json), CreateFromJson(json) # Nothing,
         Loadable(CreateFromJson(json)), ShowSettings(CreateFromJson(json)),
         NEW side \in Sides
  PROVE  Leaves(panel[side], panel'[side])
<1>1. PICK settings : settings = CreateFromJson(json)
  OBVIOUS
<1>2. PICK method : method = Get(settings, MethodKey(side))
  OBVIOUS
<1>3. method \in MethodsOf(side)
  <2>1. /\ panel'[side].method = method
        /\ Fetchable'
    BY <1>1, <1>2, LoadedForms
  <2>2. QED
    BY <2>1 DEF Fetchable, IsPanel
<1>4. HasNumbers(settings, method)
  <2>1. Readable(method, CreateFromJson(json))
    BY <1>1, <1>2 DEF Loadable
  <2>2. method \in Methods
    BY <1>3, MethodsOfSides
  <2>3. QED
    BY <1>1, <2>1, <2>2, CreatedHasNumbers
<1>5. PICK fresh \in NewForms(method) :
        panel'[side] = Reset(Loaded(panel[side], method, settings, fresh))
  <2>1. PICK g \in NewForms(Get(settings, GenerationMethod)), s \in NewForms(Get(settings, SimulationMethod)) :
          panel' = [generation |-> Reset(Loaded(panel["generation"], Get(settings, GenerationMethod), settings, g)),
                    simulation |-> Reset(Loaded(panel["simulation"], Get(settings, SimulationMethod), settings, s))]
    BY <1>1 DEF ShowSettings
  <2>2. CASE side = "generation"
    <3>1. method = Get(settings, GenerationMethod)
      BY <1>2, <2>2 DEF MethodKey
    <3>2. QED
      BY <2>1, <2>2, <3>1
  <2>3. CASE side = "simulation"
    <3>1. method = Get(settings, SimulationMethod)
      BY <1>2, <2>3 DEF MethodKey
    <3>2. QED
      BY <2>1, <2>3, <3>1
  <2>4. QED
    BY <2>2, <2>3 DEF Sides
<1>6. Leaves(panel[side], Reset(Loaded(panel[side], method, settings, fresh)))
  BY <1>3, <1>4, LoadLeaves DEF Fetchable
<1>7. QED
  BY <1>5, <1>6

LEMMA StepOfSide ==
  ASSUME FormInv, NewTabMoves, NEW side \in Sides
  PROVE  SideStep(side)
<1>1. Fetchable
  BY DEF FormInv, Fetchable
<1>2. CASE panel' = panel
  BY <1>2, NothingLeft
<1>3. ASSUME NEW edited \in Sides, NEW key, NEW value, EditNumber(edited, key, value)
      PROVE  SideStep(side)
  BY <1>1, <1>3, FieldEdited DEF EditNumber
<1>4. ASSUME NEW file, EditPath(file)
      PROVE  SideStep(side)
  <2>1. panel' = [panel EXCEPT !["generation"].form[<<"File", "FilePath">>] = file]
    BY <1>4 DEF EditPath
  <2>2. "generation" \in Sides
    BY DEF Sides
  <2>3. QED
    BY <1>1, <2>1, <2>2, FieldEdited
<1>5. ASSUME NEW changed \in Sides, NEW method \in MethodsOf(changed), ChangeMethod(changed, method)
      PROVE  SideStep(side)
  BY <1>1, <1>5, MethodChanged
<1>6. ASSUME ResetSettings
      PROVE  SideStep(side)
  <2>1. panel'[side] = Reset(panel[side])
    BY <1>6 DEF ResetSettings
  <2>2. Leaves(panel[side], panel'[side]) /\ panel'[side].method = panel[side].method
    BY <1>1, <2>1, ResetLeaves DEF Fetchable
  <2>3. QED
    BY <2>2, SameMethodStep
<1>7. CASE EditForm
  <2>1. CASE CancelFileDialog
    BY <1>2, <2>1 DEF CancelFileDialog
  <2>2. QED
    BY <1>3, <1>4, <1>5, <1>6, <1>7, <2>1 DEF EditForm
<1>8. CASE \E json \in disk \cup Foreign : OpenSettingsDialog(json)
  BY <1>2, <1>8 DEF OpenSettingsDialog, formVars
<1>9. CASE StartSimulation \/ AbortSimulation
  BY <1>2, <1>9 DEF StartSimulation, AbortSimulation, formVars
<1>10. CASE RunnerProgress
  BY <1>2, <1>10
     DEF RunnerProgress, GenerationCompletes, InitializationCompletes, RunnerStep, formVars
<1>11. ASSUME NEW task \in tasks, AnswerSettings(task) \/ AnswerSystem(task)
       PROVE  SideStep(side)
  <2>1. CASE panel' = panel
    BY <2>1, NothingLeft
  <2>2. CASE /\ task.kind = "settings" /\ CreateFromJson(task.json) # Nothing
             /\ Loadable(CreateFromJson(task.json)) /\ ShowSettings(CreateFromJson(task.json))
    <3>1. IsJson(task.json)
      BY <2>2 DEF FormInv
    <3>2. Leaves(panel[side], panel'[side])
      BY <1>1, <2>2, <3>1, SettingsLoaded
    <3>3. tasks' # tasks
      BY <1>11 DEF AnswerSettings, AnswerSystem, Take
    <3>4. QED
      BY <3>2, <3>3 DEF SideStep
  <2>3. QED
    BY <1>11, <2>1, <2>2 DEF AnswerSettings, AnswerSystem
<1>12. CASE \E active \in BOOLEAN : SetPreviewTimer(active)
  BY <1>2, <1>12 DEF SetPreviewTimer, formVars
<1>13. CASE UNCHANGED newSimulationVars
  BY <1>2, <1>13 DEF newSimulationVars, formVars
<1>14. QED
  BY <1>7, <1>8, <1>9, <1>10, <1>11, <1>12, <1>13
     DEF NewTabMoves, NewSimulationNext, UserStep, HandleAnswer

HistoryInv == FormInv /\ KnownInv

LEMMA HistoryInvInit == HistoryInit => HistoryInv
<1> SUFFICES ASSUME HistoryInit
             PROVE  HistoryInv
  OBVIOUS
<1>1. FormInv
  BY FormInvInit DEF HistoryInit, WindowInit
<1>2. \A side \in Sides : known[side] = Showing(panel[side])
  BY DEF HistoryInit
<1>3. \A side \in Sides : IsMap(panel[side].form)
  <2>1. PICK g \in NewForms("NormalSphere"), s \in NewForms("Euler") :
          panel = [generation |-> NewPanel("NormalSphere", g), simulation |-> NewPanel("Euler", s)]
    BY DEF HistoryInit, WindowInit, NewSimulationInit
  <2>2. IsMap(g) /\ IsMap(s)
    BY NewFormKeys
  <2>3. panel["generation"].form = g /\ panel["simulation"].form = s
    BY <2>1 DEF NewPanel
  <2>4. QED
    BY <2>2, <2>3 DEF Sides
<1>4. \A side \in Sides : IsKnown(panel[side], Showing(panel[side]))
  BY <1>3 DEF IsKnown, Showing
<1>5. QED
  BY <1>1, <1>2, <1>4 DEF HistoryInv, KnownInv

LEMMA HistoryInvStep ==
  ASSUME HistoryInv, [HistoryNext]_historyVars
  PROVE  HistoryInv'
<1>1. FormInv'
  BY WindowStepOfTabs, FormInvStep DEF HistoryInv, HistoryNext, historyVars
<1>2. CASE UNCHANGED historyVars
  <2>1. panel' = panel /\ known' = known
    BY <1>2 DEF historyVars, windowVars, newSimulationVars, formVars
  <2>2. QED
    BY <1>1, <2>1 DEF HistoryInv, KnownInv
<1>3. CASE HistoryNext
  <2>1. NewTabMoves
    BY <1>3, WindowStepOfTabs DEF HistoryNext
  <2>2. ASSUME NEW side \in Sides
        PROVE  IsKnown(panel'[side], known'[side])
    <3>1. PICK q : q = panel'[side]
      OBVIOUS
    <3>2. known'[side] = Override(known[side], Showing(q))
      BY <1>3, <3>1 DEF HistoryNext, Remember
    <3>3. Leaves(panel[side], q)
      BY <2>1, <3>1, StepOfSide DEF HistoryInv, SideStep
    <3>4. IsPanel(panel[side], side) /\ IsKnown(panel[side], known[side])
      BY DEF HistoryInv, FormInv, KnownInv
    <3>5. IsKnown(q, Override(known[side], Showing(q)))
      BY <3>3, <3>4, KnownKept
    <3>6. QED
      BY <3>1, <3>2, <3>5
  <2>3. QED
    BY <1>1, <2>2 DEF HistoryInv, KnownInv
<1>4. QED
  BY <1>2, <1>3

\* A method shows again what it showed when the user left it for another one,
\* through any sequence of edits, switches, resets and loaded files, unless a
\* settings file was loaded for it in between or is loaded now.
THEOREM WindowMethodsKeepTheirValues == HistorySpec => MethodsKeepTheirValues
<1> DEFINE Kept(side) ==
      LET method == panel'[side].method
      IN  /\ method # panel[side].method /\ tasks' = tasks
          /\ method \in DOMAIN known[side]
          => panel'[side].form = known[side][method]
<1>1. ASSUME HistoryInv, [HistoryNext]_historyVars, NEW side \in Sides
      PROVE  Kept(side)
  <2> SUFFICES ASSUME NEW method, method = panel'[side].method,
                      method # panel[side].method, tasks' = tasks, method \in DOMAIN known[side]
               PROVE  panel'[side].form = known[side][method]
    OBVIOUS
  <2>1. SideStep(side)
    BY <1>1, WindowStepOfTabs, StepOfSide DEF HistoryInv, HistoryNext, historyVars
  <2>2. /\ method \in DOMAIN panel[side].stored
        /\ \A fresh \in NewForms(method) :
             SetSettings(fresh, panel[side].stored[method]) = known[side][method]
    BY <1>1 DEF HistoryInv, KnownInv, IsKnown
  <2>3. QED
    BY <2>1, <2>2 DEF SideStep
<1>2. HistoryInv /\ [HistoryNext]_historyVars => [\A side \in Sides : Kept(side)]_historyVars
  BY <1>1
<1>3. HistorySpec => []HistoryInv
  BY HistoryInvInit, HistoryInvStep, PTL DEF HistorySpec
<1>4. QED
  BY <1>2, <1>3, PTL DEF HistorySpec, MethodsKeepTheirValues
=============================================================================
