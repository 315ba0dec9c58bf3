----------------------------- MODULE NewSimulation -----------------------------
(***************************************************************************)
(* The tab that starts a simulation: its view (views/new_simulation_tab),  *)
(* its presenter (presenters/new_simulation), the tasks that parse files   *)
(* on the thread pool and post their answers in any order, and as much of  *)
(* the runner (LivePipeline) as the tab can tell apart.                    *)
(***************************************************************************)
EXTENDS SettingsSchemas

CONSTANTS Menus,         \* the methods a user may switch among, one set per behaviour
          GoodFiles,     \* the files that hold a system
          Foreign,       \* settings files not written by the program, as JSON
          MaxEdits, MaxTasks, MaxStarts  \* bounds on what the user does

ASSUME NewSimulationAssumption ==
  /\ GoodFiles \subseteq Files /\ "" \notin Files
  /\ \A menu \in Menus : {"NormalSphere", "Euler"} \subseteq menu /\ menu \subseteq Methods
  /\ \A json \in Foreign : \A k \in DOMAIN json :
       json[k].json \in {"integer", "float"} => json[k].value \in Int
  /\ {MaxEdits, MaxTasks, MaxStarts} \subseteq Nat

Sides == {"generation", "simulation"}
MethodKey(side) == IF side = "generation" THEN GenerationMethod ELSE SimulationMethod
MethodsOf(side) == MethodsNamedBy(MethodKey(side))

VARIABLES
  menu,           \* this user's methods
  panel,          \* per side: the method chosen, previous_*_method_, the form, stored_*_settings_
  path,           \* initial_system_path_
  preview,        \* what oglSystemPreview shows: a method, a file, or ""
  page,           \* stwProgress: start, preparation, simulation, abortion
  runner,         \* simulation_runner_: none, generating, initializing, running
  started,        \* the settings it was created with
  previewTimer, progressTimer,
  tasks,          \* tasks whose answer has not been handled
  disk,           \* settings files saved by earlier simulations
  crashed,        \* an exception has left a task or a slot
  edits, asked, starts  \* counters, for the bounds

formVars == <<panel, path, preview>>
runVars  == <<page, runner, started, previewTimer, progressTimer, starts, disk>>
taskVars == <<tasks, asked>>
newSimulationVars == <<menu, formVars, runVars, taskVars, crashed, edits>>

Put(stored, method, settings) ==
  [m \in DOMAIN stored \cup {method} |-> IF m = method THEN settings ELSE stored[m]]

\* QMap::value: empty settings for a method that has none stored.
Stored(p) == IF p.method \in DOMAIN p.stored THEN p.stored[p.method] ELSE Empty

\* setupSettingsWidgets: of the two initial methods the defaults are stored.
NewPanel(method, form) ==
  [method |-> method, previous |-> method, form |-> form,
   stored |-> [m \in {method} |-> GetSettings(form)]]

NewSimulationInit ==
  /\ menu \in Menus
  /\ \E g \in NewForms("NormalSphere"), s \in NewForms("Euler") :
       panel = [generation |-> NewPanel("NormalSphere", g), simulation |-> NewPanel("Euler", s)]
  /\ path = "" /\ preview = "NormalSphere"
  /\ page = "start" /\ runner = "none" /\ started = Empty
  /\ previewTimer = FALSE /\ progressTimer = FALSE
  /\ tasks = {} /\ disk = {} /\ crashed = FALSE
  /\ edits = 0 /\ asked = 0 /\ starts = 0
-----------------------------------------------------------------------------
(* The form.                                                               *)

UserMayEdit == ~crashed /\ edits < MaxEdits /\ edits' = edits + 1

Ask(kind, file, json) ==
  /\ asked < MaxTasks
  /\ asked' = asked + 1
  /\ tasks' = tasks \cup {[id |-> asked, kind |-> kind, file |-> file, json |-> json]}
NoJson == [k \in {} |-> ""]

EditNumber(side, key, value) ==
  /\ UserMayEdit
  /\ key # <<"File", "FilePath">>
  /\ panel' = [panel EXCEPT ![side].form[key] = value]
  /\ UNCHANGED <<menu, path, preview, runVars, taskVars, crashed>>

\* settingChanged: the new path is checked.
ChoosePath(file) ==
  /\ path' = file
  /\ Ask("system", file, NoJson)

EditPath(file) ==
  /\ UserMayEdit
  /\ panel["generation"].method = "File"
  /\ panel' = [panel EXCEPT !["generation"].form[<<"File", "FilePath">>] = file]
  /\ ChoosePath(file)
  /\ UNCHANGED <<menu, preview, runVars, crashed>>

\* The signal is emitted with the empty path, the editor keeps its text.
CancelFileDialog ==
  /\ UserMayEdit
  /\ panel["generation"].method = "File"
  /\ ChoosePath("")
  /\ UNCHANGED <<menu, panel, preview, runVars, crashed>>

PreviewFile(file) == IF file \in GoodFiles THEN file ELSE preview

\* What a change of the generation method previews.
PreviewFor(method) ==
  IF method # "File" THEN method ELSE IF path = "" THEN "" ELSE PreviewFile(path)

\* Faulty variant: what the form holds is stored under the method chosen.
SwitchedLate(p, method, fresh) ==
  LET stored == Put(p.stored, method, GetSettings(p.form))
      q == [p EXCEPT !.method = method, !.previous = method, !.stored = stored]
  IN  [q EXCEPT !.form = SetSettings(fresh, Stored(q))]

\* onGenerationMethodChanged, onSimulationMethodChanged.
Switched(p, method, fresh) ==
  LET stored == Put(p.stored, p.previous, GetSettings(p.form))
      q == [p EXCEPT !.method = method, !.previous = method, !.stored = stored]
  IN  [q EXCEPT !.form = SetSettings(fresh, Stored(q))]

ChangeMethod(side, method) ==
  /\ UserMayEdit
  /\ method # panel[side].method
  /\ \E fresh \in NewForms(method) :
       panel' = [panel EXCEPT ![side] = Switched(panel[side], method, fresh)]
  /\ preview' = IF side = "generation" THEN PreviewFor(method) ELSE preview
  /\ UNCHANGED <<menu, path, runVars, taskVars, crashed>>

\* resetSettings, one side.
Reset(p) == [p EXCEPT !.form = SetSettings(p.form, Stored(p))]

ResetSettings ==
  /\ UserMayEdit
  /\ panel' = [side \in Sides |-> Reset(panel[side])]
  /\ UNCHANGED <<menu, path, preview, runVars, taskVars, crashed>>

OpenSettingsDialog(json) ==
  /\ UserMayEdit
  /\ Ask("settings", "", json)
  /\ UNCHANGED <<menu, formVars, runVars, crashed>>
-----------------------------------------------------------------------------
(* Answers of the tasks, handled by the GUI thread.                        *)

Take(task) ==
  /\ ~crashed /\ task \in tasks
  /\ tasks' = tasks \ {task}
  /\ UNCHANGED <<menu, asked, edits>>

\* loadSettings and resetSettings get every value they ask for.
Loadable(settings) ==
  \A side \in Sides :
    /\ Gets(settings, MethodKey(side), MethodKey(side)[2])
    /\ Readable(Get(settings, MethodKey(side)), settings)

\* Faulty variant: the settings are stored before the form they replace.
LoadedOver(p, method, settings, fresh) ==
  LET q == IF method = p.method THEN p ELSE Switched(p, method, fresh)
  IN  [q EXCEPT !.stored = Put(@, p.previous, settings)]

\* loadSettings, one side: stored first, then shown if the method changes.
Loaded(p, method, settings, fresh) ==
  LET q == [p EXCEPT !.stored = Put(@, method, settings)]
  IN  IF method = p.method THEN q ELSE Switched(q, method, fresh)

ShowSettings(settings) ==
  LET gen == Get(settings, GenerationMethod)
      sim == Get(settings, SimulationMethod)
  IN  /\ \E g \in NewForms(gen), s \in NewForms(sim) :
           panel' = [generation |-> Reset(Loaded(panel["generation"], gen, settings, g)),
                     simulation |-> Reset(Loaded(panel["simulation"], sim, settings, s))]
      /\ preview' = IF gen = panel["generation"].method THEN preview ELSE PreviewFor(gen)

\* processSettings.  An exception thrown on the way, by the task or the slot,
\* ends the program.
AnswerSettings(task) ==
  /\ Take(task) /\ task.kind = "settings"
  /\ LET settings == CreateFromJson(task.json)
     IN  IF ParseThrows(task.json) \/ (settings # Nothing /\ ~Loadable(settings))
         THEN crashed' = TRUE /\ UNCHANGED <<panel, preview>>
         ELSE IF settings = Nothing THEN UNCHANGED <<panel, preview, crashed>>
         ELSE ShowSettings(settings) /\ UNCHANGED crashed
  /\ UNCHANGED <<path, runVars>>

\* Faulty variant: a path that holds no system is kept.
AnswerSystemKeeping(task) ==
  /\ Take(task) /\ task.kind = "system"
  /\ preview' = IF task.file \in GoodFiles THEN PreviewFile(path) ELSE preview
  /\ UNCHANGED <<panel, path, runVars, crashed>>

\* processInitialSystem: the answer has no path, the tab's is used.
AnswerSystem(task) ==
  /\ Take(task) /\ task.kind = "system"
  /\ IF task.file \in GoodFiles
     THEN preview' = PreviewFile(path) /\ UNCHANGED path
     ELSE path' = "" /\ UNCHANGED preview
  /\ UNCHANGED <<panel, runVars, crashed>>
-----------------------------------------------------------------------------
(* Starting and aborting.                                                  *)

GeneralSettings(save) ==
  LET value(k) == CASE k = GenerationMethod -> Variant(k[2], panel["generation"].method)
                    [] k = SimulationMethod -> Variant(k[2], panel["simulation"].method)
                    [] k \in RealKeys -> Variant("double", Ordinary)
                    [] k \in FlagKeys -> Variant("bool", save)
  IN  Object([k \in GeneralKeys |-> value(k)])

FetchSettings(save) ==
  Merge(Merge(GeneralSettings(save), GetSettings(panel["generation"].form)),
        GetSettings(panel["simulation"].form))

\* The runner's constructor saves the settings if the box is ticked.
StartSimulation ==
  /\ ~crashed /\ page = "start" /\ starts < MaxStarts
  /\ page' = "preparation"
  /\ \E save \in BOOLEAN :
       IF runner # "none" THEN UNCHANGED <<runner, started, previewTimer, disk>>
       ELSE /\ runner' = "generating"
            /\ started' = FetchSettings(save)
            /\ disk' = IF save THEN disk \cup {ToJson(FetchSettings(save))} ELSE disk
            /\ previewTimer' = FALSE
  /\ starts' = starts + 1
  /\ UNCHANGED <<menu, formVars, taskVars, progressTimer, crashed, edits>>

\* The worker has a system: from the file, or from its generator.
HasSystem ==
  IF Get(started, GenerationMethod) = "File"
  THEN Get(started, <<"File", "FilePath">>) \in GoodFiles
  ELSE MakesGenerator(started)

RunnerStep(from, to) ==
  /\ ~crashed /\ runner = from /\ runner' = to
  /\ UNCHANGED <<menu, formVars, taskVars, started, previewTimer, starts, disk, crashed, edits>>

GenerationCompletes ==
  /\ RunnerStep("generating", "initializing")
  /\ HasSystem
  /\ UNCHANGED <<page, progressTimer>>

\* Faulty variant: the page is not changed.
InitializedUnseen ==
  /\ RunnerStep("initializing", "running")
  /\ MakesSimulator(started)
  /\ progressTimer' = TRUE /\ UNCHANGED page

\* onInitializationCompleted.
InitializationCompletes ==
  /\ RunnerStep("initializing", "running")
  /\ MakesSimulator(started)
  /\ page' = "simulation" /\ progressTimer' = TRUE

\* Faulty variant: the progress timer goes on.
AbortKeepingTimer ==
  /\ ~crashed /\ page \in {"preparation", "simulation"}
  /\ IF runner = "none"
     THEN page' = "abortion" /\ UNCHANGED <<runner, previewTimer, progressTimer>>
     ELSE runner' = "none" /\ page' = "start" /\ previewTimer' = TRUE /\ UNCHANGED progressTimer
  /\ UNCHANGED <<menu, formVars, taskVars, started, starts, disk, crashed, edits>>

\* abortSimulation of view and presenter: one slot, for the whole of which
\* the runner's destructor keeps the GUI thread.
AbortSimulation ==
  /\ ~crashed /\ page \in {"preparation", "simulation"}
  /\ IF runner = "none"
     THEN page' = "abortion" /\ UNCHANGED <<runner, previewTimer, progressTimer>>
     ELSE /\ runner' = "none"
          /\ page' = "start" /\ previewTimer' = TRUE /\ progressTimer' = FALSE
  /\ UNCHANGED <<menu, formVars, taskVars, started, starts, disk, crashed, edits>>

\* active(), inactive(): the main window shows the tab, or another.
SetPreviewTimer(active) ==
  /\ ~crashed
  /\ previewTimer' = active
  /\ UNCHANGED <<menu, formVars, taskVars, page, runner, started, progressTimer, starts, disk,
                 crashed, edits>>
-----------------------------------------------------------------------------
EditForm ==
  \/ \E side \in Sides :
       \/ \E key \in DOMAIN panel[side].form : \E v \in Range(EditorOf(key)) : EditNumber(side, key, v)
       \/ \E method \in menu \cap MethodsOf(side) : ChangeMethod(side, method)
  \/ \E file \in Files \cup {""} : EditPath(file)
  \/ CancelFileDialog \/ ResetSettings

UserStep ==
  \/ EditForm
  \/ \E json \in disk \cup Foreign : OpenSettingsDialog(json)
  \/ StartSimulation \/ AbortSimulation

RunnerProgress == GenerationCompletes \/ InitializationCompletes
HandleAnswer == \E task \in tasks : AnswerSettings(task) \/ AnswerSystem(task)

NewSimulationNext == UserStep \/ RunnerProgress \/ HandleAnswer
-----------------------------------------------------------------------------
\* The page, its buttons and the progress timer agree with the runner, wherever
\* between generation and the end of a run the user aborts.
PageShowsRunner ==
  /\ page = "start" <=> runner = "none"
  /\ page = "simulation" <=> runner = "running"
  /\ progressTimer <=> page = "simulation"

\* What a simulation was started with comes back from its settings file as it
\* was: every key, with the type get() will ask for.
SavedSettingsReload ==
  /\ started # Empty => CreateFromJson(ToJson(started)) = started
  /\ \A json \in disk : CreateFromJson(json) # Nothing /\ Loadable(CreateFromJson(json))

\* When the answer about a settings file is handled, both forms show that file,
\* whatever methods and values they showed when it was asked for.
LoadShowsFile ==
  [][\A task \in tasks \ tasks' :
       LET settings == CreateFromJson(task.json)
       IN  task.kind = "settings" /\ settings # Nothing /\ ~crashed' =>
             \A side \in Sides :
               /\ panel'[side].method = Get(settings, MethodKey(side))
               /\ \A k \in DOMAIN panel'[side].form :
                    Has(settings, k) =>
                      panel'[side].form[k] = Clamp(EditorOf(k), Get(settings, k))]_newSimulationVars

\* What the form lets the user enter, the factories and isValid() accept: two
\* tables of limits kept apart, in the application and in the library.  The one
\* exception is a velocity dispersion of zero.
FormIsAccepted ==
  LET settings == FetchSettings(TRUE)
      form == panel["generation"].form
      zero == <<"NormalSphere", "VelocityStdDev">>
  IN  /\ MakesSimulator(settings)
      /\ panel["generation"].method # "File" /\ ~(zero \in DOMAIN form /\ form[zero] = 0)
           => MakesGenerator(settings)

\* The tab does not keep a path that holds no system: its check is under way,
\* however many paths were chosen meanwhile and in whatever order the answers come.
PathIsChecked ==
  path \notin GoodFiles \cup {""} =>
    \E task \in tasks : task.kind = "system" /\ task.file = path
=============================================================================
