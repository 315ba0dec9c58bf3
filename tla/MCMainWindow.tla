----------------------------- MODULE MCMainWindow -----------------------------
(***************************************************************************)
(* MainWindow for TLC.  A behaviour has one of four users: one edits and   *)
(* saves numbers and loads a file, one chooses files, folders of a         *)
(* simulation are opened by the third, and the fourth switches among the   *)
(* tabs, starts a simulation as it is and replays one folder, or tries to. *)
(***************************************************************************)
EXTENDS FormHistory

VARIABLE user   \* "numbers", "files", "folders" or "tabs"
mcVars == <<historyVars, user>>

\* One more method than the initial ones, of either side.
MCMenus == {{"NormalSphere", "Euler", m} : m \in Methods}

\* A file of another version that has an integer for a double, one that lacks
\* a parameter and sets others out of their editors' ranges, one without a
\* method, one with an unknown key, one with a number no double can hold.
Text(value) == [json |-> "string", value |-> value]
Float(value) == [json |-> "float", value |-> value]
MethodsText == [k \in MethodKeys |-> Text(IF k = GenerationMethod THEN "NormalSphere" ELSE "Euler")]
With(json, key, value) == Override(json, [k \in {key} |-> value])
MCForeign ==
  {With(MethodsText, <<"Euler", "TimeStep">>, [json |-> "integer", value |-> Ordinary]),
   With(With(MethodsText, <<"Euler", "TimeStep">>, Float(0)), <<"NormalSphere", "MassMean">>, Float(3)),
   [k \in {SimulationMethod} |-> Text("Euler")],
   With(MethodsText, General("Colour"), Text("red")),
   With(MethodsText, <<"Euler", "TimeStep">>, [json |-> "huge"])}

State(settings, system, diagnostics) ==
  [settings |-> settings, system |-> system, diagnostics |-> diagnostics]
MCContents ==
  [full   |-> State("good", "good", "good"),
   charts |-> State("corrupt", "missing", "good"),
   old    |-> State("missing", "botched", "good"),
   torn   |-> State("missing", "torn", "missing"),
   broken |-> State("partial", "missing", "corrupt"),
   huge   |-> State("huge", "missing", "missing")]

MCInit ==
  /\ HistoryInit
  /\ user \in {"numbers", "files", "folders", "tabs"}
  /\ user = "files" => "File" \in menu
  /\ user \in {"folders", "tabs"} => menu = {"NormalSphere", "Euler"}

Open(to) == tab = "home" /\ SwitchTab(to)

NewlyShown(form, method) == form \in NewForms(method)
NumberEdited ==
  \E side \in Sides :
    /\ panel'[side].method = panel[side].method /\ panel[side].method # "File"
    /\ panel'[side].form # panel[side].form /\ tasks' = tasks
    /\ ~NewlyShown(panel'[side].form, panel[side].method)

\* This user has one edited number on show at a time, and starts when done.
NumbersUser ==
  \/ Open("new")
  \/ /\ NewTabStep
     /\ asked' <= 1 /\ (edits' # edits => starts = 0)
     /\ NumberEdited => \A side \in Sides : NewlyShown(panel[side].form, panel[side].method)

FilesUser == Open("new") \/ (NewTabStep /\ ~NumberEdited)

FoldersUser == Open("load") \/ LoadTabStep \/ ClosePlayback

TabsUser ==
  \/ \E to \in Tabs : SwitchTab(to)
  \/ edits' = edits /\ NewTabStep
  \/ LoadTabStep /\ choices' <= 1 /\ folder' \in {NoFolder, "full", "broken"}
  \/ ClosePlayback

MCNext ==
  /\ \/ user = "numbers" /\ NumbersUser
     \/ user = "files" /\ FilesUser
     \/ user = "folders" /\ FoldersUser
     \/ user = "tabs" /\ TabsUser
  /\ Remember /\ UNCHANGED user

\* The runner's threads, the thread pool and the GUI thread go on; nothing
\* makes the user act.  Take is what both answers of the new tab have in common.
MCSpec ==
  /\ MCInit /\ [][MCNext]_mcVars
  /\ WF_runner(Alive /\ RunnerProgress)
  /\ WF_tasks(Alive /\ \E task \in tasks : Take(task))
  /\ WF_parsing(Alive /\ HandleParsed)
=============================================================================
