------------------------------ MODULE MainWindow ------------------------------
(***************************************************************************)
(* The main window (presenters/main_window): its tabs, which of them is    *)
(* shown, and what a switch does to the timers of the others.  A user acts *)
(* on the tab that is shown; answers, the runner and the playback window   *)
(* do not care which one that is.                                          *)
(***************************************************************************)
EXTENDS NewSimulation, LoadSimulation

VARIABLE tab,            \* the current tab
         closedElsewhere  \* history: a playback was closed while its tab was not shown
windowVars == <<newSimulationVars, loadVars, tab, closedElsewhere>>

Tabs == {"home", "new", "load", "logs"}

WindowInit == NewSimulationInit /\ LoadInit /\ tab = "home" /\ closedElsewhere = FALSE

\* Faulty variant: the tab that is left is not told.
SwitchTelling(to) ==
  /\ to # tab /\ tab' = to
  /\ IF to = "new" THEN SetPreviewTimer(TRUE) ELSE UNCHANGED newSimulationVars
  /\ IF to = "load" THEN SetLoadTimer(TRUE) ELSE SetLoadTimer(FALSE)
  /\ closedElsewhere' = FALSE

\* onTabSwitched.
SwitchTab(to) ==
  /\ to # tab /\ tab' = to
  /\ SetPreviewTimer(to = "new") /\ SetLoadTimer(to = "load")
  /\ closedElsewhere' = FALSE

Alive == ~crashed /\ ~loadCrashed

NewTabStep ==
  /\ Alive
  /\ (tab = "new" /\ UserStep) \/ RunnerProgress \/ HandleAnswer
  /\ UNCHANGED <<loadVars, tab, closedElsewhere>>

LoadTabStep ==
  /\ Alive
  /\ (tab = "load" /\ LoadUserStep) \/ HandleParsed
  /\ UNCHANGED <<newSimulationVars, tab, closedElsewhere>>

ClosePlayback ==
  /\ Alive /\ EndSimulationPlayback
  /\ closedElsewhere' = (tab # "load")
  /\ UNCHANGED <<newSimulationVars, tab>>

WindowNext ==
  \/ \E to \in Tabs : SwitchTab(to)
  \/ NewTabStep \/ LoadTabStep \/ ClosePlayback

WindowSpec == WindowInit /\ [][WindowNext]_windowVars
-----------------------------------------------------------------------------
\* The previews of the tabs run where they are shown and nowhere else, through
\* any order of tab switches, starts, aborts and playbacks; only a playback
\* closed from another tab restarts the preview of a tab that is not shown.
TimersFollowTab ==
  /\ previewTimer => tab = "new"
  /\ tab = "new" /\ runner = "none" => previewTimer
  /\ loadTimer => tab = "load" \/ closedElsewhere
  /\ tab = "load" /\ player = NoPlayer => loadTimer

\* "Stop preview timer to halt preview animation"
\* (new_simulation_presenter.cpp:109): while a simulation is under way.
PreviewHaltedBySimulation == runner # "none" => ~previewTimer

\* A simulation that can be prepared leaves the preparation page, and every
\* file of a folder that is being checked gets its answer, however the answers
\* of several folders are mixed; unless an exception ends the program.
BackgroundWorkEnds ==
  /\ (page = "preparation" /\ started # Empty /\ HasSystem /\ MakesSimulator(started))
       ~> (page # "preparation" \/ ~Alive)
  /\ \A k \in FileKinds : (icon[k] = "loading") ~> (icon[k] # "loading" \/ ~Alive)
=============================================================================
