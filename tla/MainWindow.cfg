\* MCMainWindow has the values of the structured constants.
CONSTANTS
  Seeds = {1}
  Files = {"good.csv", "bad.csv"}
  GoodFiles = {"good.csv"}
  Menus <- MCMenus
  Foreign <- MCForeign
  MaxEdits = 3
  MaxTasks = 2
  MaxStarts = 1
  Folders = {"full", "charts", "old", "torn", "broken", "huge"}
  Contents <- MCContents
  NoFolder = NoFolder
  MaxChoices = 2
SPECIFICATION MCSpec
INVARIANTS PageShowsRunner SavedSettingsReload FormIsAccepted PathIsChecked TabTellsTheTruth PlaysFilesFound TimersFollowTab
PROPERTIES LoadShowsFile MethodsKeepTheirValues BackgroundWorkEnds
CHECK_DEADLOCK FALSE
