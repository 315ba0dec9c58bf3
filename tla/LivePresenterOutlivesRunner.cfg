\* The smallest simulation that is aborted.
CONSTANTS
  MaxSteps = 1
  None = None
  Configurations <- AbortConfigurations
SPECIFICATION PipelineSpec
INVARIANTS PresenterGoneFirst
CHECK_DEADLOCK FALSE
