\* Four configurations of a runner.  Once runner, presenter and window are
\* gone everything stops, and so does an abort that hangs (LiveAbortHangs.cfg).
CONSTANTS
  MaxSteps = 4
  None = None
  Configurations <- LiveConfigurations
SPECIFICATION PipelineSpec
INVARIANTS DeliveredInOrder FileLacksAtMostLast SnapshotKeepsItsState
PROPERTIES AbortWithBuffersCompletes SimulationCompletes NewestIsRendered
CHECK_DEADLOCK FALSE
