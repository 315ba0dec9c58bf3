\* The closures posted for the chart can hold every diagnostics buffer; then
\* the threads stop for good.
CONSTANTS
  MaxSteps = 3
  None = None
  Configurations <- HangConfigurations
SPECIFICATION PipelineSpec
PROPERTIES AbortCompletes
CHECK_DEADLOCK FALSE
