\* Three HITS particles; with ticks this coarse due times often meet, and from
\* 4 a step can grow to 5 but not to 6 (upper_limit).  Six points for three
\* particles of a tree; four buffers and four steps, so that every buffer comes
\* back; seven snapshots in a chart of four points, so that buckets are uneven.
\* All four computations end.
CONSTANTS
  ParticleCount = 3
  StepSizes = {4, 5, 6}
  Duration = 24
  TreeSize = 3
  Axes = {0, 1, 2}
  Points <- MCPoints
  Mass <- MCMass
  ThetaSqrs <- MCThetaSqrs
  PertScale = 40
  MaxDepth = 8
  NoParticle = NoParticle
  Pool = {1, 2, 3, 4}
  LastStep = 4
  NoBuffer = NoBuffer
  Energies <- MCEnergies
  MaxPoints = 7
  Threshold = 4
  NaN = NaN
SPECIFICATION MCSpec
INVARIANTS PredictsWithinStep MassCountedOnce NoSelfAttraction ForcesBelongToSystem ChartsShowSeries
PROPERTIES HitsReachesEnd TreeBuildCompletes VisibleChartsCatchUp
CHECK_DEADLOCK FALSE
