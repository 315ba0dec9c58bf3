\* Two particles whose due times may meet.
CONSTANTS
  ParticleCount = 2
  StepSizes = {4, 5}
  Duration = 12
SPECIFICATION HitsSpec
INVARIANT EveryParticleScheduled
