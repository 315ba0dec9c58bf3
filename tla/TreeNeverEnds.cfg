\* Three particles, two of them at one place.  The cells they share get smaller
\* by halves until 1 / 40 of an edge is nothing; MaxDepth allows more halves.
CONSTANTS
  TreeSize = 3
  Axes = {0, 1, 2}
  Points <- MCPoints
  Mass <- MCMass
  ThetaSqrs <- MCThetaSqrs
  PertScale = 40
  MaxDepth = 12
  NoParticle = NoParticle
SPECIFICATION TreeSpec
PROPERTY CoincidentBuildCompletes
CHECK_DEADLOCK FALSE
