\* Every file of at most five lines with three times: rows of two and three
\* particles, interrupted, repeated and torn ones.
CONSTANTS
  Times = {0, 1, 2}
  NoTime = NoTime
  MaxLines = 5
SPECIFICATION IndexSpec
INVARIANTS WrittenFileReadBack TornFileKeepsEarlier SnapshotHasItsTime ParserAgrees
