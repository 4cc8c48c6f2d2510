SPECIFICATION Spec
CONSTANTS
  MaxRuns = 2
  MaxLines = 3
  Window = 2
INVARIANTS  LinesOfOneRun AllShown
PROPERTY RunEnds
CHECK_DEADLOCK FALSE
