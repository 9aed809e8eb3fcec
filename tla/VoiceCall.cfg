SPECIFICATION Spec
CONSTANTS
  LastUtterance = 2
  Said <- MCSaid
  Narrated <- MCNarrated
  Paths = {"executor", "tool"}
  CaseCapture = FALSE
INVARIANTS
  BookedTwiceOnlyTogether
  FillsNeverInterleave
  RecordSurvives
PROPERTIES
  BusyEnds
  UnusedLineEnds
  PrimaryNeverStuck
\* The call is bounded: the run stops when it is over.
CHECK_DEADLOCK FALSE
