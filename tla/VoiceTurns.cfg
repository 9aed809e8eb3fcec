SPECIFICATION MCSpec
CONSTANTS
  LastUtterance = 3
  Skus = {"mantra"}
  Moves = {"navigate"}
  Reads = {"cart_get"}
  AsksForMore <- MCAsksForMore
  MaxCalls = 2
  MaxEvents = 1
  MaxSpoken = 1
INVARIANTS
  WithdrawnNeverActs
  WordsKept
  FollowUpIsTold
  NoDoubleAdd
PROPERTIES
  SilencedStaysSilent
  CallsKeptOnce
  TurnEnds
\* The call is bounded: the run stops when the last utterance has been handled.
CHECK_DEADLOCK FALSE
