SPECIFICATION LineSpec
CONSTANTS
  Fragments = 3
  MaxReplies = 2
  MaxCalls = 1
  MaxSessions = 2
  MaxReconnects = 1
INVARIANTS
  DroppedIsNeverHeard
  NoCallForgotten
PROPERTIES
  WordsBeforeReply
  HoldEnds
  StalledIsAskedAgain
\* The call is bounded: the run stops when it is over.
CHECK_DEADLOCK FALSE
