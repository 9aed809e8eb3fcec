SPECIFICATION Spec
CONSTANTS
  a1 = a1
  Pages = {"product", "post"}
  Posts = {"post"}
  LastCrawl = 2
  Applies = {a1}
  Attempts = 1
  MaxStalls = 1
  CheckEvery = 2
  MaxFaults = 1
  NoLock = NoLock
  Orphan = Orphan
INVARIANTS
  ReadsNeverOverlap
  SkippedForgotten
  SummaryCurrent
PROPERTIES
  NeverBackToOlder
\* The crawls are bounded: the run stops when the last has been read.
CHECK_DEADLOCK FALSE
