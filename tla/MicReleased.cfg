SPECIFICATION LifeSpec
INVARIANTS
  MicReleased
\* The visitor taps once: the run stops when the call is over.
CHECK_DEADLOCK FALSE
