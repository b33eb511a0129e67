\* Two workers, a queue of two, and two cameras that can overfill it.
SPECIFICATION FairSpec
CONSTANTS
  Calls = {c1, c2}
  Workers = {w1, w2}
  MaxQueue = 2
  MaxFrames = 3
INVARIANTS
  TypeOK
  NewestQueued
  NoLostWakeup
  CleanShutdown
PROPERTIES
  Progress
\* The process exits.
CHECK_DEADLOCK FALSE
