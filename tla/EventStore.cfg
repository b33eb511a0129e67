\* Two handlers, one track, three frames over two days, and two faults.
SPECIFICATION Spec
CONSTANTS
  Handlers = {h1, h2}
  Tracks = {"t1"}
  MaxFrames = 3
  MaxDays = 2
  MaxFaults = 2
INVARIANTS
  TypeOK
  Replayable
  NothingLost
  EvidenceHasAlert
  Resumes
\* The bounds end it.
CHECK_DEADLOCK FALSE
