\* Two handlers, a ring of two slots, four frames in all, two restarts of
\* ingest, or one and a fault.
SPECIFICATION FeedSpec
CONSTANTS
  Handlers = {h1, h2}
  None = None
  Depth = 2
  MaxQueue = 1
  Workers = 2
  MaxFrames = 4
  MaxEpoch = 2
  MaxFaults = 1
  MaxTrouble = 2
SYMMETRY HandlerSymmetry
INVARIANTS
  FeedTypeOK
  ShownNotOlder
  AgeHonest
  FeedRight
\* The bounds end it.
CHECK_DEADLOCK FALSE
