\* Cooldown > Stale > Every >= Sustain, as in the program, and frames of age 1.
SPECIFICATION Spec
CONSTANTS
  Streams = {"entrance", "aisle"}
  Tracks <- MCTracks
  Signals = {0, 100}
  Sustain = 2
  Cooldown = 5
  Every = 2
  Stale = 3
  PruneEvery = 1
  MaxAge = 1
  MaxTime = 8
INVARIANTS
  TypeOK
  EvidenceBounded
  NoMissedAlert
  Forgotten
PROPERTIES
  OnTime
