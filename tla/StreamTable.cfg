\* Cameras that are written by one thread, and one that a second thread may write.
SPECIFICATION Spec
CONSTANTS
  Cameras = {"entrance", "aisle", "till"}
  Stored <- ShortStored
  Doubled = {"till"}
  Rows = 3
  Writers = {w1, w2}
  Readers = {r1}
  MaxCrash = 2
  NoId = NoId
SYMMETRY Threads
INVARIANTS
  TypeOK
  RowsRight
  FailuresHonest
