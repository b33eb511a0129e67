\* Two detections in a frame, three ids, six frames: long enough for a track to
\* be seen twice, lost, aged out, found again and lost once more.
SPECIFICATION Spec
CONSTANTS
  Dets = {1, 2}
  MaxLost = 2
  Keep = 3
  MaxTracks = 3
  MaxFrame = 6
INVARIANTS
  TypeOK
  OneIdEach
  ListsRight
PROPERTIES
  TwoInARow
CHECK_DEADLOCK FALSE
