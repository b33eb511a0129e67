\* Two admin calls at a time on one camera, with room for every reader.
SPECIFICATION AdminFairSpec
CONSTANTS
  Ids = {cam}
  Urls = {u1, u2}
  Handlers = {h1, h2}
  Threads = {t1, t2, t3}
  None = None
INVARIANTS
  AdminTypeOK
  Owned
PROPERTIES
  AdminNotWedged
  StopsEnd
\* The process exits.
CHECK_DEADLOCK FALSE
