\* One reader against a writer that laps a ring of two slots and dies twice.
SPECIFICATION FairSpec
CONSTANTS
  Readers = {r1}
  Depth = 2
  Words = 2
  Tries = 2
  MaxFrame = 3
  MaxEpoch = 2
INVARIANTS
  TypeOK
  HitIsRight
PROPERTIES
  ImplementsStore
  Heals
