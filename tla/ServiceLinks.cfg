\* Two requests side by side, three in all, and two faults.
SPECIFICATION FairSpec
CONSTANTS
  Jobs = {j1, j2}
  None = None
  MaxAsked = 3
  MaxFaults = 2
INVARIANTS
  TypeOK
  RestartedFlows
PROPERTIES
  DetectionsHeal
\* Without requests and faults nothing is left to do.
CHECK_DEADLOCK FALSE
