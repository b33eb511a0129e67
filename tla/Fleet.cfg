SPECIFICATION Spec
CONSTANTS
  Peers = {"ingest", "inference"}
  Viewers = {"display"}
  SERVICES <- MCServices
  STARTUP_ORDER <- MCStartupOrder
  Controllers = {1}
  MaxOps = 2
  MaxFaults = 1
  MaxSegs = 2
INVARIANTS
  TypeOK
  Handshake
PROPERTIES
  ComesUp
CHECK_DEADLOCK FALSE
