\* No crash, no failing command, no removal is needed: one request is enough.
SPECIFICATION Spec
CONSTANTS
  Peers = {"ingest", "inference"}
  Viewers = {"display"}
  SERVICES <- MCServices
  STARTUP_ORDER <- MCStartupOrder
  Controllers = {1}
  MaxOps = 1
  MaxFaults = 0
  MaxSegs = 1
PROPERTIES
  AppliedFleetWide
CHECK_DEADLOCK FALSE
