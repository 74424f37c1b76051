SPECIFICATION FairSpec
CONSTANTS
  NSlots = 2
  Callers = {daemon, cli}
  Daemon = daemon
  Nobody = nobody
  RingSize = 1
  Batch = 1
  Floods = TRUE
  MaxFails = 1
  MaxTampers = 1
INVARIANTS VerdictExact
PROPERTIES BaselineStable OncePerEdge TamperNoticed
CHECK_DEADLOCK FALSE
