SPECIFICATION FairSpec
CONSTANTS
  Threads = {t1, t2}
  User = u
  Writes = {"w1"}
  MaxEndpoints = 2
INVARIANTS
  TypeOK
  NoLostEdge
  CompletionsAreReal
PROPERTIES
  OpsComplete
CHECK_DEADLOCK FALSE
