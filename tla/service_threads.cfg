SPECIFICATION Spec
CONSTANTS
  Runners = {r1, r2}
  Pollers = {p1}
  User = u
  Ops = {o1, o2}
INVARIANTS
  TypeOK
  WorkCounted
  EachQueuedOnce
  NoLostWakeup
  WorkKeepsRunning
PROPERTY ImplementsHandlerQueue
SYMMETRY Symmetry
CHECK_DEADLOCK FALSE
