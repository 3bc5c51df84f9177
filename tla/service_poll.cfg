SPECIFICATION FairSpec
CONSTANTS
  Runners = {r1}
  Pollers = {p1}
  User = u
  Ops = {o1, o2}
PROPERTIES
  QueuedIsRun
  StopReleasesAll
CHECK_DEADLOCK FALSE
