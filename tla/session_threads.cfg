SPECIFICATION FairSpec
CONSTANTS
  Threads = {t1, t2}
  Pollers = {}
  MaxLines = 2
  MaxEndpoints = 2
  User = u
  App = {"connect_while_attached", "disconnect", "stop", "destroy_on_disconnect", "destroy_service"}
INVARIANTS
  TypeOK
  ReadChainExclusive
  HangupEndsChain
  SignalLostOnlyWhen
  AbortedMeansClosed
PROPERTIES
  PeerCloseSignalled
  CutSignalled
  AttachReturns
CHECK_DEADLOCK FALSE
