SPECIFICATION Spec
CONSTANTS
  Threads = {t1, t2}
  Pollers = {t2}
  MaxLines = 3
  MaxEndpoints = 2
  User = u
  App = {"connect_while_attached", "disconnect", "stop", "destroy_on_disconnect", "destroy_after_stop", "destroy_service"}
INVARIANTS
  UndefinedOnlyWhen
  EachLineOnce
  ParsedInOrder
CHECK_DEADLOCK FALSE
