SPECIFICATION Spec
CONSTANTS
  Threads = {t1}
  Pollers = {}
  MaxLines = 2
  MaxEndpoints = 2
  User = u
  App = {"destroy_on_disconnect"}
INVARIANT NoUndefinedBehaviour
CHECK_DEADLOCK FALSE
