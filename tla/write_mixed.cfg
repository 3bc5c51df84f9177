SPECIFICATION Spec
CONSTANTS
  Threads = {t1, t2}
  Async = {w1, w2}
  Sync = {}
  MaxSize = 1
  Window = 1
  Strand = strand
INVARIANT LinesContiguous
CHECK_DEADLOCK FALSE
