SPECIFICATION FairSpec
CONSTANTS
  Threads = {t1, t2}
  Async = {w1, w2}
  Sync = {s1}
  MaxSize = 1
  Window = 2
  Strand = strand
INVARIANTS
  TypeOK
  OneOwner
  StrandSound
  BegunInCallOrder
  SentWhenOk
  ContiguousUnlessOverlapping
  DestroyHarmsOnlyPartial
PROPERTY ClosingReleasesBuffers
CHECK_DEADLOCK FALSE
