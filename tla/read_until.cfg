SPECIFICATION Spec
CONSTANTS
  CR = CR
  LF = LF
  X = X
  Byte <- MCByte
  BufferDelta = 1
  ReadSize = 2
  MaxReadSize = 3
  MaxBytes = 8
  MaxUntried = 2
INVARIANTS
  TypeOK
  NoLineHeldBack
PROPERTIES
  ImplementsLineStream
CHECK_DEADLOCK FALSE
