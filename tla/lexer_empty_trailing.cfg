SPECIFICATION Spec
CONSTANTS
  Alphabet = {":", " ", "eol", "PING"}
  MaxLength = 5
  Oddities = {}
  OddLength = 0
  ParamSlots = 2
INVARIANT ShortOnlyWhenIncomplete
CHECK_DEADLOCK FALSE
