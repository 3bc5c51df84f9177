SPECIFICATION Spec
CONSTANTS
  Alphabet = {":", " ", "eol", "!", "PING"}
  MaxLength = 7
  Oddities = {}
  OddLength = 0
  ParamSlots = 2
INVARIANT UserStored
CHECK_DEADLOCK FALSE
