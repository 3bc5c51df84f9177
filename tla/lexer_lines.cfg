SPECIFICATION ReplySpec
CONSTANTS
  Alphabet = {":", " ", "eol", "PING", "!{user}"}
  MaxLength = 8
  Oddities = {"nul", "NAME", "!", "@{host}"}
  OddLength = 5
  ParamSlots = 2
  InlineSize = 4
INVARIANTS
  TypeOK
  StackSound
  FieldsAllocated
  MessageSignalled
  OnlyOverwrittenLeaked
  RepliesReadBack
CHECK_DEADLOCK FALSE
