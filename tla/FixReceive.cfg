\* Messages of five, four, seven and four bytes; the first and the third have a second 8=
SPECIFICATION Spec
CONSTANTS
  Modes = {"caching", "oneByOne"}
  EndOf <- MCEndOf
  Eights = {1, 3, 6, 10, 12, 17}
  Capacity = 11
  HeaderSize = 3
  BodyStart = 2
  MaxMessages = 4
INVARIANTS TypeOK DamageIsConfined
PROPERTIES MessagesGetThrough
CHECK_DEADLOCK FALSE
