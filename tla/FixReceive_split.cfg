\* The cache alone, as bin/liteExchange.ini configures it
SPECIFICATION Spec
CONSTANTS
  Modes = {"caching"}
  EndOf <- MCEndOf
  Eights = {1, 3, 6, 10, 12, 17}
  Capacity = 11
  HeaderSize = 3
  BodyStart = 2
  MaxMessages = 4
INVARIANT MessagesArriveWhole
CHECK_DEADLOCK FALSE
