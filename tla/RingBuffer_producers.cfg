SPECIFICATION Spec
CONSTANTS
  Producers = {p1, p2}
  Capacity = 4
  MaxMessages = 2
  IntMax = 7
  SizeModulus = 32
  NoMessage = NoMessage
INVARIANTS NothingLost
