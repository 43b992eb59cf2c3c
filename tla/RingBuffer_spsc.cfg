SPECIFICATION Spec
CONSTANTS
  Producers = {p1}
  Capacity = 2
  MaxMessages = 12
  IntMax = 3
  SizeModulus = 16
  NoMessage = NoMessage
INVARIANTS TypeOK NoSlotRace
PROPERTIES ImplementsQueue EverythingDelivered
