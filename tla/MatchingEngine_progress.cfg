\* Two symbols whose workers share the reactor and the outgoing message processor
SPECIFICATION Spec
CONSTANTS
  Symbols = {s1, s2}
  Sessions = {n1}
  ClientIds = {c1}
  Prices = {1}
  TicksPerUnit = 1
  Quantities = {1}
  NewOrderSides = {"BUY", "SELL", "NON_SUPPORTED"}
  WorkCapacity = 1
  OutCapacity = 1
  MaxOrders = 2
  MaxCancels = 1
PROPERTIES EveryOrderAnswered
