SPECIFICATION Spec
CONSTANTS
  Symbols = {s1}
  Sessions = {n1}
  ClientIds = {c1}
  Prices = {1}
  TicksPerUnit = 1
  Quantities = {1}
  NewOrderSides = {"BUY", "SELL"}
  WorkCapacity = 1
  OutCapacity = 1
  MaxOrders = 1
  MaxCancels = 1
PROPERTIES CancelOfRestingOrderSucceeds
