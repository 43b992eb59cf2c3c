\* One book: three orders of one client id, limits of 1.5 and
\* 2 (read as 1 and 2), quantities for partial fills, a cancel, queues of one
SPECIFICATION Spec
CONSTANTS
  Symbols = {s1}
  Sessions = {n1}
  ClientIds = {c1}
  Prices = {3, 4}
  TicksPerUnit = 2
  Quantities = {1, 2}
  NewOrderSides = {"BUY", "SELL", "NON_SUPPORTED"}
  WorkCapacity = 1
  OutCapacity = 1
  MaxOrders = 3
  MaxCancels = 1
SYMMETRY Symmetry
INVARIANTS TypeOK BookUncrossed PriceTimePriority NoOverfill FillsNearClientLimit SharesConserved ClientsKnowTheBook
PROPERTIES ImplementsLifeCycle
