SPECIFICATION Spec
CONSTANTS
  MaxEngines = 1
  MaxOrders = 1
  Grace = 0
PROPERTY NothingOpensAfterKill
