SPECIFICATION FairSpec
CONSTANTS
  MaxEngines = 1
  MaxOrders = 2
  Grace = 0
PROPERTIES
  StopEndsThread
  KillEndsThread
