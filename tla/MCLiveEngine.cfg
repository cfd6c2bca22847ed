SPECIFICATION Spec
CONSTANTS
  MaxEngines = 2
  MaxOrders = 2
  Grace = 0
VIEW LiveView
INVARIANTS
  TypeOK
  TraderIsRegistered
  TerminalIsTold
  OneLateOrder
  KillVerdictIsFinal
PROPERTY KeepsTradingRight
