SPECIFICATION Spec
CONSTANTS
  Strategies <- OnlyNYKillzone
  Times <- MCTimes
  Shapes <- MCShapes
  EntryPeriod = 2
  ExitPeriod = 1
  Stop = 1
  Target = 2
  Slip = 1
  Histories <- MCHistories
  Splits <- MCSplits
PROPERTY NoLookAhead
CHECK_DEADLOCK FALSE
