\* Two accounts, so that a login may be of another one; one thread besides the
\* loop; one order, whose ticket requests may name before it is given and after
\* its position is closed; a call is repeated once.  One backtest on two threads
\* and in the worker at once.  More callers than permits.  One preview may read
\* a cache while the other fills it.  Symbols of one bucket.
CONSTANTS
  Accounts = {"a1", "a2"}
  NoAccount = "noaccount"
  BridgeTickets = 1
  BridgeThreads = {"t1"}
  Loop = "loop"
  Retries = 2
  RequireSL = TRUE
  Ids = {"i1"}
  JobThreads = {"t1", "t2"}
  Worker = "worker"
  MaxRuns = 3
  Callers = {"c1", "c2", "c3"}
  CallKeys = {"k1"}
  Permits = 2
  Spacing = 2
  Ttl = 2
  MaxRetries = 2
  PreviewKeys = {"k1"}
  Requests = {"r1", "r2"}
  PreviewTtl = 2
  EngineTtl = 2
  PaperTickets = 2
  Quotes <- MCQuotes
  Prices = {4}
  Cost = 1
  Symbols = {"x", "y"}
  Bucket = {"x", "y"}
  Equities <- MCEquities
  DefaultEquity = 200
  Profits <- MCProfits
  StopDistances = {0, 1, 3}
  RiskPcts = {1, 4}
  MinLot = 1
  MaxRiskPct = 2
  MaxDailyLossPct = 5
  MaxDrawdownPct = 15
  MaxOpen = 3
  MaxPerSymbol = 1
  MaxCorrelated = 2
  MaxHeld = 2
  MaxRealized = 20
  Strategies = {"donchian", "ema_adx", "ema_rsi", "tv_signal", "grid_bot"}
  Times <- MCTimes
  Shapes <- MCShapes
  EntryPeriod = 1
  ExitPeriod = 2
  Stop = 2
  Target = 2
  Slip = 1
  Histories = {30, 47, 100}
  Splits = {1, 3, 5}
SPECIFICATION MCSpec
INVARIANTS
  TypeOK
  OneAccountPerOperation
  CompletedHasCurve
  StalenessIsBounded
  OrderRiskIsCapped
PROPERTIES
  SessionIsGivenBack
  JobsGiveAVerdict
  CallsAreSpaced
  IsABroker
  NoLookAhead
  TradesAreAccounted
CHECK_DEADLOCK FALSE
