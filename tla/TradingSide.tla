----------------------------- MODULE TradingSide -----------------------------
(***************************************************************************)
(* The components around the live engine, side by side.  They share no     *)
(* state: a step of the whole is a step of one of them, in any order.      *)
(***************************************************************************)
EXTENDS Integers

CONSTANTS
  Accounts, NoAccount, BridgeTickets, BridgeThreads, Loop, Retries,
  RequireSL,                                                 \* MT5Bridge
  Ids, JobThreads, Worker, MaxRuns,                          \* BacktestJobs
  Callers, CallKeys, Permits, Spacing, Ttl, MaxRetries,      \* TVClient
  PreviewKeys, Requests, PreviewTtl, EngineTtl,              \* TVPreview
  PaperTickets, Quotes, Prices, Cost,                        \* PaperBroker
  Symbols, Bucket, Equities, DefaultEquity, Profits, StopDistances, RiskPcts,
  MinLot, MaxRiskPct, MaxDailyLossPct, MaxDrawdownPct, MaxOpen, MaxPerSymbol,
  MaxCorrelated, MaxHeld, MaxRealized,                       \* RiskGate
  Strategies, Times, Shapes, EntryPeriod, ExitPeriod, Stop, Target, Slip,
  Histories, Splits                                          \* Backtest

VARIABLES
  login, client, holder, book, req,                          \* MT5Bridge
  rows, list, rq, mem, curve, job, runs,                     \* BacktestJobs
  caller, free, spacer, since, wait, age,                    \* TVClient
  tv, redisUp, tiers, engine, ask, served,                   \* TVPreview
  quote, ticker, orders, earned,                             \* PaperBroker
  reporter, equity, peak, realized, disabled, counted, held, order, \* RiskGate
  strategy, bars, windows                                    \* Backtest

bridge  == <<login, client, holder, book, req>>
jobs    == <<rows, list, rq, mem, curve, job, runs>>
calls   == <<caller, free, spacer, since, wait, age>>
preview == <<tv, redisUp, tiers, engine, ask, served>>
paper   == <<quote, ticker, orders, earned>>
risk    == <<reporter, equity, peak, realized, disabled, counted, held, order>>
test    == <<strategy, bars, windows>>
vars    == <<bridge, jobs, calls, preview, paper, risk, test>>

Bridge  == INSTANCE MT5Bridge WITH MaxTicket <- BridgeTickets, Threads <- BridgeThreads
Jobs    == INSTANCE BacktestJobs WITH Threads <- JobThreads
TV      == INSTANCE TVClient WITH Keys <- CallKeys
Preview == INSTANCE TVPreview WITH Keys <- PreviewKeys
Paper   == INSTANCE PaperBroker WITH MaxTicket <- PaperTickets
Risk    == INSTANCE RiskGate
Test    == INSTANCE Backtest

(* What the constants may be.                                              *)
ASSUME TradingParameters ==
  /\ Bridge!Parameters /\ Jobs!Parameters /\ TV!Parameters /\ Preview!Parameters
  /\ Paper!Parameters /\ Risk!Parameters /\ Test!Parameters

-----------------------------------------------------------------------------
Init ==
  /\ Bridge!Init /\ Jobs!Init /\ TV!Init /\ Preview!Init
  /\ Paper!Init /\ Risk!Init /\ Test!Init

Next ==
  \/ Bridge!Next  /\ UNCHANGED <<jobs, calls, preview, paper, risk, test>>
  \/ Jobs!Next    /\ UNCHANGED <<bridge, calls, preview, paper, risk, test>>
  \/ TV!Next      /\ UNCHANGED <<bridge, jobs, preview, paper, risk, test>>
  \/ Preview!Next /\ UNCHANGED <<bridge, jobs, calls, paper, risk, test>>
  \/ Paper!Next   /\ UNCHANGED <<bridge, jobs, calls, preview, risk, test>>
  \/ Risk!Next    /\ UNCHANGED <<bridge, jobs, calls, preview, paper, test>>
  \/ Test!Next    /\ UNCHANGED <<bridge, jobs, calls, preview, paper, risk>>

Spec == Init /\ [][Next]_vars

(* What the bridge and the backtests assume of calls and threads.          *)
FairSpec == Spec /\ Bridge!Fairness /\ Jobs!Fairness

-----------------------------------------------------------------------------
(* The types of all of them.                                               *)
TypeOK ==
  /\ Bridge!TypeOK /\ Jobs!TypeOK /\ TV!TypeOK /\ Preview!TypeOK
  /\ Paper!TypeOK /\ Risk!TypeOK /\ Test!TypeOK

(* While the bridge talks an order over with the terminal, no /connect     *)
(* takes the session to another account (MT5Bridge).                       *)
OneAccountPerOperation == Bridge!OneAccountPerOperation

(* A close with its retries closes its own ticket only (MT5Bridge).        *)
CloseHitsOnlyItsTicket == Bridge!CloseHitsOnlyItsTicket

(* Whoever holds the session of the terminal gives it back (MT5Bridge).    *)
SessionIsGivenBack == Bridge!SessionIsGivenBack

(* The row of a backtest says completed only when its curve is on disk     *)
(* (BacktestJobs).                                                         *)
CompletedHasCurve == Jobs!CompletedHasCurve

(* A backtest that starts gives a verdict (BacktestJobs).                  *)
JobsGiveAVerdict == Jobs!JobsGiveAVerdict

(* Calls to TradingView keep their distance (TVClient).                    *)
CallsAreSpaced == TV!CallsAreSpaced

(* No preview is older than the caches together (TVPreview).               *)
StalenessIsBounded == Preview!StalenessIsBounded

(* The paper broker implements Broker (PaperBroker).                       *)
IsABroker == Paper!IsABroker

(* No order risks more than the cap, the smallest lot excepted (RiskGate). *)
OrderRiskIsCapped == Risk!OrderRiskIsCapped

(* Once the drawdown has disabled trading no order is sent (RiskGate).     *)
DisabledIsFinal == Risk!DisabledIsFinal

(* Later bars change no signal, and no bar of a test window is trained on  *)
(* (Backtest).                                                             *)
NoLookAhead == Test!NoLookAhead /\ []Test!OutOfSample

(* Every signal is in a trade, at the worst of the prices its last bar     *)
(* passes, or in a position still open, and a closed trade stays as it is  *)
(* (Backtest).                                                             *)
TradesAreAccounted == Test!TradesAreAccounted
=============================================================================
