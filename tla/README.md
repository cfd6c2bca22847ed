# Forex bot: specifications and proofs

TLA+ modules of the trading system in this repository, the TLC configurations
that check them on small instances, and proofs that TLAPS checks. Paths are
relative to the repository root (`src/` in `PROJECT.json`). `PROJECT.json` gives,
for every definition that models code, the lines it stands for.

## 1. The system and its parts

A user configures *strategy instances* in the backend (FastAPI, PostgreSQL,
Redis). An instance that is live is traded by an *engine* in the trading-engine
process, which sends its orders to an *MT5 bridge*, a process next to the
MetaTrader terminal. The engine reports signals, trades and health to the
backend's internal API. Around them are billing, authentication, administration,
backtests, a TradingView signal source and email.

| Part | State it keeps | Operations | What is hard | What makes it correct |
|---|---|---|---|---|
| **Live engine, registry, breaker** (`trading-engine/live/engine.py`, `router.py`, `circuit_breaker.py`) | registry of engines in memory; per engine a status, a stop event, a thread, breaker state | `start`, `stop`, `kill`; the loop's pass: verdict, halt, bar, order, refresh; `on_kill` by request or by the loop itself | the loop and a request run without a common lock; joins that time out after 5 s; bridge calls that fail or time out after 10 s; process crash | one engine trades at a time and a kill reaches it; a stop or a kill ends the thread; a kill verdict is final; bounded late orders |
| **MT5 bridge** (`mt5-bridge/`) | the one MT5 session: connected, login, lock | connect, disconnect, positions, order, close, modify, stream | one session for all engines; retries around `order_send`; failed re-login | an operation stays with its account; the session is always given back |
| **Reports of the engine and internal API** (`live/internal_client.py`, `backend/app/api/internal.py`) | trades, signals, health columns of the instance's row | HMAC-signed POSTs | lost, repeated, reordered reports; nonces that are not stored; commits next to a kill | a report does not undo a kill |
| Engine endpoints, monitor, TV engine, engine gate (`live/server_endpoints.py`, `monitor.py`, `tv_signal_engine.py`, `gate.py`) | none of their own | wrappers, summaries, pure checks | - | - |
| **Risk manager and sizing** (`risk/`) | equity, peak, day's loss, positions | evaluate, equity and trade updates; sizing, rounding | order of the checks, boundaries, rounding up to the minimum lot | an approved order respects its cap; a drawdown ends trading |
| **Strategy instances and live gate** (`backend/app/services/strategy_service.py`, `live_gate_service.py`, `oms_client.py`) | the rows `strategy_instances` | create, update, preflight, go-live, revert, start, stop, kill; administrators' bulk kills | read, await, write with no lock; commits that merge column by column; answers that change while they are asked for | a kill is final, its cooldown holds, a live instance's parameters are locked, a go-live has met every check |
| **Backtest jobs** (`trading-engine/server.py`, `workers/`, `backend/.../backtest_service.py`) | job state in memory, a row, a queue, a file | run, poll, enqueue, work | crash of a worker, two states of one job, check-then-act | a completed job has its curve; a job that starts gives a verdict |
| **TradingView client, preview** (`tradingview/client.py`, `tradingview_service.py`) | throttle, three caches | get_analysis, preview, health probe | semaphore with a spacing lock, retries, caches behind caches | calls keep their distance because the wait is slept off under the lock; what is served is bounded in age |
| **Paper broker**, MT5 adapter (`broker/`) | balance, orders, positions | place, close, cancel, modify, quotes | fills, stops and cancellations by one quote | a ticket has one life; the balance moves with closed positions |
| **Backtests** (`backtest/`, `strategies/`) | the bars, the windows | signals, simulated trades, walk forward | session dates, ranges filled forward, two prices in one bar, gaps, window borders | no decision uses a later bar; every signal is accounted for, no exit is better than the worst price passed |
| **Billing** (`billing_service.py`) | subscriptions, stripe_events | checkout, trial, cancel, grant, webhooks | repeated and reordered events, failing events | one effect per event; in order, Stripe's status |
| **Authentication** (`auth_service.py`, `security.py`) | users, revoked ids in Redis | signup, login, refresh, logout, reset, verify, TOTP | rotation in several steps, Redis outage, expiring entries | a token given back stays refused |
| **Administration** (`admin_service.py`) | kill switch and approvals in Redis | engage, disarm, roles, bans, delete user | quorum read back in another step, partial failure between Redis and the database | two administrators where there are two |
| **Broker accounts** (`broker_service.py`, `encryption.py`) | rows with sealed credentials | create, rename, reseal, delete, test | commits that merge, two key versions at once | credentials open, deletions stay |
| **Email** (`email_service.py`, `email_worker.py`) | a Redis list | send, pop, deliver | pushes without an answer, which the Redis client repeats; dying workers | no mail twice but for a push that was done and not answered |
| **Rate limiter** (`rate_limit.py`) | counters in Redis | check | expiry under stalled calls, failing Redis | a window keeps its limit |
| Schema (`alembic/`, `migrate_on_boot.py`) | tables, codes, revision, advisory lock | upgrade, downgrade, boot | one transaction over all revisions; what driver and database refuse | an upgrade ends at the revision it was asked for |
| Partitions (`maintain_partitions.py`) | monthly partitions | create ahead, drop old | refused statements, months running out, rows in the default partition | the default partitions stay empty |
| **MT5 supervisor** (`infra/scripts/mt5-supervisor.py`) | the connection, two tasks, a cache of order results in memory | handshake, heartbeat, order intents, queries, reconnect, exit | the backend repeats intents; the connection ends under an order; tasks cancelled at an await; the service manager starts a new process | an intent is sent once per run and every repetition gets the same result; a dead connection is left |
| Scorer, audit, configuration, bridge stub, frontend, infrastructure | - | computations, logging, pages, scripts | - | - |

Parts in bold are modelled. How they interact: a request thread of
trading-engine calls `router.start/stop/kill` under `router._LOCK`; an engine calls
the bridge by HTTP and reports to the backend by HTTP; the backend calls the
engine through `OMSClient` on go-live and revert only (a stop or a kill of an
instance never reaches the engine, and `start_live`'s payload lacks fields
`StartLiveRequest` requires, so that an online go-live is always refused with 422:
the two state machines are connected by hand today, which is why they are two
modules and not a composition). The other parts of the backend meet in tables, and each
module has the tables of its part: a subscription or a kill that `GoLive` asks about turns
there as `Billing` and `StrategyInstance` let it turn.

## 2. Modules

| Module | What it is |
|---|---|
| `TradingRight` | abstract: at most one holder of the right to trade on an account; a holder may be told to stop and then owes at most the bar it works on |
| `LiveEngine` | engine objects, registry, threads, breaker flags, orders at the bridge |
| `MCLiveEngine` | its small instance: constants, a view, cfgs for safety, liveness and three findings |
| `LiveEngineProofs` | its types, its invariants and the refinement of `TradingRight`, proved |
| `StrategyInstance` | a user's rows, requests under way, an administrator's bulk kill |
| `MCStrategyInstance` | its small instance, with symmetry, cfgs for safety and one finding |
| `StrategyInstanceProofs` | its types, its invariant and its three action properties, proved |
| `Supervisor` | runs of the supervisor, its connection and tasks, the cache, orders at the terminal |
| `MCSupervisor` | its small instance, cfgs for safety with liveness and for one finding |
| `SupervisorProofs` | its types and its three invariants, proved |
| `MT5Bridge` | the bridge's session, its lock, requests on threads and on the loop, the terminal's book |
| `BacktestJobs` | a backtest's row, list, queue, state in memory and curve, in two processes that crash |
| `TVClient`, `TVPreview` | the throttle, cache and retries of the TradingView client; a preview through the caches of backend and engine |
| `Broker`, `PaperBroker` | abstract: the life of a ticket; the paper broker that implements it |
| `RiskGate` | risk manager, sizing, and what the engine asks and tells them |
| `Backtest` | signals bar by bar, simulated trades, walk-forward windows |
| `TradingSide` | the last six parts side by side, and what each of them promises under one name |
| `TradingSideProofs` | bridge, backtest jobs, TradingView client and preview, risk gate: their invariants, proved |
| `SimulationProofs` | the paper broker's refinement of `Broker`, the backtests, the types of `TradingSide`, proved |
| `MCTrading`, `MCBacktest` | a small instance of `TradingSide`; one of `Backtest`, for one finding |
| `Billing` | subscription rows, Stripe's events, administrators and users who write the same rows |
| `Administration` | administrators, approvals in Redis, the kill switch and its flag |
| `EmailQueue`, `RateLimit`, `Sessions` | the mail queue; the limiter's window; accounts and refresh tokens |
| `GoLive` | the nine checks of the live gate, asked one after the other |
| `BrokerAccounts` | account rows, merging commits, sealed credentials |
| `Reports` | the engine's posts, the network, the handlers, next to a kill |
| `BackendSide` | the last eight parts side by side, and what each of them promises under one name |
| `BackendSideProofs` | live gate, sessions, administration: their invariants, proved |
| `DeliveryProofs` | what may arrive or go out more than once: Stripe's events and mails, proved |
| `StoredProofs` | accounts, reports, limiter, and the types of `BackendSide`, proved |
| `MCBackend` | a small instance of `BackendSide` |

`TradingSide` and `BackendSide` are compositions of components that share no state: a step of the
whole is a step of one of them (and leaves the others' variables alone), in any order. The theorems
are about these specifications. The runs look at one component at a time: in `MCTrading` and
`MCBackend` the variable `part`, chosen at first, says which one moves, and the others keep their first
values. Every behaviour of the whole is, seen from one component, a behaviour of that component with
stutters, so that nothing is lost but the product of the state spaces. One run stands for all
components of a side because the question is the same: does the component keep its promise under the
interleavings, failures and repetitions it is exposed to? The modules state what their constants may be as
`Parameters`, which the two compositions assume of their instances (`TradingParameters`,
`BackendParameters`).

Definitions that a comment starts with *Slip:* are plausible mistakes. Each is
substituted for the definition after it to see that the property named in
`PROJECT.json` notices ("mutants").

### LiveEngine and the code

* `pc[Router]` is the request thread that holds `router._LOCK`; `pc[e]` is the
  thread `LiveEngine._loop` of the e-th engine object. `KillStep(p)` is `on_kill`,
  which both run. Statements that touch state another thread reads are steps of
  their own: the status test and the status write of the loop (`ResumeTest`,
  `Resume`), the listing and each closing of `on_kill`, the stop event after them.
* A bridge call is a step when it is sent and a step when it answers, fails or
  times out. An order keeps its own life at the bridge (`fate`): it may be executed
  after its caller has given up.
* `silent` counts loop passes without a good bridge call, up to one more than
  `Grace` (`disconnect_grace_sec`). A new equity may be under the drawdown limit
  or not, a fill may slip beyond the alarm or not: free choices.
* `JoinReturns` is `join(timeout=5)`. A thread asleep in `_sleep_until_next_bar`
  waits on the stop event and leaves at once, so the join sees it end; anywhere else the
  join may give up first.
* `Restart` is a crash of the process: registry, threads and breaker state are lost,
  positions stay.
* Left out: prices, lots and signals, the risk gate (a free choice in `NoTrade`),
  heartbeats that only report, `emit_trade` (its result is ignored), and the
  daily-loss breaker, which nothing in live trading feeds (`on_trade_closed` has no
  caller there).

### StrategyInstance and the code

* A request is `Begin` (the SELECT of `_own_instance` and the handler's checks on
  what it read), its waits (`gate`, `oms`), and `Commit` or `Abort`. A request
  that its checks refuse changes nothing and is no step.
* `Merged` is SQLAlchemy's flush: the session keeps the object as first read
  (`expire_on_commit=False`, no refresh before the commit, a second SELECT does not
  overwrite a loaded object) and updates only columns that differ from it. The
  cooldown query, in contrast, sees the rows as they are (`CooldownClear`).
* `AdminMatches` is a bulk `UPDATE ... WHERE`: the rows it matched stay locked until
  `AdminCommits`, and commits of requests wait for them.
* A time is "null", "recent" (within 24 h) or "past"; `DayPasses` ages one row.
* `Create` with mode "live" makes a live row without the gate, as the code does. The
  cooldown property therefore speaks of go-lives.

### Supervisor and the code

* `proc` is where `run()` is; `hb` and `cmd` are the two tasks of `_run_once`'s
  `TaskGroup`. A task that raises is "raised"; the group then cancels the other at
  its await and raises an `ExceptionGroup`, which the `except` clause of `run()` does
  not match: the process ends (`AfterGroup`). Only failures of the dial itself back off.
* `SendOrder`, `TerminalAnswers`, `Record` and `Reply` are the parts of one pass of
  `_command_loop` between its awaits. What was received before the connection ended is still read.
* `atTerminal` counts orders the terminal is working on. One whose task was cancelled
  or whose process is gone goes on (`OrphanEnds`).
* `calls` and `told` are history: what this run has sent to the terminal and replied.
* The service manager's restart is `Start`; `Crash` may come at any time.
* Left out: metrics, the content of heartbeats and snapshots, the re-initialisation of
  the terminal after a backoff (its result is ignored).
* After the stop event the heartbeat loop returns and the command loop goes on until
  the connection ends; the model has this behaviour, and no property forbids it.

### The trading side and the code

* `MT5Bridge`: `holder` is `MT5Client._lock`. A request is `Acquire` and then the steps of its
  conversation with the terminal ("list", "tick", "send"), each of which may raise, before or
  after it took effect; `with_retry` repeats it. `client` is what the object believes of its
  login, `login` what the terminal has. Asynchronous endpoints share one worker, the
  event loop, which blocks while it waits for the lock.
* `BacktestJobs`: `job[r]` is a runner inside `run_backtest_job`: the row says running, the
  curve is written, the row is completed, or failed; each write of the row may fail and is then
  swallowed. `mem` is the server's own status of the job. `RunBacktest` looks at it and `Accept` writes
  it, in another step, with nothing between them to keep other requests out.
* `TVClient`: `free` is the bounded semaphore, `spacer` the holder of the spacing lock,
  `since` the ticks since the last call. `TakeLock` computes `wait` from it once, as `acquire` does before it
  sleeps; `LeaveAcquire` comes when the wait is slept off. `TVPreview`: `tiers` are Redis and the process's fallback,
  `engine` the engine's cache; every entry has an age.
* `PaperBroker`: `OnQuote` is `on_quote`, which fills, stops and takes profit for every order at
  once. Prices are pips around one price that orders name. `earned[t]` is what ticket t has added to the
  balance; the balance is the sum.
* `RiskGate`: `PlaceOrder` is the part of `_on_new_bar` that sizes, evaluates and places.
  `counted` is what the manager was told, `held` what is at the broker: the engine never tells. The peak
  starts at the default equity of 10,000 (`DefaultEquity`) or the account's, whichever is larger, so that a
  smaller account may be disabled by its first update.
  Lots are integers, in steps of the broker. A size of 0 is not evaluated, an order without a stop
  cannot be trimmed (the division raises), and the bridge refuses a lot of 0.
* `Backtest`: bars are given one at a time. `Signals(h)` and `Trades(h)` are functions of the
  whole history `h`, as the code's are of the frame; `Simulation(h)` is a recursive function, the loop of
  `_simulate_trades` after each bar. `Parameters` asks that a bar's close is between its low and its
  high and that prices, distances and the slippage are not negative. Indicators that are running values are
  fields of the bar, since they cannot look ahead; what can (session dates, shifts, `ffill`, group-wise
  ranges) is computed as in the code. `WalkForward` gives the windows for a length (`Window` is one
  pass of the loop, which ends before the first window without a bar to test on).

### The backend and the code

* In `Billing`, `StrategyInstance`, `BrokerAccounts` and `Reports` a request reads a row into
  its session, awaits, and its commit writes the columns that differ from what it read. An
  INSERT that a unique index refuses rolls all back. `Billing` keeps apart what Stripe has
  (`stripe`), what it sent (`sent`, any of it again at any time) and what was handled (`seen`).
* `Administration`: `Ask` passes the guards and counts the administrators; `Adds` writes the
  approval, `Collects` reads the set back, `Flags` and `Clears` write the kill switch's key,
  `Applies` commits the bulk write. Any of these may fail; keys expire.
* `EmailQueue`, `RateLimit`, `Sessions`: a call of Redis that fails may have had its effect. In `EmailQueue`
  the client sends a command up to `Tries` times (`retry_on_timeout`; redis-py is not pinned above 5.0.1,
  and newer ones retry by default): a job is told apart by the attempt that made it, and may be pushed
  without an answer by each.
  The limiter's EXPIRE is one step with its INCR, or does not happen; time between the two
  would only let the key live longer.
* `GoLive`: `loaded` is what a request keeps from objects it read (the user's row, `started_at`),
  `passed` what it has found to hold, `held` (history) what held at any time since it began.
  Everything the checks ask about may turn between two of them.
* `BrokerAccounts`: an encryption is a number; `Opens` says that ciphertext and nonce are of one
  encryption, by this process's key.
* `Reports`: `Config` is how the two services may be deployed. Posts are of the engine as its
  client is written, or of a peer that sends what the backend asks for.

## 3. What the runs check

| Run | Question | Bounds | Distinct states |
|---|---|---|---|
| `engine_safety` | do the registry, the event and the loop keep one trading engine, which a kill reaches, with at most one late order, and refine `TradingRight`? | 2 engines, 2 orders, grace 0 | 2.4 million |
| `engine_liveness` | does a stop or a kill always end the thread? | 1 engine, 2 orders, grace 0 | 24 thousand |
| `kill_nothing_opens` | *finding*: a position opens after the kill returned | 1 run, violated | |
| `disconnect_halt` | *finding*: a disconnect halt never ends | under fairness and a reachable bridge, violated | |
| `breaker_kill_report` | *finding*: a kill by the breaker is not reported | violated | |
| `instance_rows` | is a kill final, its cooldown kept, and are live parameters locked, once no earlier reader is under way? | 2 instances, 2 requests, 2 parameter values | 2.4 million |
| `killed_is_final` | *finding*: a kill is lost to a request that read the row before | violated | |
| `supervisor_runs` | is an intent sent once per run and answered alike, is "ok" real, is a dead connection always left? | 2 ids, 2 unread messages, an id repeated until it fired twice | 325 thousand |
| `never_fires_twice` | *finding*: a repeated intent is executed again by the next run | violated | |
| `trading_side` | do the components around the engine keep their promises? | below | 230 thousand |
| `ny_looks_ahead` | *finding*: a signal of the New York strategy changes when later bars come | 5 bars, violated | |
| `backend_side` | do the components of the backend keep theirs? | below | 1.52 million |

Properties of `LiveEngine`:

* `TraderIsRegistered`: an engine that may still trade is the registered one, or the
  one `router.start` is about to register.
* `TerminalIsTold`: an engine shown as stopped or killed, which `router.start` will
  replace, has its stop event set or is being killed.
* `OneLateOrder`: at most one order of an engine is sent after its stop event is set.
* `KillVerdictIsFinal`: after a KILL verdict no further bar is worked on.
* `KeepsTradingRight`: refinement of `TradingRight`.
* `StopEndsThread`, `KillEndsThread`: liveness.

Properties of `StrategyInstance`:

* `KillHasItsTime`: a killed row has a `stopped_at`, which the cooldown needs.
* `KilledOnceQuiet`: a kill is final once requests that read the row before it are over.
* `CooldownOnceQuiet`: while such a kill is less than 24 h old no go-live of the user
  passes the gate.
* `ParamsLockedWhileLive`: a live row keeps its high-risk columns once no update that
  read it earlier is under way.

Properties of `Supervisor`:

* `SentOnceARun`: one run calls `mt5_send_order` at most once for an id. The cache
  is written after the await, so this rests on the loop working on one intent at a time
  and on a failed task group ending the process: were the `ExceptionGroup` caught and
  the dial repeated, as the backoff is there for, the property would fail (that is its mutant).
* `RepliesAgree`: every reply of a run for an id carries the remembered result.
* `OkIsExecuted`: the backend is told "ok" only of an executed order.
* `LinkLossIsNoticed`: liveness; the process does not stay on a connection that has ended.

Properties of `trading_side` (`MCTrading`):

* `OneAccountPerOperation`: while an order, a close or a modify is talked over with the terminal,
  no login of another account comes under it.
* `SessionIsGivenBack`: liveness; no path of a request keeps the session's lock.
* `CompletedHasCurve`: a row that says completed has its file, whatever crashed or was
  written twice. `JobsGiveAVerdict`: liveness; the server does not go on answering "running" for a
  job that has ended.
* `CallsAreSpaced`: two calls to TradingView start `Spacing` apart, retries included. Nothing in the model
  looks at the spacing when a call starts: a caller has computed its wait once, and what makes it
  right is that nobody else can call before it is slept off. Were the lock released before the sleep,
  the property would fail (that is its mutant).
* `StalenessIsBounded`: a preview is no older than the two times to live together.
* `IsABroker`: refinement; `PaperBroker` implements `Broker`.
* `OrderRiskIsCapped`: sizing, rounding, trimming and rounding again stay under the cap, but for the
  smallest lot.
* `NoLookAhead`: later bars change no earlier signal (for the strategies but the New York one), and no
  test window is trained on (`OutOfSample`).
* `TradesAreAccounted`: each simulated trade is that of its signal and ends on the first bar that passes its
  stop or its target (trades at or beyond it, so that a gap counts), at no better than the worst of
  the prices passed; the next begins later; every signal falls into a trade or behind a position that stays
  open; and later bars leave closed trades alone. It does not say that the exit is a price of the bar, nor that a
  position is closed in the end, because neither is so (`GapsAreRespected` and `EndCloses`, section 5).

Properties of `backend_side` (`MCBackend`):

* `EachEventOnce`: an event's effect is committed exactly with its row, once at most.
  `LastEventDecides`: handled in order, the newest event leaves Stripe's status.
* `TwoMustAsk`: a request that found two administrators is granted only when two have asked for
  that operation.
* `TwiceOnlyIfUnclear`: a job is delivered once, and of the jobs of one mail only one is that was not pushed
  without an answer. Every such push, the Redis client's own repetitions included, may be one mail
  more, also when the push succeeded in the end.
* `LimitIsKept`: no window lets more through than the limit, but for calls a failing Redis lets
  through.
* `GivenBackIsRefused`: a refresh that begins after its token was given back, and while Redis answers, is
  refused to the end of the token's life.
* `EveryCheckHeld`: a gate passes only if each check held at some moment of the request. (They need not
  have held together: nothing locks what they ask.)
* `CommitsKeepOthersWrites`: however commits merge, credentials open and deleted accounts
  stay deleted (`BrokerAccounts`), and a killed instance stays killed under reports (`Reports`).

"Once quiet" is the strongest form that holds. Without it `KilledIsFinal` is
violated, and that is a finding.

**Bounds.** Two engines show an old thread next to a new one, which is where the
hazards are: the router's lock admits one request at a time, and a third engine
meets the same situation with two predecessors that have been told to stop. Two
orders show an order in flight next to a listed position, and a second late order. The proofs need
neither bound. For the rows, two instances show a kill of one under a go-live of the
other; two requests show every pair of handlers on one row, and the administrator
is a third actor. The liveness of a thread concerns the thread alone: requests choose
which engine they stop or kill, so one engine is enough for it. For the supervisor two ids show
a repetition of one under an order of the other, and two firings of an id are what
its finding needs.

For the components of `trading_side` and `backend_side`: two or three of whatever races (threads, callers,
requests, workers, administrators), since every property relates one actor to another;
one of what they race for (a session, a backtest, a key, a row), except two accounts
of the bridge, two tickets of the paper broker, and two users of one address; one more of
every counter than its limit (permits, requests in a window, retries, positions of a bucket). `Backtest` has
five bars over two days with shapes that reach a stop, a target or both, and one that opens beyond
them. Time runs a little beyond the longest time to live. `EmailQueue` sends an LPUSH twice, so
that a push may succeed after one that was done without an answer, or fail after two. A user of `GoLive` lacks at most one thing at first and
two changes happen while a request is under way: a check's answer and one that turns it
back. In `BrokerAccounts` three encryptions let a second and a third meet on one row. A post of
`Reports` leaves one row at most and is too old one tick later. `Billing` has two events, so that one may
be repeated under the other. Every module names its bounds among its constants.

**View and symmetry.** `MCLiveEngine`'s view drops the breaker inputs of an engine
that has its stop event set: only `Verdict` reads them, only while the event is
unset, and once set it is never unset for that object, so two states that agree on the
view behave alike. `MCStrategyInstance` permutes requests, instances and parameters;
the arbitrary choices `AnyInstance` and `AnyParams` are held in fields nothing reads.

**Fairness.** `Fairness` says threads are scheduled and HTTP calls end: the bridge
client has a 10 s timeout, so each call answers or raises, and the loop's sleep is
bounded by the stop event and its interval. Nothing is assumed of requests, the bridge's
answers or crashes. In `Supervisor` the tasks of the event loop run, sleeps end and the
terminal answers the call a task waits for; nothing is assumed of the network, of the backend
or of the service manager. In `MT5Bridge` calls into the
terminal return or raise and `with_retry`'s sleeps end, and nothing is assumed of who gets the lock; in
`BacktestJobs` a job on a processor goes on (RQ ends it after 30 minutes) and the RQ worker serves its
queue. `ReachableSpec` adds, for the disconnect finding alone, that an
account refresh tried again and again succeeds in the end: the halted loop never tries.

## 4. What is proved

`LiveEngineProofs` (for any number of engines and orders and any grace, from
`MaxEnginesAssumption`, `MaxOrdersAssumption`, `GraceAssumption`):

* `TypeCorrect`, and from it the inductive invariants in layers, each step
  lemma proved action by action:
  * `TypeInv`: types, and a request that is being served has an engine to work on
    (`ServedOK`);
  * `TradeInv`: who may still trade, in five parts: no other engine trades while one is
    starting (`NoneWhileStarting`), requests serve the registered engine
    (`ServesRegistered`), an engine that trades is shown as trading
    (`TraderIsShown`), a thread that joins itself has been told (`SelfJoinIsTold`),
    an engine not yet started is unborn (`UnstartedIsUnborn`).
    `TraderIsRegistered` alone is not inductive: it says nothing about engines between
    `Spawn` and `Register`, nor about what statuses let `router.start` replace an engine;
  * `LastInv`: `TradeInv` and that an order sent after the stop event is its engine's last
    (`LateIsLast`), that there is one (`OneLateOrder`), and that a loop with a KILL
    verdict is leaving (`KilledIsLeaving`);
  * `RightInv`: `TradeInv` and that an unsent order has no sender, for the mapping.
* `OnlyTheRegisteredEngineTrades`, `StoppedAndKilledAreTold`, `AtMostOneLateOrder`,
  `NoBarAfterKillVerdict`, and `EnginesKeepTradingRight`, the refinement.

`StrategyInstanceProofs` (for any non-empty instances and parameters, any requests):

* `TypesHold`, and the invariant `ReadInv`: a request under way has read a status
  its handler accepts, and only go-lives and reverts wait before their commit. None
  of the properties is inductive without it, since a commit's effect depends on what
  was read and not on the row it meets.
* One lemma per handler says what its commit does to *any* row (`KillCommit`,
  `StopCommit`, `UpdateCommit`, `OtherCommit`, `RunningCommit`).
* `KilledRowsHaveTheirTime`, `SealedKillsAreFinal`, `CooldownHolds`,
  `LiveParamsAreLocked`.

`SupervisorProofs` (for any ids and bounds, from `QueryAssumption`):

* `IInv` adds to the types `TaskInv` (tasks live in a connected process only, the heartbeat
  returns on the stop event only, so a process that dials has sent nothing), `CallInv`
  (each call of the run is in the cache, or the one being worked on, or the loop has
  raised and the process is about to end) and `ReplyInv` (the pending response is the
  remembered one; a remembered "ok" has its deal). `SentOnceARun` alone is not inductive: it
  does not say where a call is recorded while the cache is still to be written.
* `OneCallARun`, `ReplaysAgree`, `SuccessIsReal`, `TypesAreRight`.

`TradingSideProofs` and `SimulationProofs` are about `TradingSide`, from `TradingParameters`: finite
callers and positive retries and periods, an event loop that is not one of the threads, limits that are
naturals. Every number of tickets, threads, backtests, callers, keys, symbols, bars and every
time to live is covered.

* *MT5 bridge*. `BridgeInv`: who converses with the terminal holds the lock, a request that waits or
  sends is of an operation that may, and `OneAccountPerOperation`. The last alone says nothing
  of a `/connect` that is let in next to an order. `SessionStaysWithItsAccount`, and from the same
  invariant `CloseIsConfined`: a close and its retries change no other ticket.
* *Backtest jobs*. `JobsInv`: a job past the opening of its file has a curve, which no step of
  another runner takes away. `CompletedRowsHaveCurves`.
* *Preview*. `PreviewInv`: the age of an entry and what is left of its life are together no more
  than the two times to live, in every cache and in the hands of every request. `ServedIsFresh`.
* *TradingView client*. `CallsInv`: free permits and callers past the semaphore add up (a counting
  argument over finite sets; `PermitsInvariant`), and whoever sleeps holds the lock and will wake when the spacing
  has passed since the last call (`SleepsOut`), because only the holder of the lock can set that time.
  `CallsKeepTheirDistance` follows.
* *Risk gate*. `RiskInv`: an oms that reports has counted what is held, so that no counter goes below
  zero, and `OrderRiskIsCapped`. The argument is one lemma on rounding (`RoundedDown`): rounding
  down to a step, but at least to the minimum lot, exceeds the amount by the minimum lot only.
  `SentOrdersAreCapped`, `DisabledStaysDisabled`.
* *Paper broker*. `PaperIsABroker`: refinement of `Broker` under the mapping of an order's state
  to the life of its ticket, step by step; `PaperInvariant` says tickets are handed out in order, so
  that one that is handed out is unborn. `Broker` speaks of what each ticket earned and not of the sum: the balance
  is the sum by definition, and an induction over the tickets would add nothing to it.
* *Backtest*. `WindowsAreOutOfSample`: arithmetic of steps and ratios for every length and every
  number of splits. `NothingLooksAhead`, with the New York strategy excluded as its
  hypothesis (it violates the property): `Agree` relates two histories with the same first n bars,
  and a lemma for each strategy says its signals up to n are the same.
* *Simulated trades*. `SignalsAddUp`, for every strategy and any bars and periods, and `EveryTradeIsAccounted`, with the
  same hypothesis as `NothingLooksAhead` (the trades of the New York strategy change with later bars too). Both are
  inductions over the bars, carried by `Sound`: the trades so far are as the property says, an open position is that of
  its signal and no bar since has passed one of its prices, and every signal so far is in a trade or not before that
  position. That the stop is looked at first makes the exit the worst because a position's stop, when it has
  one, is on the losing side of its target (`SignalsAreSane`, a lemma for each strategy; for
  `donchian` no relation between the two periods is needed, since both channels end with the bar before: the close of a
  breakout is beyond that bar, and that bar is within the exit channel). `LeastNumber` stands for the induction: a set of naturals
  that is not empty has a least one, here the first bar at which the claim would fail; `LoopExists` shows
  with it that the recursive function exists.
* `TypesHold`: the types of all of them.

`BackendSideProofs`, `DeliveryProofs` and `StoredProofs` are about `BackendSide`, from
`BackendParameters`: distinct names for distinct things, finite sets of requests, naturals for bounds and
times, a key of the limiter that outlives its window by at least the stall of a request.

* *Live gate*. `GateInv`: what a request has read or passed, and what holds now, is part of what
  held since it began. It rests on `HealthyHolds`: what the probe passes as healthy is. `PassedHeld`.
* *Sessions*. `AuthInv`: the entry of a token given back is in the denylist as long as the token would decode
  (`Buried`), a call past the check began before (`Honest`), addresses are unique. `NeverServedAgain`,
  `AddressesAreUnique`.
* *Administration*. `AdminInv`: whoever stands under the key of an operation has asked for that
  operation, and so has whoever has a request for it under way. `TwoHaveAsked` is an action property:
  a set read back with two names has two who asked.
* *Stripe's events*. `BillInv`: an event that is handled is not committed, and nobody else handles it
  (the insert of its number blocks). `EventsOnce`. `OrderInv` is the long one: as long as events
  were handled in order, what the one request under way has read is what the rows still are, two rows
  are never of one subscription, and the newest event is what Stripe has. `NewestEventDecides`.
* *Mails*. `MailInv`: each job is in one place, in the list or in one hand, and `JobIsSound`: a job that may still
  be sent was not, a job that was pushed is the answered one of its mail or an unclear one, and
  the mail a service sends itself is of a push that failed. `MailsOnce`, for any number of tries.
* *Accounts and reports*. `AccountsInv`: ciphertext and nonce of every row and of every session's object
  are of one encryption, and a session changes both or neither, because another encryption has
  another nonce: so a merge column by column cannot tear them. `ReportsInv`: a handler leaves the
  status as it read it or kills. `CommitsLeaveWhatOthersWrote`.
* *Rate limiter*. `LimitInv`: until a window is over, its key counts all that were let through or will
  be. The key's expiry after the last stalled call is what carries it. `WindowsKeepTheLimit`.
* `TypesHold`: the types of all of them.

One attempt to prove changed the model: the risk gate let an order without a stop be trimmed by a division
by zero; the code raises there, and so the model now sends nothing.

Only model-checked:

* `StopEndsThread`, `KillEndsThread`, `LinkLossIsNoticed`, `SessionIsGivenBack` and `JobsGiveAVerdict`: liveness
  under fairness and ENABLED are out of TLAPS's reach here;
* every finding, which is a counterexample.

## 5. Findings

1. `kill_nothing_opens`: `on_kill` lists and closes positions before it sets the stop
   event, and gives the thread 5 s while a bridge call may take 10 s; the runbook says all
   positions are closed.
2. `disconnect_halt`: a halted loop makes no bridge call, so a disconnect halt never
   ends; `circuit_breaker.py` says the engine resumes on reconnect.
3. `breaker_kill_report`: `on_kill` on the loop's own thread joins itself, raises, and
   the kill is never reported.
4. `killed_is_final`: a request that read a row before a kill commits over the kill.
5. `never_fires_twice`: the supervisor's order cache dies with its process, and a lost
   connection ends the process: a repeated intent is executed a second time, against the header
   of `mt5-supervisor.py`.
6. `ny_looks_ahead`: the New York killzone gives the bars of 22:00 to 07:59 that follow its session
   the date of that session, and compares the session with their range, against
   `docs/testing/backtest-validation.md`.

### Seen while modelling

Modules state further properties that the source's comments claim and that do not hold; no run lists
them. To see one, define it in the MC module as the others there are (`PositionsKeepStops ==
Bridge!PositionsKeepStops`) and name it as the INVARIANT or PROPERTY of the module's cfg. Those of `Backtest` are seen
with `MCBacktest` and `Strategies <- OnlyEmaAdx`: `GapsAreRespected` with `Shapes <- MCGapShapes`, `EndCloses` with a
stop and a target no bar reaches.

| Property | What the code does |
|---|---|
| `PositionsKeepStops` (`MT5Bridge`) | `/position/modify` runs no safety check and may take a stop away (`safety.py:7-8` says every endpoint does) |
| `QueuedIsWorkedOn` (`BacktestJobs`) | the backend pushes to a list nobody reads; the worker serves the RQ queue (`backtest_service.py:5-9`) |
| `OneJobPerId` (`BacktestJobs`) | two requests of one id both pass when both look before either writes, or when the first is still queued, and two threads run it (`server.py:199-203`; `docs/strategies/backtest-api.md:98` promises 409) |
| `GapsAreRespected` (`Backtest`) | a bar that opens beyond a stop ends the trade at the stop less the slippage, a price better than any at which the bar traded (`runner.py:105, 110`; `docs/testing/backtest-validation.md:22` asks for gaps to be respected) |
| `EndCloses` (`Backtest`) | a position open at the end of the data is dropped, with its loss (`runner.py:154`; line 80 says "exit on SL/TP/end") |
| `FailuresAreErrors` (`TVPreview`) | a failure of the engine is served, and cached, as a neutral preview with 200 (`tradingview_service.py:20-22`) |
| `PositionsStayCapped` (`RiskGate`) | the engine reports no position to the manager, and a trimmed order passes the caps (`manager.py:3-12`) |
| `LifetimeIsKept` (`Billing`) | a lifetime plan is kept in the row of the subscription it replaces, whose end cancels it (`billing_service.py:596`) |
| `SignalsArrived` (`GoLive`) | the engine says "degraded" of a TradingView that fails; the gate takes that for up (`tradingview_service.py:288`) |
| `KeyVersionTells` (`BrokerAccounts`) | the stored key version may be of another encryption than the ciphertext; decryption does not read it |
| `DeletedIsInactive` (`BrokerAccounts`) | a deletion and an activation merge into a row that is both |
| `EngineIsHeard` (`Reports`) | the client posts to `/internal/...`, which is mounted below `/api/v1`: 404; with the path in the base URL its signature is of another path: 401; its fields are not those of the schemas: 422 |
| `KilledIsDisarmed` (`Reports`) | the next health report arms the kill switch of a killed instance |
| `StoredOnce` (`Reports`) | a post delivered again within the skew is stored again |
| `HeartbeatsAscend` (`Reports`) | a late report sets the last heartbeat back |

Not modelled and worth a look: `with_retry` may send an order twice when the first call raises after
its execution; `mt5_adapter` reports a partial fill as a failure; `london_breakout.signals()` raises
(line 103, an array has no `shift`); walk forward leaves `total % n_splits` bars out; the column `balance_cached_cents`, which the
gate checks, is written nowhere; `open_positions` counts trade rows that are only ever
inserted; two administrators may demote each other; a deleted user may be unbanned; two refreshes that both looked
before either wrote get a pair each.

Of the schema: as it stands no upgrade gets through. The upgrades of 0001, 0003 and 0005 give `op.execute` one text of many
statements, and the URL is always that of asyncpg (`config.py:32-54`), which prepares one command at a time and refuses.
With a driver that takes scripts, 0005 (146-168) looks for the CHECK on `strategies.code` by `ILIKE '%code%IN%...'`;
PostgreSQL prints such a CHECK with `= ANY (ARRAY[...])`, so nothing is dropped, and the constraint of the same name it then adds
(173-181) collides; all five revisions are one transaction and are rolled back. Models also use tables and columns that no
revision makes (`email_verification_tokens`, `password_reset_tokens`, `user_consents`, `strategy_instances.live_started_at` among
them); the downgrade of 0004 leaves plans that are referred to, on purpose (163-174); `alembic upgrade --sql` fails at 0002,
where `op.get_bind()` has no connection to ask.

Of the partitions: `CREATE_PARTITION_SQL` (`maintain_partitions.py:79-93`) has its bind parameters inside a DO block, which takes
none, so every run of the job is refused. The months 2026-06 to 2026-11, which 0001 and 0003 make by name whenever they run,
are all there will be; later rows go to the default partitions, which `docs/database/partitioning.md:50` wants empty, and a
partition for a month that has rows there cannot be made later. The job goes table by table and reads the date for each part
(195-203), so a run over the end of a month treats its tables differently. `partitioning.md` (70-74) and
`docs/database/data-retention.md` (28) keep signals for 24 months and drop a partition only after a verified archive, and the
former never drops trades, while the job (45-55) would drop signals after 18 months and trades after 84 with no look at an
archive; `partitioning.md` §4 speaks of three months made at first, the migrations make six.

## 6. Plan

1. More proofs about functions of a history: that a walk forward with room for its splits leaves out fewer
   bars than it has splits, and by induction (`LeastNumber`) that every bar on which a position is open is one of
   exactly one trade, or of the position open at the end.
2. `LiveEngine` on top of `MT5Bridge`: the engine's free answers of the bridge replaced by the bridge's.
3. Password resets, verification links and the second factor next to `Sessions`.
4. When an upgrade and the partition job get through: revisions, downgrades and seeds, the boot of several replicas under the
   advisory lock, that months stay ahead of the rows, and that only what is past its retention goes.

Not modelled: the schema's migrations and the partition job (a statement of each is refused before there is a state to
speak of, by what driver and database do and not by what the repository's code does; section 5), the engine's HTTP wrappers and health monitor (no state of their own), the
TradingView live engine (never created), the engine's own gate (a check of one moment), the scorer and
the metrics (floating-point arithmetic over one analysis or one table), the bridge stub, the
audit middleware, configuration and logging, the frontend and deployment files. `CallsComeBack`
(`TVClient`) is liveness under the strong fairness of a lock; it is stated in its module with
the fairness it needs and not part of a run.
