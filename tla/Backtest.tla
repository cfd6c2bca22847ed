------------------------------ MODULE Backtest ------------------------------
(***************************************************************************)
(* The backtests of the trading engine: the signals of the strategies      *)
(* (strategies/*.py), the simulation of their trades (backtest/runner.py)  *)
(* and the windows of the walk-forward analysis (backtest/walk_forward.py).*)
(*                                                                         *)
(* The bars of a history are given one at a time, so that what a function  *)
(* of the whole history says of a bar can be compared with what it said    *)
(* before the later bars were known.  An indicator that is a running value *)
(* of the bars so far (an average, the RSI, the ADX, the ATR) is part of   *)
(* the bar: lean, which way it points, and strong, whether it is beyond    *)
(* its threshold.  Left out: the loaders, the metrics other than what the  *)
(* trades are, and london_breakout.py, whose signals() stops on an array   *)
(* without shift (line 103).                                               *)
(***************************************************************************)
EXTENDS Integers, Sequences, SequencesExt, FiniteSetsExt

CONSTANTS
  Strategies,                \* the strategies to run
  Times,                     \* sequence: the hour of each bar of the history
  Shapes,                    \* what a bar may look like
  EntryPeriod, ExitPeriod,   \* of the Donchian channels
  Stop, Target,              \* distances of a stop and of a target
  Slip,                      \* slippage_price
  Histories, Splits          \* lengths and numbers of splits of walk_forward

(* What the constants may be.                                              *)
Parameters ==
  /\ Strategies \subseteq {"donchian", "ema_adx", "ema_rsi", "tv_signal", "grid_bot", "ny_killzone"}
  /\ EntryPeriod \in Nat \ {0} /\ ExitPeriod \in Nat \ {0}
  /\ Times \in Seq(Nat)
  /\ \A b \in Shapes : /\ b.low \in Nat /\ b.high \in Nat /\ b.close \in Nat
                        /\ b.low <= b.close /\ b.close <= b.high
  /\ Stop \in Nat /\ Target \in Nat /\ Slip \in Nat
  /\ Histories \subseteq Nat \ {0} /\ Splits \subseteq Nat \ {0}

VARIABLES
  strategy,   \* the strategy under test
  bars,       \* the history so far
  windows     \* the windows of the last walk_forward

vars == <<strategy, bars, windows>>

(* A signal: its stop is a set, empty when the column holds no number.     *)
Flat == [dir |-> 0, entry |-> 0, sl |-> {}, tp |-> 0]

Long(b, sl, tp) == [dir |-> 1, entry |-> b.close, sl |-> sl, tp |-> tp]
Short(b, sl, tp) == [dir |-> -1, entry |-> b.close, sl |-> sl, tp |-> tp]

TypeOK ==
  /\ strategy \in Strategies
  /\ Len(bars) <= Len(Times)
  /\ \A i \in DOMAIN bars : bars[i] \in [at : {Times[i]}, shape : Shapes]
  /\ \A k \in DOMAIN windows :
       windows[k] \in [trainStart : Nat, trainEnd : Int, testStart : Nat, testEnd : Nat]

Init == strategy \in Strategies /\ bars = <<>> /\ windows = <<>>

-----------------------------------------------------------------------------
(* Indicators: the values of a column of h over the bars S.                *)
Highs(h, S) == {h[j].shape.high : j \in S}
Lows(h, S) == {h[j].shape.low : j \in S}

(* shift(1).rolling(n): the n bars before i, when there are as many.       *)
Rolling(n, i) == (i - n)..(i - 1)
HasRolling(n, i) == i > n

(* donchian_breakout.py: a close beyond the entry channel, on its first    *)
(* bar; the stop is the other side of the exit channel, NaN as long as     *)
(* there are fewer bars than that channel takes.                           *)
BreaksUp(h, i) ==
  HasRolling(EntryPeriod, i) /\ h[i].shape.close > Max(Highs(h, Rolling(EntryPeriod, i)))
BreaksDown(h, i) ==
  HasRolling(EntryPeriod, i) /\ h[i].shape.close < Min(Lows(h, Rolling(EntryPeriod, i)))

(* Slip: shift(-1).                                                        *)
ShiftedBack(h, i) == {i + 1} \cap DOMAIN h

(* shift(1): the bar before, when there is one.                            *)
Shifted(h, i) == {i - 1} \cap DOMAIN h

(* cond & ~cond.shift(1).fillna(False).                                    *)
Starts(Cond(_), h, i) == Cond(i) /\ ~ \E j \in Shifted(h, i) : Cond(j)

ExitUp(h, i) ==
  IF HasRolling(ExitPeriod, i) THEN {Max(Highs(h, Rolling(ExitPeriod, i)))} ELSE {}
ExitLow(h, i) ==
  IF HasRolling(ExitPeriod, i) THEN {Min(Lows(h, Rolling(ExitPeriod, i)))} ELSE {}

Donchian(h, i) ==
  LET b == h[i].shape IN
  IF Starts(LAMBDA j : BreaksDown(h, j), h, i)
  THEN Short(b, ExitUp(h, i), b.close \div 2)
  ELSE IF Starts(LAMBDA j : BreaksUp(h, j), h, i)
  THEN Long(b, ExitLow(h, i), (b.close * 3) \div 2)
  ELSE Flat

(* The frame of two conditions that exclude each other, with a stop and a  *)
(* target at fixed distances.                                              *)
Directed(h, i, isLong, isShort) ==
  LET b == h[i].shape IN
  IF isLong THEN Long(b, {b.close - Stop}, b.close + Target)
  ELSE IF isShort THEN Short(b, {b.close + Stop}, b.close - Target)
  ELSE Flat

Points(h, i, d) == h[i].shape.lean = d /\ h[i].shape.strong

(* ema_adx_trend.py: the trend, from the bar on which it became strong.    *)
EmaAdx(h, i) ==
  Directed(h, i, Starts(LAMBDA j : Points(h, j, 1), h, i),
                 Starts(LAMBDA j : Points(h, j, -1), h, i))

(* tv_signal.py, the proxy: the same of its score.                         *)
TVProxy(h, i) == EmaAdx(h, i)

(* ema_rsi_swing.py: the averages cross and the RSI agrees.                *)
Crosses(h, i, d) ==
  i > 1 /\ h[i].shape.lean = d /\ h[i - 1].shape.lean /= d

EmaRsi(h, i) ==
  Directed(h, i, Crosses(h, i, 1) /\ h[i].shape.strong,
                 Crosses(h, i, -1) /\ h[i].shape.strong)

(* grid_bot.py: anchors on the first bar of a day, none with a direction.  *)
GridBot(h, i) ==
  IF i = 1 \/ h[i].at \div 24 /= h[i - 1].at \div 24
  THEN [dir |-> 0, entry |-> h[i].shape.close,
        sl |-> {h[i].shape.close - Stop}, tp |-> h[i].shape.close + Stop]
  ELSE Flat

(* ny_killzone.py: session_date, the Asian bars of a session, the window   *)
(* of New York, and the first sweep of each session that closes inside.    *)
SessionOf(b) == (b.at - 8) \div 24
IsAsian(b) == b.at % 24 >= 22 \/ b.at % 24 < 8
InNewYork(b) == b.at % 24 \in 14..15   \* 13:30 to 16:00, in whole hours

AsianBars(h, i) == {j \in DOMAIN h : IsAsian(h[j]) /\ SessionOf(h[j]) = SessionOf(h[i])}

SweepsHigh(h, i) ==
  /\ InNewYork(h[i]) /\ AsianBars(h, i) /= {}
  /\ LET top == Max(Highs(h, AsianBars(h, i))) IN
       h[i].shape.high > top /\ h[i].shape.close < top
SweepsLow(h, i) ==
  /\ InNewYork(h[i]) /\ AsianBars(h, i) /= {}
  /\ LET bottom == Min(Lows(h, AsianBars(h, i))) IN
       h[i].shape.low < bottom /\ h[i].shape.close > bottom

Sweeps(h, i) == SweepsHigh(h, i) \/ SweepsLow(h, i)

NYKillzone(h, i) ==
  LET b == h[i].shape IN
  IF ~Sweeps(h, i) \/ \E j \in 1..(i - 1) : SessionOf(h[j]) = SessionOf(h[i]) /\ Sweeps(h, j)
  THEN Flat
  ELSE IF SweepsHigh(h, i) THEN Short(b, {b.high + Stop}, b.close - Target)
  ELSE Long(b, {b.low - Stop}, b.close + Target)

(* strategy.signals(data): a row for every bar.                            *)
Signals(h) ==
  [i \in DOMAIN h |->
     CASE strategy = "donchian"    -> Donchian(h, i)
       [] strategy = "ema_adx"     -> EmaAdx(h, i)
       [] strategy = "ema_rsi"     -> EmaRsi(h, i)
       [] strategy = "tv_signal"   -> TVProxy(h, i)
       [] strategy = "grid_bot"    -> GridBot(h, i)
       [] strategy = "ny_killzone" -> NYKillzone(h, i)]

-----------------------------------------------------------------------------
(* The exit of a position on a bar: none, or the price.  A comparison with *)
(* NaN is false.                                                           *)
TouchesStop(p, b) == \E q \in p.sl : IF p.dir > 0 THEN b.low <= q ELSE b.high >= q
TouchesTarget(p, b) == IF p.dir > 0 THEN b.high >= p.tp ELSE b.low <= p.tp

AtStop(p) == {q - p.dir * Slip : q \in p.sl}
AtTarget(p) == {p.tp - p.dir * Slip}

(* Slip: the target is looked at first.                                    *)
ExitsTargetFirst(p, b) ==
  IF TouchesTarget(p, b) THEN AtTarget(p) ELSE IF TouchesStop(p, b) THEN AtStop(p) ELSE {}

Exits(p, b) ==
  IF TouchesStop(p, b) THEN AtStop(p) ELSE IF TouchesTarget(p, b) THEN AtTarget(p) ELSE {}

(* One bar of _simulate_trades: an exit takes the whole bar.               *)
Walk(sim, i, h, sigs) ==
  LET exits == Exits(sim.position, h[i].shape) IN
  IF sim.position.dir /= 0
  THEN IF exits = {} THEN sim
       ELSE [position |-> Flat, since |-> 0,
             trades |-> Append(sim.trades,
                          [dir |-> sim.position.dir, from |-> sim.since, to |-> i,
                           sl |-> sim.position.sl, tp |-> sim.position.tp,
                           entry |-> sim.position.entry, exit |-> Max(exits)])]
  ELSE IF sigs[i].dir = 0 THEN sim
  ELSE [position |-> [sigs[i] EXCEPT !.entry = @ + sigs[i].dir * Slip],
        since |-> i, trades |-> sim.trades]

(* The loop of _simulate_trades: where it stands after each of the bars.   *)
Simulation(h) ==
  LET sigs == Signals(h)
      sims[n \in 0..Len(h)] ==
        IF n = 0 THEN [position |-> Flat, since |-> 0, trades |-> <<>>]
        ELSE Walk(sims[n - 1], n, h, sigs)
  IN sims

(* What it returns; a position open at the end is no trade.                *)
Trades(h) == Simulation(h)[Len(h)].trades

-----------------------------------------------------------------------------
(* _build_windows, of positions from 0.                                    *)
TestStart(trainEnd) == trainEnd + 1

Smaller(a, b) == IF a < b THEN a ELSE b

Window(total, step, train, start) ==
  LET trainEnd == Smaller(start + train - 1, total - 1) IN
  [trainStart |-> start, trainEnd |-> trainEnd, testStart |-> TestStart(trainEnd),
   testEnd |-> Smaller(TestStart(trainEnd) + step - train - 1, total - 1)]

(* The loop ends before the first window without a bar to test on.         *)
BuildWindows(total, splits, percent) ==
  IF total < splits * 10
  THEN <<[trainStart |-> 0, trainEnd |-> total - 1, testStart |-> 0, testEnd |-> total - 1]>>
  ELSE LET step == total \div splits
           train == (step * percent) \div 100
           empty == {k \in 1..splits : Window(total, step, train, (k - 1) * step).testStart >= total}
       IN [k \in 1..(IF empty = {} THEN splits ELSE Min(empty) - 1) |->
             Window(total, step, train, (k - 1) * step)]

(* walk_forward, with its default ratio.                                   *)
WalkForward(total, splits) ==
  /\ windows = <<>> /\ bars = <<>>
  /\ windows' = BuildWindows(total, splits, 70)
  /\ UNCHANGED <<strategy, bars>>

(* The next bar of the history.                                            *)
NewBar(shape) ==
  /\ windows = <<>> /\ Len(bars) < Len(Times)
  /\ bars' = Append(bars, [at |-> Times[Len(bars) + 1], shape |-> shape])
  /\ UNCHANGED <<strategy, windows>>

Next ==
  \/ \E shape \in Shapes : NewBar(shape)
  \/ \E total \in Histories, splits \in Splits : WalkForward(total, splits)

Spec == Init /\ [][Next]_vars

-----------------------------------------------------------------------------
(* docs/testing/backtest-validation.md:14, "Decision at bar t uses only    *)
(* data <= t": the bars that follow do not change the signals of the bars  *)
(* before.                                                                 *)
NoLookAhead ==
  [][\A i \in DOMAIN bars : Signals(bars')[i] = Signals(bars)[i]]_vars

(* The prices of a position that a bar passes: it trades somewhere at or   *)
(* beyond them, also when it opens beyond them.                            *)
Traded(b) == b.low..b.high

Passed(p, b) ==
  {q \in p.sl : \E x \in Traded(b) : p.dir * (x - q) <= 0}
    \cup {q \in {p.tp} : \E x \in Traded(b) : p.dir * (x - q) >= 0}

(* A closed trade is one of the signals; no bar before its last passes its *)
(* stop or its target, the last one does, and the exit is no better than   *)
(* any of the prices passed ("assume SL hits first (pessimistic)",         *)
(* runner.py:86-87).                                                       *)
IsTradeOf(t, sigs, h) ==
  /\ t.dir = sigs[t.from].dir /\ t.sl = sigs[t.from].sl /\ t.tp = sigs[t.from].tp
  /\ \A j \in (t.from + 1)..(t.to - 1) : Passed(t, h[j].shape) = {}
  /\ Passed(t, h[t.to].shape) # {}
  /\ \A q \in Passed(t, h[t.to].shape) : t.dir * (t.exit - q) <= 0

(* A position of bar s that is still open: no trade ends after it began,   *)
(* and no bar since passes its stop or its target.                         *)
StaysOpen(s, trades, sigs, h) ==
  /\ sigs[s].dir # 0
  /\ \A k \in DOMAIN trades : trades[k].to < s
  /\ \A j \in (s + 1)..Len(h) : Passed(sigs[s], h[j].shape) = {}

(* The list of trades leaves nothing out and adds nothing: each is as      *)
(* above and over before the next begins, and every signal falls into one  *)
(* of them or after the beginning of a position that stays open.           *)
Accounted(h) ==
  LET trades == Trades(h)
      sigs   == Signals(h)
  IN /\ \A k \in DOMAIN trades :
          IsTradeOf(trades[k], sigs, h) /\ (k > 1 => trades[k - 1].to < trades[k].from)
     /\ \A i \in DOMAIN h : sigs[i].dir # 0 =>
          \/ \E k \in DOMAIN trades : trades[k].from <= i /\ i <= trades[k].to
          \/ \E s \in 1..i : StaysOpen(s, trades, sigs, h)

(* It is true of the history so far.                                       *)
AccountedSoFar == Accounted(bars)

(* runner.py:79-160: so it is after every bar, and a later bar changes     *)
(* none of the trades already closed.                                      *)
TradesAreAccounted ==
  [][Accounted(bars') /\ IsPrefix(Trades(bars), Trades(bars'))]_vars

(* docs/testing/backtest-validation.md:22, "positions not silently         *)
(* teleported through gap": nobody gets a better price than one at which   *)
(* the bar of the exit traded.                                             *)
GapsAreRespected ==
  \A k \in DOMAIN Trades(bars) : LET t == Trades(bars)[k] IN
    \E x \in Traded(bars[t.to].shape) : t.dir * (t.exit - x) <= 0

(* runner.py:80, "for each non-zero signal, open a position, exit on       *)
(* SL/TP/end": at the end of the history every signal but one of the last  *)
(* bar lies in a closed trade.                                             *)
EndCloses ==
  \A i \in 1..(Len(bars) - 1) : Signals(bars)[i].dir # 0 =>
    \E k \in DOMAIN Trades(bars) : Trades(bars)[k].from <= i /\ i <= Trades(bars)[k].to

(* walk_forward.py: when there is enough history for the splits, no bar of *)
(* a test window is in the training window of its split, and the windows   *)
(* of different splits share none.                                         *)
OutOfSample ==
  Len(windows) > 1 =>
    \A k \in DOMAIN windows : LET w == windows[k] IN
      /\ w.trainStart <= w.trainEnd /\ w.trainEnd < w.testStart
      /\ w.testStart <= w.testEnd
      /\ k > 1 => windows[k - 1].testEnd < w.trainStart
=============================================================================
