------------------------------- MODULE RiskGate -------------------------------
(***************************************************************************)
(* The risk manager (trading-engine/risk/manager.py), the sizing           *)
(* (risk/position_sizing.py) and the part of LiveEngine that asks them     *)
(* before it sends an order (live/engine.py:304-336).                      *)
(*                                                                         *)
(* The manager counts positions and losses only as far as its caller       *)
(* reports them.  The engine reports the equity and nothing else; a        *)
(* caller that follows the manager's comment, "call these from the broker  *)
(* / OMS", reports all.  Both are modelled.                                *)
(*                                                                         *)
(* Amounts are integers, lots are counted in steps of the broker, and a    *)
(* quotient is rounded down once, where round_to_step does it.             *)
(***************************************************************************)
EXTENDS Integers, Functions

CONSTANTS
  Symbols,        \* traded symbols
  Bucket,         \* the symbols of one correlation bucket
  Equities,       \* values the account's equity may take
  DefaultEquity,  \* RiskState's equity until the bridge has told one
  Profits,        \* profits and losses a closed trade may have
  StopDistances,  \* |entry - sl|, times pip_value_per_unit and the lot step
  RiskPcts,       \* risk_per_trade_pct a strategy may ask for
  MinLot,         \* the broker's smallest lot, in steps
  MaxRiskPct, MaxDailyLossPct, MaxDrawdownPct,        \* RiskLimits
  MaxOpen, MaxPerSymbol, MaxCorrelated,               \* RiskLimits
  MaxHeld,        \* bound: positions of a symbol at the broker
  MaxRealized     \* bound: realized profit or loss of a day

(* What the constants may be.                                              *)
Parameters ==
  /\ Bucket \subseteq Symbols
  /\ Equities \subseteq Int /\ Profits \subseteq Int
  /\ DefaultEquity \in Nat \ {0}
  /\ StopDistances \subseteq Nat
  /\ RiskPcts \subseteq Nat
  /\ MaxRiskPct \in Nat \ {0} /\ MaxDailyLossPct \in Nat /\ MaxDrawdownPct \in Nat
  /\ MinLot \in Nat /\ MaxHeld \in Nat /\ MaxRealized \in Nat
  /\ MaxOpen \in Nat /\ MaxPerSymbol \in Nat /\ MaxCorrelated \in Nat

VARIABLES
  reporter,   \* "engine", or an "oms" that reports what the comment asks for
  equity, peak, realized, disabled, counted,   \* RiskState
  held,       \* positions at the broker, by symbol
  order       \* the last order sent, with the equity it was decided on

vars == <<reporter, equity, peak, realized, disabled, counted, held, order>>

NoOrder == [lot |-> 0, stop |-> 0, equity |-> 0]

TypeOK ==
  /\ reporter \in {"engine", "oms"}
  /\ equity \in Int /\ peak \in Int
  /\ realized \in Int
  /\ disabled \in BOOLEAN
  /\ counted \in [Symbols -> Nat]
  /\ held \in [Symbols -> Nat]
  /\ order \in [lot : Nat, stop : Nat, equity : Int]

Larger(a, b) == IF a > b THEN a ELSE b

(* _connect_bridge seeds the equity, and a peak that starts at the default *)
(* never comes below it; without an answer the default stays.              *)
Init ==
  /\ reporter \in {"engine", "oms"}
  /\ equity \in Equities \cup {DefaultEquity}
  /\ peak = Larger(DefaultEquity, equity)
  /\ realized = 0
  /\ disabled = FALSE
  /\ counted = [s \in Symbols |-> 0]
  /\ held = [s \in Symbols |-> 0]
  /\ order = NoOrder

-----------------------------------------------------------------------------
(* Position sizing.                                                        *)

(* Slip: the lots are rounded to the nearest step.                         *)
RoundToNearest(amount, perLot) ==
  LET steps == (2 * amount + perLot) \div (2 * perLot)
  IN  IF steps > MinLot THEN steps ELSE MinLot

(* round_to_step of amount / perLot: down to a step, but at least MinLot.  *)
RoundToStep(amount, perLot) ==
  LET steps == amount \div perLot
  IN  IF steps > MinLot THEN steps ELSE MinLot

(* fixed_fractional, then round_to_step.  Without equity or distance the   *)
(* size is 0 and the minimum lot all the same.                             *)
Size(pct, stop) ==
  IF equity <= 0 \/ pct = 0 \/ stop = 0
    THEN MinLot
    ELSE RoundToStep(equity * pct, 100 * stop)

-----------------------------------------------------------------------------
(* evaluate.                                                               *)

DailyLossHit == -realized * 100 >= equity * MaxDailyLossPct
OverTradeCap(lot, stop) == lot * stop * 100 > equity * MaxRiskPct
InBucket == SumFunctionOnSet(counted, Bucket)

(* An order above the per-trade cap is trimmed and approved; the caps on   *)
(* positions come after that and are not looked at (manager.py:146-155).   *)
CapsReached(s) ==
  \/ SumFunction(counted) >= MaxOpen
  \/ counted[s] >= MaxPerSymbol
  \/ s \in Bucket /\ InBucket >= MaxCorrelated

(* The lot that may be sent; none when the order is rejected.  A trimmed   *)
(* size, lot * cap / risk, is rounded to a step again; without a risk to   *)
(* divide by the evaluation raises.                                        *)
ApprovedLots(s, lot, stop) ==
  CASE disabled \/ DailyLossHit -> {}
    [] OverTradeCap(lot, stop) /\ ~disabled /\ ~DailyLossHit
                                -> IF stop = 0 THEN {}
                                   ELSE {RoundToStep(equity * MaxRiskPct, 100 * stop)}
    [] OTHER                    -> IF CapsReached(s) THEN {} ELSE {lot}

(* _on_new_bar with a signal: size, evaluate, place.  A size of 0 is not   *)
(* evaluated.  The bridge fills the order or refuses it, a lot of 0 in any *)
(* case; an oms then reports the position.                                 *)
PlaceOrder(s, pct, stop) ==
  /\ Size(pct, stop) > 0 /\ held[s] < MaxHeld
  /\ \E lot \in ApprovedLots(s, Size(pct, stop), stop) :
       order' = [lot |-> lot, stop |-> stop, equity |-> equity]
  /\ \E filled \in BOOLEAN :
       /\ filled => order'.lot > 0
       /\ held' = IF filled THEN [held EXCEPT ![s] = @ + 1] ELSE held
       /\ counted' = IF filled /\ reporter = "oms"
                       THEN [counted EXCEPT ![s] = @ + 1] ELSE counted
  /\ UNCHANGED <<reporter, equity, peak, realized, disabled>>

-----------------------------------------------------------------------------
(* The circuit breaker of on_equity_update: set, never taken back.         *)
Breaker(e, top) == disabled \/ (top - e) * 100 >= MaxDrawdownPct * top

OnEquityUpdate(e) ==
  LET top == Larger(peak, e) IN
  /\ equity' = e /\ peak' = top
  /\ disabled' = Breaker(e, top)
  /\ UNCHANGED <<reporter, realized, counted, held, order>>

(* A position ends at the broker.  An oms calls on_position_closed and     *)
(* on_trade_closed, the engine nothing.                                    *)
PositionCloses(s, pnl) ==
  /\ held[s] > 0
  /\ held' = [held EXCEPT ![s] = @ - 1]
  /\ IF reporter = "oms"
       THEN /\ realized + pnl \in (-MaxRealized)..MaxRealized
            /\ realized' = realized + pnl
            /\ counted' = [counted EXCEPT ![s] = @ - 1]
       ELSE UNCHANGED <<realized, counted>>
  /\ UNCHANGED <<reporter, equity, peak, disabled, order>>

(* _roll_day_if_needed.                                                    *)
DayRolls ==
  /\ realized # 0
  /\ realized' = 0
  /\ UNCHANGED <<reporter, equity, peak, disabled, counted, held, order>>

-----------------------------------------------------------------------------
Next ==
  \/ \E s \in Symbols, pct \in RiskPcts, stop \in StopDistances : PlaceOrder(s, pct, stop)
  \/ \E e \in Equities : OnEquityUpdate(e)
  \/ \E s \in Symbols, pnl \in Profits : PositionCloses(s, pnl)
  \/ DayRolls

Spec == Init /\ [][Next]_vars

-----------------------------------------------------------------------------
(* No order risks more than the per-trade cap of the equity it was decided *)
(* on, through sizing, rounding, trimming and rounding again; the one      *)
(* exception is the broker's smallest lot, which a small account gets all  *)
(* the same (position_sizing.py:106, manager.py:146-155).                  *)
OrderRiskIsCapped ==
  order.lot > MinLot => order.lot * order.stop * 100 <= order.equity * MaxRiskPct

(* A drawdown at the limit ends trading: no order is sent from then on,    *)
(* whatever the equity does afterwards (manager.py:94-103, 138).           *)
DisabledIsFinal ==
  [][disabled => /\ disabled' /\ order' = order
                 /\ \A s \in Symbols : held'[s] <= held[s]]_vars

(* What manager.py:3-12 says: positions per symbol are capped, and every   *)
(* call goes through evaluate.  Violated: LiveEngine reports no position,  *)
(* and an order that is trimmed passes the caps.                           *)
PositionsStayCapped == \A s \in Symbols : held[s] <= MaxPerSymbol
=============================================================================
