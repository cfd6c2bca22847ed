----------------------------- MODULE MCBacktest ------------------------------
(***************************************************************************)
(* Backtests of one strategy over five bars of two days: one bar of the    *)
(* New York session, two of the Asian session after it and two more that   *)
(* bring the next one.                                                     *)
(***************************************************************************)
EXTENDS Backtest

OnlyNYKillzone == {"ny_killzone"}
OnlyEmaAdx     == {"ema_adx"}

MCTimes == <<14, 23, 30, 38, 39>>

Bar(high, low, close, lean, strong) ==
  [high |-> high, low |-> low, close |-> close, lean |-> lean, strong |-> strong]

MCShapes == {Bar(5, 3, 4, 1, TRUE), Bar(8, 3, 7, 1, FALSE),
             Bar(5, 2, 2, -1, TRUE), Bar(9, 1, 4, 0, FALSE)}

(* A bar above all the others, from which the next one falls in a gap.     *)
MCGapShapes == MCShapes \cup {Bar(12, 11, 11, 1, TRUE)}

MCHistories == {30, 47}
MCSplits == {1, 3}
=============================================================================
