----------------------------- MODULE PaperBroker -----------------------------
(***************************************************************************)
(* The paper broker (trading-engine/broker/paper_adapter.py): a Broker     *)
(* that fills orders from the quotes it is fed.                            *)
(*                                                                         *)
(* One symbol, volume one, prices in pips.  The account's equity, which    *)
(* marks the positions at their last quote, the tick handlers and the      *)
(* connection flag, which nothing reads, are left out.  The balance is the *)
(* sum of what the positions that ended have added to it.                  *)
(***************************************************************************)
EXTENDS Integers

CONSTANTS
  MaxTicket,  \* tickets are 1..MaxTicket: bounds the orders
  Quotes,     \* quotes <<bid, ask>> the feed may send
  Prices,     \* prices an order may name; 0 is None
  Cost        \* half the configured spread and the slippage, in pips

(* What the constants may be.                                              *)
Parameters ==
  /\ MaxTicket \in Nat
  /\ \A q \in Quotes : q[1] \in Nat \ {0} /\ q[2] \in Nat /\ q[1] <= q[2]
  /\ Prices \subseteq Nat
  /\ Cost \in Nat \ {0}

VARIABLES
  quote,    \* _last_quote of the symbol, NoQuote before the first one
  ticker,   \* the next ticket
  orders,   \* _open, _pending and what is over, by ticket
  earned    \* what the end of each ticket's position has added to the balance

vars == <<quote, ticker, orders, earned>>

Tickets == 1..MaxTicket
Sides   == {"buy", "sell"}
NoQuote == <<0, 0>>
Bid     == quote[1]
Ask     == quote[2]

Unborn == [state |-> "unborn", kind |-> "market", side |-> "buy", price |-> 0,
           sl |-> 0, tp |-> 0]

Orders == [state : {"unborn", "pending", "open", "gone"},
           kind : {"market", "limit", "stop"}, side : Sides, price : Int,
           sl : Prices \cup {0}, tp : Prices \cup {0}]

TypeOK ==
  /\ quote \in Quotes \cup {NoQuote}
  /\ ticker \in 1..(MaxTicket + 1)
  /\ orders \in [Tickets -> Orders]
  /\ \A t \in Tickets : orders[t].state = "unborn" <=> t >= ticker
  /\ earned \in [Tickets -> Int]

Init ==
  /\ quote = NoQuote
  /\ ticker = 1
  /\ orders = [t \in Tickets |-> Unborn]
  /\ earned = [t \in Tickets |-> 0]

Is(t, state) == orders[t].state = state

-----------------------------------------------------------------------------
(* _apply_costs: a buyer pays them on top, a seller gets less.             *)
ApplyCosts(side, price) == IF side = "buy" THEN price + Cost ELSE price - Cost

Opposite(side) == IF side = "buy" THEN "sell" ELSE "buy"

(* What closing a position at a quote earns.  Before the first quote the   *)
(* entry price stands in for it.                                           *)
Earned(o, q) ==
  LET base == IF q = NoQuote THEN o.price ELSE IF o.side = "buy" THEN q[1] ELSE q[2]
      exit == ApplyCosts(Opposite(o.side), base)
  IN  IF o.side = "buy" THEN exit - o.price ELSE o.price - exit

(* place_order of a market order: refused without a quote or a price of    *)
(* its own, which then stands in for the quote.                            *)
PlaceMarket(side, price, sl, tp) ==
  LET base == IF quote = NoQuote THEN price ELSE IF side = "buy" THEN Ask ELSE Bid IN
  /\ ticker <= MaxTicket
  /\ ticker' = ticker + 1
  /\ orders' = [orders EXCEPT ![ticker] =
       [state |-> IF base = 0 THEN "gone" ELSE "open", kind |-> "market",
        side |-> side, price |-> IF base = 0 THEN 0 ELSE ApplyCosts(side, base),
        sl |-> sl, tp |-> tp]]
  /\ UNCHANGED <<quote, earned>>

(* place_order of a limit or stop order: it waits for its price.           *)
PlacePending(kind, side, price, sl, tp) ==
  /\ ticker <= MaxTicket
  /\ ticker' = ticker + 1
  /\ orders' = [orders EXCEPT ![ticker] =
       [state |-> "pending", kind |-> kind, side |-> side, price |-> price,
        sl |-> sl, tp |-> tp]]
  /\ UNCHANGED <<quote, earned>>

(* close_position, the whole of it whatever the volume asked for.          *)
ClosePosition(t) ==
  /\ Is(t, "open")
  /\ earned' = [earned EXCEPT ![t] = @ + Earned(orders[t], quote)]
  /\ orders' = [orders EXCEPT ![t].state = "gone"]
  /\ UNCHANGED <<quote, ticker>>

CancelOrder(t) ==
  /\ Is(t, "pending")
  /\ orders' = [orders EXCEPT ![t].state = "gone"]
  /\ UNCHANGED <<quote, ticker, earned>>

(* None, that is 0 here, keeps what there was.                             *)
ModifyPosition(t, sl, tp) ==
  /\ Is(t, "open")
  /\ orders' = [orders EXCEPT ![t].sl = IF sl = 0 THEN @ ELSE sl,
                              ![t].tp = IF tp = 0 THEN @ ELSE tp]
  /\ UNCHANGED <<quote, ticker, earned>>

(* close_all of base.py, the kill switch: the positions, one by one.       *)
CloseAll ==
  LET open == {t \in Tickets : Is(t, "open")} IN
  /\ open # {}
  /\ earned' = [t \in Tickets |-> IF t \in open THEN earned[t] + Earned(orders[t], quote)
                                                ELSE earned[t]]
  /\ orders' = [t \in Tickets |-> IF t \in open THEN [orders[t] EXCEPT !.state = "gone"]
                                                ELSE orders[t]]
  /\ UNCHANGED <<quote, ticker>>

-----------------------------------------------------------------------------
(* on_quote.                                                               *)

(* The stop loss or the take profit of a position is hit.                  *)
Hit(o, q) ==
  IF o.side = "buy" THEN (o.sl # 0 /\ q[1] <= o.sl) \/ (o.tp # 0 /\ q[2] >= o.tp)
                    ELSE (o.sl # 0 /\ q[2] >= o.sl) \/ (o.tp # 0 /\ q[1] <= o.tp)

(* The price a pending order waits for; without one, the middle.           *)
Trigger(o, q) == IF o.price # 0 THEN o.price ELSE (q[1] + q[2]) \div 2

(* The quote has crossed it.                                               *)
Triggered(o, q) ==
  CASE o.kind = "limit" /\ o.side = "buy"  -> q[2] <= Trigger(o, q)
    [] o.kind = "limit" /\ o.side = "sell" -> q[1] >= Trigger(o, q)
    [] o.kind = "stop"  /\ o.side = "buy"  -> q[2] >= Trigger(o, q)
    [] o.kind = "stop"  /\ o.side = "sell" -> q[1] <= Trigger(o, q)

(* Filled at the price waited for, whatever the quote has become.          *)
Filled(o, q) ==
  [o EXCEPT !.state = "open", !.price = ApplyCosts(o.side, Trigger(o, q))]

(* Slip: an order that was filled stays among the pending ones, and is     *)
(* filled again when its position is over.                                 *)
AfterQuoteReopens(o, q) ==
  CASE o.state = "gone" /\ o.kind # "market" /\ Triggered(o, q) -> Filled(o, q)
    [] o.state = "open" /\ Hit(o, q)          -> [o EXCEPT !.state = "gone"]
    [] o.state = "pending" /\ Triggered(o, q) -> Filled(o, q)
    [] OTHER                                  -> o

(* What a quote makes of an order.  Positions are looked at before the     *)
(* pending orders are: one filled by this quote waits for the next.        *)
AfterQuote(o, q) ==
  CASE o.state = "open" /\ Hit(o, q)          -> [o EXCEPT !.state = "gone"]
    [] o.state = "pending" /\ Triggered(o, q) -> Filled(o, q)
    [] OTHER                                  -> o

OnQuote(q) ==
  LET hit == {t \in Tickets : Is(t, "open") /\ Hit(orders[t], q)} IN
  /\ quote' = q
  /\ orders' = [t \in Tickets |-> AfterQuote(orders[t], q)]
  /\ earned' = [t \in Tickets |-> IF t \in hit THEN earned[t] + Earned(orders[t], q)
                                               ELSE earned[t]]
  /\ UNCHANGED ticker

-----------------------------------------------------------------------------
Next ==
  \/ \E side \in Sides, price, sl, tp \in Prices \cup {0} :
       \/ PlaceMarket(side, price, sl, tp)
       \/ \E kind \in {"limit", "stop"} : PlacePending(kind, side, price, sl, tp)
  \/ \E t \in Tickets :
       \/ ClosePosition(t) \/ CancelOrder(t)
       \/ \E sl, tp \in Prices \cup {0} : ModifyPosition(t, sl, tp)
  \/ CloseAll
  \/ \E q \in Quotes : OnQuote(q)

Spec == Init /\ [][Next]_vars

-----------------------------------------------------------------------------
(* The paper broker is a Broker: whatever quotes, requests and kills come, *)
(* a ticket has one life, a pending order that was cancelled or filled     *)
(* does not come back, and a position adds to the balance when it ends and *)
(* never again.                                                            *)
Contract == INSTANCE Broker WITH life <- [t \in Tickets |-> orders[t].state]
IsABroker == Contract!Spec
=============================================================================
