-------------------------- MODULE SimulationProofs --------------------------
(***************************************************************************)
(* Proofs about what is simulated: the paper broker implements Broker, the *)
(* walk-forward analysis tests on what it has not trained on, and signals  *)
(* and simulated trades do not know the bars to come; and that every       *)
(* component around the live engine keeps its types.                       *)
(***************************************************************************)
EXTENDS TradingSideProofs, Sequences, WellFoundedInduction

-----------------------------------------------------------------------------
(* PaperBroker: its first state is one of Broker's, and each of its steps  *)
(* is a step of Broker or leaves it alone.                                 *)

LEMMA PaperConstants ==
  /\ PaperTickets \in Nat /\ Cost \in Nat /\ Prices \subseteq Nat
  /\ \A q \in Quotes : q[1] \in Nat /\ q[2] \in Nat
BY TradingParameters DEF TradingParameters, Paper!Parameters

(* What the refinement needs of the concrete state is its type: tickets    *)
(* are handed out in order, and one not yet handed out has no life.        *)
PaperInv == Paper!TypeOK

LEMMA PaperInvInit == Paper!Init => PaperInv
<1> SUFFICES ASSUME Paper!Init PROVE PaperInv
  OBVIOUS
<1>1. Paper!Unborn \in Paper!Orders /\ Paper!Unborn.state = "unborn"
  BY DEF Paper!Unborn, Paper!Orders, Paper!Sides
<1>2. /\ orders \in [Paper!Tickets -> Paper!Orders]
      /\ \A t \in Paper!Tickets : orders[t].state = "unborn"
  BY <1>1 DEF Paper!Init
<1>3. ticker = 1 /\ 1 \in 1..(PaperTickets + 1) /\ \A t \in Paper!Tickets : t >= 1
  BY PaperConstants DEF Paper!Init, Paper!Tickets
<1>4. earned \in [Paper!Tickets -> Int] /\ quote = Paper!NoQuote
  BY DEF Paper!Init
<1> QED
  BY <1>2, <1>3, <1>4 DEF PaperInv, Paper!TypeOK

-----------------------------------------------------------------------------
(* The operators on an order.                                              *)

LEMMA QuoteIsNat ==
  ASSUME NEW q \in Quotes \cup {Paper!NoQuote}
  PROVE  q[1] \in Nat /\ q[2] \in Nat
BY PaperConstants DEF Paper!NoQuote

LEMMA EarnedIsInt ==
  ASSUME NEW o \in Paper!Orders, NEW q \in Quotes \cup {Paper!NoQuote}
  PROVE  Paper!Earned(o, q) \in Int
<1>1. /\ o.price \in Int /\ Cost \in Int /\ q[1] \in Int /\ q[2] \in Int
  BY PaperConstants, QuoteIsNat DEF Paper!Orders
<1>2. \A side, b : b \in Int => Paper!ApplyCosts(side, b) \in Int
  BY <1>1 DEF Paper!ApplyCosts
<1> QED
  BY <1>1, <1>2 DEF Paper!Earned

LEMMA FilledIsOrder ==
  ASSUME NEW o \in Paper!Orders, NEW q \in Quotes
  PROVE  Paper!Filled(o, q) \in Paper!Orders /\ Paper!Filled(o, q).state = "open"
<1>1. q[1] \in Int /\ q[2] \in Int /\ o.price \in Int /\ Cost \in Int
  BY PaperConstants DEF Paper!Orders
<1>2. Paper!Trigger(o, q) \in Int
  BY <1>1 DEF Paper!Trigger
<1>3. Paper!ApplyCosts(o.side, Paper!Trigger(o, q)) \in Int
  BY <1>1, <1>2 DEF Paper!ApplyCosts
<1> QED
  BY <1>3 DEF Paper!Filled, Paper!Orders

(* A quote ends a position or fills a pending order, and no other order.   *)
LEMMA QuotedOrder ==
  ASSUME NEW o \in Paper!Orders, NEW q \in Quotes
  PROVE  LET n == Paper!AfterQuote(o, q)
         IN  /\ n \in Paper!Orders
             /\ \/ n = o /\ ~(o.state = "open" /\ Paper!Hit(o, q))
                \/ o.state = "open" /\ Paper!Hit(o, q) /\ n.state = "gone"
                \/ o.state = "pending" /\ n.state = "open"
<1>1. CASE o.state = "open" /\ Paper!Hit(o, q)
  <2>1. Paper!AfterQuote(o, q) = [o EXCEPT !.state = "gone"]
    BY <1>1 DEF Paper!AfterQuote
  <2>2. [o EXCEPT !.state = "gone"] \in Paper!Orders /\ [o EXCEPT !.state = "gone"].state = "gone"
    BY DEF Paper!Orders
  <2> QED
    BY <1>1, <2>1, <2>2
<1>2. CASE o.state = "pending" /\ Paper!Triggered(o, q)
  <2>1. Paper!AfterQuote(o, q) = Paper!Filled(o, q)
    BY <1>2 DEF Paper!AfterQuote
  <2> QED
    BY <1>2, <2>1, FilledIsOrder
<1>3. CASE ~(o.state = "open" /\ Paper!Hit(o, q)) /\ ~(o.state = "pending" /\ Paper!Triggered(o, q))
  BY <1>3 DEF Paper!AfterQuote
<1> QED
  BY <1>1, <1>2, <1>3

-----------------------------------------------------------------------------
(* The steps of Broker.                                                    *)

(* The refinement mapping.                                                 *)
Life == [t \in Paper!Tickets |-> orders[t].state]

(* What a step of the whole has to be.                                     *)
Abstractly == Paper!Contract!Next \/ UNCHANGED Paper!Contract!vars

(* A step that gives the orders new records of the right type and the      *)
(* unborn ones where they were keeps the invariant.                        *)
LEMMA OrdersMove ==
  ASSUME PaperInv, quote' \in Quotes \cup {Paper!NoQuote}, ticker' = ticker,
         orders' \in [Paper!Tickets -> Paper!Orders],
         earned' \in [Paper!Tickets -> Int],
         \A t \in Paper!Tickets : orders'[t].state = "unborn" <=> orders[t].state = "unborn"
  PROVE  PaperInv'
BY DEF PaperInv, Paper!TypeOK

(* The next ticket's order.                                                *)
LEMMA TicketGiven ==
  ASSUME PaperInv, NEW o \in Paper!Orders, o.state \in {"open", "gone", "pending"},
         ticker <= PaperTickets, ticker' = ticker + 1, orders' = [orders EXCEPT ![ticker] = o],
         UNCHANGED <<quote, earned>>
  PROVE  PaperInv' /\ Abstractly
<1>1. /\ ticker \in Paper!Tickets /\ orders[ticker].state = "unborn"
      /\ orders \in [Paper!Tickets -> Paper!Orders]
  BY PaperConstants DEF PaperInv, Paper!TypeOK, Paper!Tickets
<1>2. /\ orders' \in [Paper!Tickets -> Paper!Orders]
      /\ \A t \in Paper!Tickets : orders'[t] = IF t = ticker THEN o ELSE orders[t]
  BY <1>1
<1>3. ticker' \in 1..(PaperTickets + 1)
      /\ \A t \in Paper!Tickets : (t >= ticker' <=> t >= ticker /\ t # ticker)
  BY <1>1, PaperConstants DEF Paper!Tickets
<1>4. PaperInv'
  BY <1>2, <1>3 DEF PaperInv, Paper!TypeOK
<1>5. /\ Life[ticker] = "unborn"
      /\ Life' = [Life EXCEPT ![ticker] = o.state]
  BY <1>1, <1>2 DEF Life
<1>6. PICK t \in Paper!Tickets : t = ticker
  BY <1>1
<1>7. Paper!Contract!Place(t) \/ Paper!Contract!Refuse(t)
  BY <1>5, <1>6 DEF Life, Paper!Contract!Place, Paper!Contract!Refuse
<1>8. Paper!Contract!Next
  BY <1>7 DEF Paper!Contract!Next
<1> QED
  BY <1>4, <1>8 DEF Abstractly

LEMMA PaperOrders ==
  ASSUME PaperInv, NEW side \in Paper!Sides, NEW price \in Prices \cup {0},
         NEW sl \in Prices \cup {0}, NEW tp \in Prices \cup {0},
         \/ Paper!PlaceMarket(side, price, sl, tp)
         \/ \E kind \in {"limit", "stop"} : Paper!PlacePending(kind, side, price, sl, tp)
  PROVE  PaperInv' /\ Abstractly
<1>1. price \in Int /\ quote[1] \in Int /\ quote[2] \in Int /\ Cost \in Int
  BY PaperConstants, QuoteIsNat DEF PaperInv, Paper!TypeOK
<1>2. CASE Paper!PlaceMarket(side, price, sl, tp)
  <2> DEFINE base == IF quote = Paper!NoQuote THEN price
                     ELSE IF side = "buy" THEN Paper!Ask ELSE Paper!Bid
             o == [state |-> IF base = 0 THEN "gone" ELSE "open", kind |-> "market",
                   side |-> side, price |-> IF base = 0 THEN 0 ELSE Paper!ApplyCosts(side, base),
                   sl |-> sl, tp |-> tp]
  <2>1. base \in Int
    BY <1>1 DEF Paper!Ask, Paper!Bid
  <2>2. Paper!ApplyCosts(side, base) \in Int
    BY <1>1, <2>1 DEF Paper!ApplyCosts
  <2>3. o.state \in {"open", "gone", "pending"}
    OBVIOUS
  <2>4. o \in Paper!Orders
    BY <2>2 DEF Paper!Orders
  <2>5. /\ ticker <= PaperTickets /\ ticker' = ticker + 1
        /\ orders' = [orders EXCEPT ![ticker] = o] /\ UNCHANGED <<quote, earned>>
    BY <1>2 DEF Paper!PlaceMarket
  <2> HIDE DEF o
  <2> QED
    BY <2>3, <2>4, <2>5, TicketGiven
<1>3. ASSUME NEW kind \in {"limit", "stop"}, Paper!PlacePending(kind, side, price, sl, tp)
      PROVE  PaperInv' /\ Abstractly
  <2> DEFINE o == [state |-> "pending", kind |-> kind, side |-> side, price |-> price,
                   sl |-> sl, tp |-> tp]
  <2>1. o \in Paper!Orders /\ o.state = "pending"
    BY <1>1 DEF Paper!Orders
  <2>2. /\ ticker <= PaperTickets /\ ticker' = ticker + 1
        /\ orders' = [orders EXCEPT ![ticker] = o] /\ UNCHANGED <<quote, earned>>
    BY <1>3 DEF Paper!PlacePending
  <2> HIDE DEF o
  <2> QED
    BY <2>1, <2>2, TicketGiven
<1> QED
  BY <1>2, <1>3

LEMMA PaperTicketSteps ==
  ASSUME PaperInv, NEW t \in Paper!Tickets,
         \/ Paper!ClosePosition(t) \/ Paper!CancelOrder(t)
         \/ \E sl, tp \in Prices \cup {0} : Paper!ModifyPosition(t, sl, tp)
  PROVE  PaperInv' /\ Abstractly
<1>0. /\ orders \in [Paper!Tickets -> Paper!Orders] /\ earned \in [Paper!Tickets -> Int]
      /\ quote \in Quotes \cup {Paper!NoQuote}
  BY DEF PaperInv, Paper!TypeOK
<1>1. CASE Paper!ClosePosition(t) \/ Paper!CancelOrder(t)
  <2>1. /\ orders[t].state \in {"open", "pending"}
        /\ orders' = [orders EXCEPT ![t].state = "gone"] /\ UNCHANGED <<quote, ticker>>
    BY <1>1 DEF Paper!ClosePosition, Paper!CancelOrder, Paper!Is
  <2>2. [orders[t] EXCEPT !.state = "gone"] \in Paper!Orders
    BY <1>0 DEF Paper!Orders
  <2>3. /\ orders' \in [Paper!Tickets -> Paper!Orders]
        /\ \A u \in Paper!Tickets :
             orders'[u].state = IF u = t THEN "gone" ELSE orders[u].state
    BY <1>0, <2>1, <2>2 DEF Paper!Orders
  <2>4. Life' = [Life EXCEPT ![t] = "gone"] /\ Life[t] = orders[t].state
    BY <2>3 DEF Life
  <2>5. CASE Paper!CancelOrder(t)
    <3>1. earned' = earned /\ orders[t].state = "pending"
      BY <2>5 DEF Paper!CancelOrder, Paper!Is
    <3>2. Paper!Contract!Cancel(t)
      BY <2>4, <3>1 DEF Life, Paper!Contract!Cancel
    <3> QED
      BY <1>0, <2>1, <2>3, <3>1, <3>2, OrdersMove DEF Abstractly, Paper!Contract!Next
  <2>6. CASE Paper!ClosePosition(t)
    <3>1. /\ orders[t].state = "open"
          /\ earned' = [earned EXCEPT ![t] = @ + Paper!Earned(orders[t], quote)]
      BY <2>6 DEF Paper!ClosePosition, Paper!Is
    <3>2. /\ earned' \in [Paper!Tickets -> Int]
          /\ \A u \in Paper!Tickets \ {t} : earned'[u] = earned[u]
      BY <1>0, <3>1, EarnedIsInt
    <3>3. Paper!Contract!Close(t)
      BY <2>4, <3>1, <3>2 DEF Life, Paper!Contract!Close, Paper!Contract!Settles
    <3> QED
      BY <1>0, <2>1, <2>3, <3>2, <3>3, OrdersMove DEF Abstractly, Paper!Contract!Next
  <2> QED
    BY <1>1, <2>5, <2>6
<1>2. ASSUME NEW sl \in Prices \cup {0}, NEW tp \in Prices \cup {0}, Paper!ModifyPosition(t, sl, tp)
      PROVE  PaperInv' /\ Abstractly
  <2> DEFINE o == [orders[t] EXCEPT !.sl = IF sl = 0 THEN orders[t].sl ELSE sl,
                                    !.tp = IF tp = 0 THEN orders[t].tp ELSE tp]
  <2>1. orders' = [orders EXCEPT ![t] = o] /\ UNCHANGED <<quote, ticker, earned>>
    BY <1>0, <1>2 DEF Paper!ModifyPosition
  <2>2. o \in Paper!Orders /\ o.state = orders[t].state
    BY <1>0 DEF Paper!Orders
  <2> HIDE DEF o
  <2>3. /\ orders' \in [Paper!Tickets -> Paper!Orders]
        /\ \A u \in Paper!Tickets : orders'[u].state = orders[u].state
    BY <1>0, <2>1, <2>2
  <2>4. Life' = Life
    BY <2>3 DEF Life
  <2> QED
    BY <1>0, <2>1, <2>3, <2>4, OrdersMove DEF Abstractly, Life, Paper!Contract!vars
<1> QED
  BY <1>1, <1>2

(* What a step of Quote needs: who ended was open, who was filled pending. *)
LEMMA QuoteStep ==
  ASSUME NEW ended \in SUBSET {t \in Paper!Tickets : orders[t].state = "open"},
         NEW filled \in SUBSET {t \in Paper!Tickets : orders[t].state = "pending"},
         \A t \in Paper!Tickets :
           orders'[t].state = IF t \in ended THEN "gone"
                              ELSE IF t \in filled THEN "open" ELSE orders[t].state,
         earned' \in [Paper!Tickets -> Int],
         \A t \in Paper!Tickets \ ended : earned'[t] = earned[t]
  PROVE  Abstractly
<1>1. /\ ended \in SUBSET {t \in Paper!Tickets : Life[t] = "open"}
      /\ filled \in SUBSET {t \in Paper!Tickets : Life[t] = "pending"}
  BY DEF Life
<1>2. Life' = [t \in Paper!Tickets |-> CASE t \in ended  -> "gone"
                                         [] t \in filled -> "open"
                                         [] OTHER        -> Life[t]]
  BY DEF Life
<1>3. Paper!Contract!Settles(ended)
  BY DEF Paper!Contract!Settles
<1>4. Paper!Contract!Quote
  BY <1>1, <1>2, <1>3 DEF Life, Paper!Contract!Quote
<1> QED
  BY <1>4 DEF Abstractly, Paper!Contract!Next

LEMMA PaperClosesAll ==
  ASSUME PaperInv, Paper!CloseAll
  PROVE  PaperInv' /\ Abstractly
<1> DEFINE open == {t \in Paper!Tickets : orders[t].state = "open"}
           none == {}
<1>0. /\ orders \in [Paper!Tickets -> Paper!Orders] /\ earned \in [Paper!Tickets -> Int]
      /\ quote \in Quotes \cup {Paper!NoQuote}
  BY DEF PaperInv, Paper!TypeOK
<1>1. /\ earned' = [t \in Paper!Tickets |->
                      IF t \in open THEN earned[t] + Paper!Earned(orders[t], quote) ELSE earned[t]]
      /\ orders' = [t \in Paper!Tickets |->
                      IF t \in open THEN [orders[t] EXCEPT !.state = "gone"] ELSE orders[t]]
      /\ UNCHANGED <<quote, ticker>>
  BY DEF Paper!CloseAll, Paper!Is
<1>2. \A t \in Paper!Tickets : [orders[t] EXCEPT !.state = "gone"] \in Paper!Orders
  BY <1>0 DEF Paper!Orders
<1>3. /\ orders' \in [Paper!Tickets -> Paper!Orders]
      /\ \A t \in Paper!Tickets :
           orders'[t].state = IF t \in open THEN "gone" ELSE orders[t].state
  BY <1>0, <1>1, <1>2 DEF Paper!Orders
<1>4. /\ earned' \in [Paper!Tickets -> Int]
      /\ \A t \in Paper!Tickets \ open : earned'[t] = earned[t]
  BY <1>0, <1>1, EarnedIsInt
<1>5. PaperInv'
  BY <1>0, <1>1, <1>3, <1>4, OrdersMove
<1>6. /\ open \in SUBSET {t \in Paper!Tickets : orders[t].state = "open"}
      /\ none \in SUBSET {t \in Paper!Tickets : orders[t].state = "pending"}
      /\ \A t \in Paper!Tickets :
           orders'[t].state = IF t \in open THEN "gone"
                              ELSE IF t \in none THEN "open" ELSE orders[t].state
  BY <1>3
<1> HIDE DEF open, none
<1>7. Abstractly
  BY <1>4, <1>6, QuoteStep, Zenon
<1> QED
  BY <1>5, <1>7

LEMMA PaperQuotes ==
  ASSUME PaperInv, NEW q \in Quotes, Paper!OnQuote(q)
  PROVE  PaperInv' /\ Abstractly
<1> DEFINE hit == {t \in Paper!Tickets : orders[t].state = "open" /\ Paper!Hit(orders[t], q)}
           filled == {t \in Paper!Tickets : orders[t].state = "pending" /\ orders'[t].state = "open"}
<1>0. /\ orders \in [Paper!Tickets -> Paper!Orders] /\ earned \in [Paper!Tickets -> Int]
  BY DEF PaperInv, Paper!TypeOK
<1>1. /\ quote' = q /\ ticker' = ticker
      /\ orders' = [t \in Paper!Tickets |-> Paper!AfterQuote(orders[t], q)]
      /\ earned' = [t \in Paper!Tickets |->
                      IF t \in hit THEN earned[t] + Paper!Earned(orders[t], q) ELSE earned[t]]
  BY DEF Paper!OnQuote, Paper!Is
<1>2. \A t \in Paper!Tickets :
        /\ orders'[t] \in Paper!Orders
        /\ \/ orders'[t] = orders[t] /\ t \notin hit
           \/ t \in hit /\ orders'[t].state = "gone"
           \/ orders[t].state = "pending" /\ orders'[t].state = "open"
  BY <1>0, <1>1, QuotedOrder
<1>3. orders' \in [Paper!Tickets -> Paper!Orders]
  BY <1>1, <1>2
<1>4. /\ earned' \in [Paper!Tickets -> Int]
      /\ \A t \in Paper!Tickets \ hit : earned'[t] = earned[t]
  BY <1>0, <1>1, EarnedIsInt
<1>5. PaperInv'
  BY <1>1, <1>2, <1>3, <1>4, OrdersMove
<1>6. \A t \in Paper!Tickets :
        orders'[t].state = IF t \in hit THEN "gone"
                           ELSE IF t \in filled THEN "open" ELSE orders[t].state
  BY <1>2
<1>7. /\ hit \in SUBSET {t \in Paper!Tickets : orders[t].state = "open"}
      /\ filled \in SUBSET {t \in Paper!Tickets : orders[t].state = "pending"}
  OBVIOUS
<1> HIDE DEF hit, filled
<1>8. Abstractly
  BY <1>4, <1>6, <1>7, QuoteStep, Zenon
<1> QED
  BY <1>5, <1>8

LEMMA PaperStep == PaperInv /\ [Next]_vars => PaperInv' /\ Abstractly
<1> SUFFICES ASSUME PaperInv, [Next]_vars PROVE PaperInv' /\ Abstractly
  OBVIOUS
<1>1. ASSUME NEW q \in Quotes, Paper!OnQuote(q) PROVE PaperInv' /\ Abstractly
  BY <1>1, PaperQuotes
<1>2. CASE UNCHANGED paper
  BY <1>2 DEF paper, PaperInv, Paper!TypeOK, Abstractly, Paper!Contract!vars
<1> QED
  BY <1>1, <1>2, PaperOrders, PaperTicketSteps, PaperClosesAll, StepOfEach DEF Paper!Next

(* Tickets are handed out in order, and orders and positions keep their    *)
(* types, for any quotes.                                                  *)
THEOREM PaperInvariant == Spec => []PaperInv
<1>1. Init => PaperInv
  BY PaperInvInit DEF Init
<1>2. PaperInv /\ [Next]_vars => PaperInv'
  BY PaperStep
<1> QED
  BY <1>1, <1>2, PTL DEF Spec

(* The paper broker is a Broker for any number of tickets, any quotes and  *)
(* any costs: a ticket has one life, nothing that ended comes back, and a  *)
(* position adds to the balance when it ends and never again.              *)
THEOREM PaperIsABroker == Spec => IsABroker
<1>1. Init => Paper!Contract!Init
  BY DEF Init, Paper!Init, Paper!Contract!Init, Paper!Unborn
<1>2. PaperInv /\ [Next]_vars => [Paper!Contract!Next]_(Paper!Contract!vars)
  BY PaperStep DEF Abstractly
<1> QED
  BY <1>1, <1>2, PaperInvariant, PTL DEF Spec, IsABroker, Paper!IsABroker, Paper!Contract!Spec
-----------------------------------------------------------------------------
(* Backtest: the windows of the walk-forward analysis.                     *)

WindowType == [trainStart : Nat, trainEnd : Int, testStart : Nat, testEnd : Nat]
Bars       == [at : Nat, shape : Shapes]

TestInv ==
  /\ strategy \in Strategies
  /\ bars \in Seq(Bars) /\ Len(bars) <= Len(Times)
  /\ \A i \in 1..Len(bars) : bars[i].at = Times[i]
  /\ windows \in Seq(WindowType) /\ Test!OutOfSample

LEMMA TestConstants ==
  Times \in Seq(Nat) /\ Histories \subseteq Nat \ {0} /\ Splits \subseteq Nat \ {0}
BY TradingParameters DEF TradingParameters, Test!Parameters

LEMMA Steps ==
  ASSUME NEW total \in Nat, NEW splits \in Nat, splits # 0, total >= splits * 10
  PROVE  LET step == total \div splits IN step \in Nat /\ step >= 10 /\ step * splits <= total
OBVIOUS

LEMMA Trained ==
  ASSUME NEW step \in Nat, step >= 10
  PROVE  LET train == (step * 70) \div 100 IN train \in Nat /\ 1 <= train /\ train < step
OBVIOUS

LEMMA Products ==
  ASSUME NEW step \in Nat, NEW splits \in Nat, NEW k \in 1..splits
  PROVE  /\ (k - 1) * step \in Nat /\ (k - 1) * step + step <= step * splits
         /\ k - 1 \in 1..splits => ((k - 1) - 1) * step + step = (k - 1) * step
<1>1. PICK a \in Nat : a = splits - k
  OBVIOUS
<1>2. splits = k + a /\ k \in Nat /\ k >= 1 /\ a * step \in Nat
  BY <1>1
<1>3. step * splits = (k - 1) * step + step + a * step
  BY <1>2
<1>4. (k - 1) * step \in Nat
  BY <1>2
<1> QED
  BY <1>2, <1>3, <1>4

(* A window of a split trains on its first bars and tests on the others.   *)
LEMMA OneWindow ==
  ASSUME NEW total \in Nat, NEW step \in Nat, NEW train \in Nat, 1 <= train, train < step,
         NEW p \in Nat, p + step <= total
  PROVE  /\ Test!Window(total, step, train, p) =
              [trainStart |-> p, trainEnd |-> p + train - 1, testStart |-> p + train,
               testEnd |-> p + step - 1]
         /\ Test!Window(total, step, train, p) \in WindowType
<1>2. Test!Smaller(p + train - 1, total - 1) = p + train - 1
  BY DEF Test!Smaller
<1>3. /\ Test!TestStart(p + train - 1) = p + train
      /\ Test!Smaller(Test!TestStart(p + train - 1) + step - train - 1, total - 1) = p + step - 1
  BY DEF Test!Smaller, Test!TestStart
<1>4. Test!Window(total, step, train, p) =
        [trainStart |-> p, trainEnd |-> p + train - 1, testStart |-> p + train,
         testEnd |-> p + step - 1]
  BY <1>2, <1>3, Zenon DEF Test!Window
<1>5. p + train \in Nat /\ p + step - 1 \in Nat /\ p + train - 1 \in Int
  OBVIOUS
<1> QED
  BY <1>4, <1>5 DEF WindowType

LEMMA SequenceOf ==
  ASSUME NEW S, NEW n \in Nat, NEW f \in [1..n -> S]
  PROVE  f \in Seq(S) /\ Len(f) = n
OBVIOUS

LEMMA OneElement == \A S : \A x \in S : <<x>> \in Seq(S) /\ Len(<<x>>) = 1
OBVIOUS

LEMMA WindowsApart ==
  ASSUME NEW total \in Histories, NEW splits \in Splits, windows' = Test!BuildWindows(total, splits, 70)
  PROVE  windows' \in Seq(WindowType) /\ Test!OutOfSample'
<1>0. total \in Nat /\ total >= 1 /\ splits \in Nat /\ splits # 0
  BY TestConstants
<1>1. CASE total < splits * 10
  <2> DEFINE w == [trainStart |-> 0, trainEnd |-> total - 1, testStart |-> 0, testEnd |-> total - 1]
  <2>1. windows' = <<w>> /\ w \in WindowType
    BY <1>0, <1>1 DEF Test!BuildWindows, WindowType
  <2> HIDE DEF w
  <2>2. windows' \in Seq(WindowType) /\ Len(windows') = 1
    BY <2>1, OneElement
  <2>3. ~(Len(windows') > 1)
    BY <2>2
  <2>4. Test!OutOfSample'
    BY <2>3 DEF Test!OutOfSample
  <2> QED
    BY <2>2, <2>4
<1>2. CASE ~(total < splits * 10)
  <2>1. PICK step \in Nat : step = total \div splits /\ step >= 10 /\ step * splits <= total
    BY <1>0, <1>2, Steps
  <2>2. PICK train \in Nat : train = (step * 70) \div 100 /\ 1 <= train /\ train < step
    BY <2>1, Trained
  <2> DEFINE f == [k \in 1..splits |-> Test!Window(total, step, train, (k - 1) * step)]
             empty == {k \in 1..splits : Test!Window(total, step, train, (k - 1) * step).testStart >= total}
  <2>3. \A k \in 1..splits :
          /\ (k - 1) * step \in Nat /\ (k - 1) * step + step <= total
          /\ k - 1 \in 1..splits => ((k - 1) - 1) * step + step = (k - 1) * step
    <3> TAKE k \in 1..splits
    <3>1. /\ (k - 1) * step \in Nat /\ (k - 1) * step + step <= step * splits
          /\ k - 1 \in 1..splits => ((k - 1) - 1) * step + step = (k - 1) * step
      BY <1>0, Products
    <3>2. step * splits \in Nat
      BY <1>0
    <3> QED
      BY <1>0, <2>1, <3>1, <3>2
  <2>4. \A k \in 1..splits :
          /\ f[k] \in WindowType
          /\ f[k].trainStart = (k - 1) * step /\ f[k].trainEnd = (k - 1) * step + train - 1
          /\ f[k].testStart = (k - 1) * step + train /\ f[k].testEnd = (k - 1) * step + step - 1
    <3> TAKE k \in 1..splits
    <3>1. f[k] = Test!Window(total, step, train, (k - 1) * step)
      OBVIOUS
    <3> HIDE DEF f, empty
    <3>2. PICK p \in Nat : p = (k - 1) * step /\ p + step <= total
      BY <2>3
    <3>6. p + step <= total
      BY <3>2
    <3>3. total \in Nat /\ step \in Nat /\ train \in Nat /\ 1 <= train /\ train < step
      BY <1>0, <2>2
    <3>4. /\ f[k] = [trainStart |-> p, trainEnd |-> p + train - 1, testStart |-> p + train,
                     testEnd |-> p + step - 1]
          /\ f[k] \in WindowType
      <4>1. /\ Test!Window(total, step, train, p) =
                 [trainStart |-> p, trainEnd |-> p + train - 1, testStart |-> p + train,
                  testEnd |-> p + step - 1]
            /\ Test!Window(total, step, train, p) \in WindowType
        BY <3>3, <3>6, OneWindow
      <4>2. f[k] = Test!Window(total, step, train, p)
        BY <3>1, <3>2, Zenon
      <4> QED
        BY <4>1, <4>2, Zenon
    <3>5. /\ f[k] \in WindowType
          /\ f[k].trainStart = p /\ f[k].trainEnd = p + train - 1
          /\ f[k].testStart = p + train /\ f[k].testEnd = p + step - 1
      BY <3>4
    <3> QED
      BY <3>2, <3>5, Zenon
  <2>5. empty = {}
    <3>1. \A k \in 1..splits : f[k].testStart < total /\ f[k].testStart \in Nat
      <4> TAKE k \in 1..splits
      <4> HIDE DEF f, empty
      <4>1. PICK p \in Nat : p = (k - 1) * step /\ p + step <= total
        BY <2>3
      <4>2. f[k].testStart = p + train
        BY <2>4, <4>1
      <4> QED
        BY <1>0, <2>2, <4>1, <4>2
    <3>2. empty = {k \in 1..splits : f[k].testStart >= total}
      OBVIOUS
    <3> HIDE DEF f, empty
    <3> QED
      BY <1>0, <3>1, <3>2
  <2>6. windows' = [k \in 1..(IF empty = {} THEN splits ELSE Test!Min(empty) - 1) |->
                      Test!Window(total, step, train, (k - 1) * step)]
    BY <1>2, <2>1, <2>2 DEF Test!BuildWindows
  <2> HIDE DEF empty
  <2>7. windows' = f
    BY <2>5, <2>6
  <2> HIDE DEF f
  <2>8. f \in [1..splits -> WindowType]
    BY <2>4 DEF f
  <2>9. windows' \in Seq(WindowType) /\ Len(windows') = splits /\ DOMAIN windows' = 1..splits
    BY <1>0, <2>7, <2>8, SequenceOf
  <2>10. ASSUME NEW k \in 1..splits
         PROVE  LET w == windows'[k] IN
                /\ w.trainStart <= w.trainEnd /\ w.trainEnd < w.testStart
                /\ w.testStart <= w.testEnd
                /\ k > 1 => windows'[k - 1].testEnd < w.trainStart
    <3>1. PICK p \in Nat : p = (k - 1) * step
      BY <2>3
    <3>2. /\ f[k].trainStart = p /\ f[k].trainEnd = p + train - 1
          /\ f[k].testStart = p + train /\ f[k].testEnd = p + step - 1
      BY <2>4, <3>1
    <3>3. k > 1 => f[k - 1].testEnd = p - 1
      <4>1. ASSUME k > 1 PROVE f[k - 1].testEnd = p - 1
        <5>1. k - 1 \in 1..splits
          BY <1>0, <4>1
        <5>2. f[k - 1].testEnd = ((k - 1) - 1) * step + step - 1
          BY <2>4, <5>1
        <5>3. ((k - 1) - 1) * step + step = p
          BY <2>3, <3>1, <5>1
        <5>4. PICK r \in Int : r = ((k - 1) - 1) * step
          BY <1>0
        <5> QED
          BY <5>2, <5>3, <5>4
      <4> QED
        BY <4>1
    <3> QED
      BY <2>2, <2>7, <3>1, <3>2, <3>3
  <2> QED
    BY <2>9, <2>10 DEF Test!OutOfSample
<1> QED
  BY <1>1, <1>2

LEMMA TestInvInit == Test!Init => TestInv
BY TestConstants DEF Test!Init, TestInv, Test!OutOfSample

LEMMA TestStep == TestInv /\ [Next]_vars => TestInv'
<1> SUFFICES ASSUME TestInv, [Next]_vars PROVE TestInv'
  OBVIOUS
<1>1. CASE UNCHANGED test
  BY <1>1 DEF test, TestInv, Test!OutOfSample
<1>2. ASSUME NEW shape \in Shapes, Test!NewBar(shape) PROVE TestInv'
  <2> DEFINE b == [at |-> Times[Len(bars) + 1], shape |-> shape]
  <2>1. bars' = Append(bars, b) /\ Len(bars) < Len(Times) /\ UNCHANGED <<strategy, windows>>
    BY <1>2 DEF Test!NewBar
  <2>2. bars \in Seq(Bars) /\ Len(bars) \in Nat /\ Len(Times) \in Nat
    BY TestConstants DEF TestInv
  <2>3. b \in Bars /\ b.at = Times[Len(bars) + 1]
    <3>1. Times[Len(bars) + 1] \in Nat
      BY <2>1, <2>2, TestConstants
    <3> QED
      BY <3>1 DEF Bars
  <2> HIDE DEF b
  <2>4. /\ bars' \in Seq(Bars) /\ Len(bars') = Len(bars) + 1 /\ bars'[Len(bars) + 1] = b
        /\ \A i \in 1..Len(bars) : bars'[i] = bars[i]
    BY <2>1, <2>2, <2>3
  <2>5. \A i \in 1..Len(bars') : bars'[i].at = Times[i]
    BY <2>2, <2>3, <2>4 DEF TestInv
  <2> QED
    BY <2>1, <2>2, <2>4, <2>5 DEF TestInv, Test!OutOfSample
<1>3. ASSUME NEW total \in Histories, NEW splits \in Splits, Test!WalkForward(total, splits)
      PROVE  TestInv'
  BY <1>3, WindowsApart DEF Test!WalkForward, TestInv
<1> QED
  BY <1>1, <1>2, <1>3, StepOfEach DEF Test!Next

(* The bars come in their order, and the windows of a walk forward over    *)
(* any history are out of sample.                                          *)
THEOREM TestInvariant == Spec => []TestInv
<1>1. Init => TestInv
  BY TestInvInit DEF Init
<1> QED
  BY <1>1, TestStep, PTL DEF Spec

(* Of every history and number of splits: no bar of a test window is       *)
(* trained on, in its own split or another.                                *)
THEOREM WindowsAreOutOfSample == Spec => []Test!OutOfSample
<1>1. TestInv => Test!OutOfSample
  BY DEF TestInv
<1> QED
  BY <1>1, TestInvariant, PTL

-----------------------------------------------------------------------------
(* Backtest: what a signal is made of.                                     *)

(* Two histories that agree up to bar n.                                   *)
Agree(g, h, n) ==
  /\ n \in Nat /\ 1..n \subseteq DOMAIN g /\ 1..n \subseteq DOMAIN h
  /\ \A j \in 1..n : g[j] = h[j]
  /\ DOMAIN g \subseteq Nat \ {0} /\ DOMAIN h \subseteq Nat \ {0}

LEMMA Channels == EntryPeriod \in Nat \ {0} /\ ExitPeriod \in Nat \ {0}
BY TradingParameters DEF TradingParameters, Test!Parameters

LEMMA SameRolling ==
  ASSUME NEW g, NEW h, NEW n, Agree(g, h, n), NEW i \in 1..n, NEW p \in Nat \ {0},
         Test!HasRolling(p, i)
  PROVE  /\ Test!Highs(g, Test!Rolling(p, i)) = Test!Highs(h, Test!Rolling(p, i))
         /\ Test!Lows(g, Test!Rolling(p, i)) = Test!Lows(h, Test!Rolling(p, i))
<1>1. \A j \in Test!Rolling(p, i) : g[j] = h[j]
  BY Channels DEF Agree, Test!HasRolling, Test!Rolling
<1> QED
  BY <1>1 DEF Test!Highs, Test!Lows

LEMMA SameBreaks ==
  ASSUME NEW g, NEW h, NEW n, Agree(g, h, n), NEW i \in 1..n
  PROVE  /\ Test!BreaksUp(g, i) <=> Test!BreaksUp(h, i)
         /\ Test!BreaksDown(g, i) <=> Test!BreaksDown(h, i)
<1>1. g[i] = h[i] /\ EntryPeriod \in Nat \ {0}
  BY Channels DEF Agree
<1>2. CASE Test!HasRolling(EntryPeriod, i)
  BY <1>1, <1>2, SameRolling DEF Test!BreaksUp, Test!BreaksDown
<1>3. CASE ~Test!HasRolling(EntryPeriod, i)
  BY <1>3 DEF Test!BreaksUp, Test!BreaksDown
<1> QED
  BY <1>2, <1>3

LEMMA SameShifted ==
  ASSUME NEW g, NEW h, NEW n, Agree(g, h, n), NEW i \in 1..n
  PROVE  Test!Shifted(g, i) = Test!Shifted(h, i) /\ Test!Shifted(h, i) \subseteq 1..n
<1>1. i - 1 \in DOMAIN g <=> i - 1 \in 1..n
  BY DEF Agree
<1>2. i - 1 \in DOMAIN h <=> i - 1 \in 1..n
  BY DEF Agree
<1> QED
  BY <1>1, <1>2 DEF Test!Shifted

LEMMA SameDonchian ==
  ASSUME NEW g, NEW h, NEW n, Agree(g, h, n), NEW i \in 1..n
  PROVE  Test!Donchian(g, i) = Test!Donchian(h, i)
<1>1. g[i] = h[i] /\ i \in Nat /\ ExitPeriod \in Nat \ {0}
  BY Channels DEF Agree
<1>2. \A j \in 1..n : /\ Test!BreaksUp(g, j) <=> Test!BreaksUp(h, j)
                      /\ Test!BreaksDown(g, j) <=> Test!BreaksDown(h, j)
  BY SameBreaks
<1> DEFINE up(x)   == Test!BreaksUp(x, i) /\ ~ \E j \in Test!Shifted(x, i) : Test!BreaksUp(x, j)
           down(x) == Test!BreaksDown(x, i) /\ ~ \E j \in Test!Shifted(x, i) : Test!BreaksDown(x, j)
<1>3. (up(g) <=> up(h)) /\ (down(g) <=> down(h))
  BY <1>2, SameShifted
<1>4. Test!ExitUp(g, i) = Test!ExitUp(h, i) /\ Test!ExitLow(g, i) = Test!ExitLow(h, i)
  <2>1. CASE Test!HasRolling(ExitPeriod, i)
    BY <1>1, <2>1, SameRolling DEF Test!ExitUp, Test!ExitLow
  <2>2. CASE ~Test!HasRolling(ExitPeriod, i)
    BY <2>2 DEF Test!ExitUp, Test!ExitLow
  <2> QED
    BY <2>1, <2>2
<1>5. \A x : Test!Donchian(x, i) =
        IF down(x) THEN Test!Short(x[i].shape, Test!ExitUp(x, i), x[i].shape.close \div 2)
        ELSE IF up(x) THEN Test!Long(x[i].shape, Test!ExitLow(x, i), (x[i].shape.close * 3) \div 2)
        ELSE Test!Flat
  BY DEF Test!Donchian, Test!Starts
<1> HIDE DEF up, down
<1> QED
  BY <1>1, <1>3, <1>4, <1>5

LEMMA SameTrend ==
  ASSUME NEW g, NEW h, NEW n, Agree(g, h, n), NEW i \in 1..n
  PROVE  Test!EmaAdx(g, i) = Test!EmaAdx(h, i) /\ Test!TVProxy(g, i) = Test!TVProxy(h, i)
<1>1. \A j \in 1..n : \A d : Test!Points(g, j, d) <=> Test!Points(h, j, d)
  BY DEF Agree, Test!Points
<1> DEFINE starts(x, d) == Test!Points(x, i, d) /\ ~ \E j \in Test!Shifted(x, i) : Test!Points(x, j, d)
<1>2. \A d : starts(g, d) <=> starts(h, d)
  BY <1>1, SameShifted
<1>3. \A x : Test!EmaAdx(x, i) = Test!Directed(x, i, starts(x, 1), starts(x, -1))
  BY DEF Test!EmaAdx, Test!Starts
<1>4. g[i] = h[i]
  BY DEF Agree
<1> HIDE DEF starts
<1>5. Test!EmaAdx(g, i) = Test!EmaAdx(h, i)
  BY <1>2, <1>3, <1>4 DEF Test!Directed
<1> QED
  BY <1>5 DEF Test!TVProxy

LEMMA SameOthers ==
  ASSUME NEW g, NEW h, NEW n, Agree(g, h, n), NEW i \in 1..n
  PROVE  Test!EmaRsi(g, i) = Test!EmaRsi(h, i) /\ Test!GridBot(g, i) = Test!GridBot(h, i)
<1>1. g[i] = h[i] /\ (i # 1 => i > 1 /\ g[i - 1] = h[i - 1])
  BY DEF Agree
<1>2. \A d : Test!Crosses(g, i, d) <=> Test!Crosses(h, i, d)
  BY <1>1 DEF Test!Crosses
<1>3. Test!EmaRsi(g, i) = Test!EmaRsi(h, i)
  BY <1>1, <1>2 DEF Test!EmaRsi, Test!Directed
<1>4. Test!GridBot(g, i) = Test!GridBot(h, i)
  BY <1>1 DEF Test!GridBot
<1> QED
  BY <1>3, <1>4

(* A bar's signal is the same in both histories, but for one strategy.     *)
LEMMA SameSignal ==
  ASSUME NEW g, NEW h, NEW n, Agree(g, h, n), NEW i \in 1..n, strategy # "ny_killzone",
         strategy \in Strategies
  PROVE  Test!Signals(g)[i] = Test!Signals(h)[i]
<1>1. i \in DOMAIN g /\ i \in DOMAIN h
  BY DEF Agree
<1>2. strategy \in {"donchian", "ema_adx", "ema_rsi", "tv_signal", "grid_bot"}
  BY TradingParameters DEF TradingParameters, Test!Parameters
<1> QED
  BY <1>1, <1>2, SameDonchian, SameTrend, SameOthers DEF Test!Signals

(* Whatever the bars are and however many, the strategies but that of the  *)
(* New York session decide on a bar by what is known on it, and no window  *)
(* of the walk-forward analysis tests on what is trained on.               *)
THEOREM NothingLooksAhead == "ny_killzone" \notin Strategies => (Spec => NoLookAhead)
<1> SUFFICES ASSUME "ny_killzone" \notin Strategies PROVE Spec => NoLookAhead
  OBVIOUS
<1>1. TestInv /\ [Next]_vars =>
        [\A i \in DOMAIN bars : Test!Signals(bars')[i] = Test!Signals(bars)[i]]_test
  <2> SUFFICES ASSUME TestInv, Test!Next, NEW i \in DOMAIN bars
               PROVE  Test!Signals(bars')[i] = Test!Signals(bars)[i]
    BY StepOfEach
  <2>1. ASSUME NEW shape \in Shapes, Test!NewBar(shape)
        PROVE  Test!Signals(bars')[i] = Test!Signals(bars)[i]
    <3> DEFINE b == [at |-> Times[Len(bars) + 1], shape |-> shape]
    <3>1. bars' = Append(bars, b)
      BY <2>1 DEF Test!NewBar
    <3> HIDE DEF b
    <3>2. PICK n \in Nat : n = Len(bars) /\ DOMAIN bars = 1..n /\ i \in 1..n
      BY DEF TestInv
    <3>3. Agree(bars', bars, n)
      BY <3>1, <3>2 DEF Agree, TestInv
    <3>4. strategy \in Strategies /\ strategy # "ny_killzone"
      BY DEF TestInv
    <3> QED
      BY <3>2, <3>3, <3>4, SameSignal
  <2>2. ASSUME NEW total \in Histories, NEW splits \in Splits, Test!WalkForward(total, splits)
        PROVE  Test!Signals(bars')[i] = Test!Signals(bars)[i]
    BY <2>2 DEF Test!WalkForward
  <2> QED
    BY <2>1, <2>2 DEF Test!Next
<1> QED
  BY <1>1, WindowsAreOutOfSample, TestInvariant, PTL
     DEF Spec, NoLookAhead, Test!NoLookAhead, Test!vars, test

-----------------------------------------------------------------------------
(* Backtest: the channels.                                                 *)

(* Induction: a set of numbers that is not empty has a least one.          *)
LEMMA LeastNumber ==
  ASSUME NEW T \in SUBSET Nat, T # {}
  PROVE  \E m \in T : \A n \in T : m <= n
<1> DEFINE R == OpToRel(<, Nat)
<1>1. IsWellFoundedOn(R, Nat)
  BY NatLessThanWellFounded
<1>2. \A n, m \in Nat : <<n, m>> \in R <=> n < m
  BY DEF OpToRel
<1> HIDE DEF R
<1>3. PICK m \in T : \A n \in T : ~ (<<n, m>> \in R)
  BY <1>1, WFMin
<1>4. \A n \in T : ~ (n < m)
  BY <1>2, <1>3
<1>5. \A n \in T : m <= n
  BY <1>4
<1> QED
  BY <1>5

LEMMA ShapeConstants ==
  /\ \A b \in Shapes : /\ b.low \in Nat /\ b.high \in Nat /\ b.close \in Nat
                       /\ b.low <= b.close /\ b.close <= b.high
  /\ Stop \in Nat /\ Target \in Nat /\ Slip \in Nat
BY TradingParameters DEF TradingParameters, Test!Parameters

LEMMA BarOf ==
  ASSUME NEW h \in Seq(Bars), NEW i \in 1..Len(h)
  PROVE  LET b == h[i].shape IN /\ b.low \in Nat /\ b.high \in Nat /\ b.close \in Nat
                                /\ b.low <= b.close /\ b.close <= b.high
<1>1. h[i] \in Bars
  OBVIOUS
<1>2. h[i].shape \in Shapes
  BY <1>1 DEF Bars
<1> QED
  BY <1>2, ShapeConstants

(* A channel over one bar or more has a top and a bottom.                  *)
HasTop(f, a, n) == \E k \in a..n : \A j \in a..n : f[j] <= f[k]

LEMMA TopGrows ==
  ASSUME NEW f, NEW a \in Nat, NEW m \in Nat, m > a, \A j \in a..m : f[j] \in Nat,
         HasTop(f, a, m - 1)
  PROVE  HasTop(f, a, m)
<1>1. PICK k \in a..(m - 1) : \A j \in a..(m - 1) : f[j] <= f[k]
  BY DEF HasTop
<1>2. k \in a..m /\ m \in a..m /\ \A j \in a..m : j = m \/ j \in a..(m - 1)
  OBVIOUS
<1>3. f[k] \in Nat /\ f[m] \in Nat
  BY <1>2
<1>4. CASE f[m] <= f[k]
  BY <1>1, <1>2, <1>3, <1>4 DEF HasTop
<1>5. CASE f[k] <= f[m]
  BY <1>1, <1>2, <1>3, <1>5 DEF HasTop
<1> QED
  BY <1>3, <1>4, <1>5

LEMMA TopOf ==
  ASSUME NEW f, NEW a \in Nat, NEW b \in Nat, a <= b, \A j \in a..b : f[j] \in Nat
  PROVE  HasTop(f, a, b)
<1> DEFINE T == {n \in Nat : n >= a /\ n <= b /\ ~HasTop(f, a, n)}
<1>1. T = {}
  <2>1. SUFFICES ASSUME T # {} PROVE FALSE
    OBVIOUS
  <2>2. T \in SUBSET Nat
    OBVIOUS
  <2>3. \A n \in T : n \in Nat /\ n >= a /\ n <= b /\ ~HasTop(f, a, n)
    OBVIOUS
  <2>4. \A n \in Nat : n >= a /\ n <= b /\ n \notin T => HasTop(f, a, n)
    OBVIOUS
  <2> HIDE DEF T
  <2>5. PICK m \in T : \A n \in T : m <= n
    BY <2>1, <2>2, LeastNumber
  <2>6. m \in Nat /\ m >= a /\ m <= b /\ ~HasTop(f, a, m)
    BY <2>3
  <2>7. CASE m = a
    BY <2>6, <2>7 DEF HasTop
  <2>8. CASE m > a
    <3>1. m - 1 \in Nat /\ m - 1 >= a /\ m - 1 <= b /\ ~(m <= m - 1)
      BY <2>6, <2>8
    <3>2. HasTop(f, a, m - 1)
      BY <2>4, <2>5, <3>1
    <3>3. \A j \in a..m : f[j] \in Nat
      BY <2>6
    <3> QED
      BY <2>6, <2>8, <3>2, <3>3, TopGrows
  <2> QED
    BY <2>6, <2>7, <2>8
<1>2. b \notin T
  BY <1>1
<1> QED
  BY <1>2

LEMMA ChannelTop ==
  ASSUME NEW h \in Seq(Bars), NEW a \in 1..Len(h), NEW b \in a..Len(h)
  PROVE  LET top == Test!Max(Test!Highs(h, a..b))
         IN  top \in Nat /\ \A j \in a..b : h[j].shape.high <= top
<1> DEFINE f == [j \in a..b |-> h[j].shape.high]
           S == Test!Highs(h, a..b)
<1>1. a \in Nat /\ b \in Nat /\ a <= b /\ a..b \subseteq 1..Len(h)
  OBVIOUS
<1>2. \A j \in a..b : f[j] \in Nat /\ f[j] = h[j].shape.high
  BY <1>1, BarOf
<1>3. S = {f[j] : j \in a..b}
  BY DEF Test!Highs
<1> HIDE DEF f, S
<1>4. HasTop(f, a, b)
  BY <1>1, <1>2, TopOf
<1>5. PICK k \in a..b : \A j \in a..b : f[j] <= f[k]
  BY <1>4 DEF HasTop
<1>6. f[k] \in S /\ \A y \in S : f[k] >= y
  BY <1>2, <1>3, <1>5
<1>7. Test!Max(S) \in S /\ \A y \in S : Test!Max(S) >= y
  BY <1>6 DEF Test!Max
<1>8. Test!Max(S) \in Nat /\ \A j \in a..b : f[j] <= Test!Max(S)
  BY <1>2, <1>3, <1>7
<1> QED
  BY <1>2, <1>8 DEF S

LEMMA ChannelBottom ==
  ASSUME NEW h \in Seq(Bars), NEW a \in 1..Len(h), NEW b \in a..Len(h)
  PROVE  LET bottom == Test!Min(Test!Lows(h, a..b))
         IN  bottom \in Nat /\ \A j \in a..b : bottom <= h[j].shape.low
<1> DEFINE f == [j \in a..b |-> h[j].shape.low]
           S == Test!Lows(h, a..b)
<1>1. a \in a..b /\ a..b \subseteq 1..Len(h)
  OBVIOUS
<1>2. \A j \in a..b : f[j] \in Nat /\ f[j] = h[j].shape.low
  BY <1>1, BarOf
<1>3. S = {f[j] : j \in a..b}
  BY DEF Test!Lows
<1> HIDE DEF f, S
<1>4. S \in SUBSET Nat /\ S # {} /\ \A j \in a..b : f[j] \in S
  BY <1>1, <1>2, <1>3
<1>5. PICK m \in S : \A n \in S : m <= n
  BY <1>4, LeastNumber
<1>6. Test!Min(S) \in S /\ \A n \in S : Test!Min(S) <= n
  BY <1>4, <1>5 DEF Test!Min
<1>7. Test!Min(S) \in Nat /\ \A j \in a..b : Test!Min(S) <= f[j]
  BY <1>4, <1>6
<1> QED
  BY <1>2, <1>7 DEF S

-----------------------------------------------------------------------------
(* Backtest: a signal has its stop, when it has one, on the losing side of *)
(* its target.                                                             *)

Stops == {S \in SUBSET Int : \A q, r \in S : q = r}

Signal == [dir : {-1, 0, 1}, entry : Int, sl : Stops, tp : Int]

Sane(s) == /\ s \in Signal
           /\ s.dir = 1 => \A q \in s.sl : q <= s.tp
           /\ s.dir = -1 => \A q \in s.sl : s.tp <= q

LEMMA OneStop == {} \in Stops /\ \A q \in Int : {q} \in Stops
BY DEF Stops

LEMMA LongIsSane ==
  ASSUME NEW b, b.close \in Int, NEW sl \in Stops, NEW tp \in Int, \A q \in sl : q <= tp
  PROVE  Sane(Test!Long(b, sl, tp))
BY DEF Test!Long, Sane, Signal

LEMMA ShortIsSane ==
  ASSUME NEW b, b.close \in Int, NEW sl \in Stops, NEW tp \in Int, \A q \in sl : tp <= q
  PROVE  Sane(Test!Short(b, sl, tp))
BY DEF Test!Short, Sane, Signal

LEMMA FlatIsSane == Sane(Test!Flat)
BY OneStop DEF Test!Flat, Sane, Signal

LEMMA DirectedIsSane ==
  ASSUME NEW h \in Seq(Bars), NEW i \in 1..Len(h), NEW isLong \in BOOLEAN, NEW isShort \in BOOLEAN
  PROVE  Sane(Test!Directed(h, i, isLong, isShort))
<1> DEFINE b == h[i].shape
<1>1. b.close \in Nat
  BY BarOf
<1> HIDE DEF b
<1>2. /\ b.close - Stop \in Int /\ b.close + Target \in Int /\ b.close - Stop <= b.close + Target
      /\ b.close + Stop \in Int /\ b.close - Target \in Int /\ b.close - Target <= b.close + Stop
      /\ b.close \in Int
  <2>1. Stop \in Nat /\ Target \in Nat
    BY ShapeConstants
  <2> QED
    BY <1>1, <2>1
<1>3. {b.close - Stop} \in Stops /\ {b.close + Stop} \in Stops
  BY <1>2, OneStop
<1>4. /\ Sane(Test!Long(b, {b.close - Stop}, b.close + Target))
      /\ Sane(Test!Short(b, {b.close + Stop}, b.close - Target))
  BY <1>2, <1>3, LongIsSane, ShortIsSane
<1> QED
  BY <1>4, FlatIsSane DEF Test!Directed, b

(* The bar before i and the channels that end with it.                     *)
LEMMA ChannelBefore ==
  ASSUME NEW h \in Seq(Bars), NEW i \in 1..Len(h), NEW p \in Nat \ {0}, Test!HasRolling(p, i)
  PROVE  LET a == h[i - 1].shape
             top == Test!Max(Test!Highs(h, Test!Rolling(p, i)))
             bottom == Test!Min(Test!Lows(h, Test!Rolling(p, i)))
         IN  /\ top \in Nat /\ a.high <= top /\ bottom \in Nat /\ bottom <= a.low
             /\ a.low \in Nat /\ a.high \in Nat /\ a.low <= a.high
<1> DEFINE a == h[i - 1].shape
<1>1. /\ i - p \in 1..Len(h) /\ i - 1 \in (i - p)..Len(h) /\ i - 1 \in (i - p)..(i - 1)
      /\ i - 1 \in 1..Len(h)
  BY DEF Test!HasRolling
<1>2. Test!Rolling(p, i) = (i - p)..(i - 1)
  BY DEF Test!Rolling
<1>3. /\ LET m == Test!Max(Test!Highs(h, (i - p)..(i - 1)))
          IN  m \in Nat /\ \A j \in (i - p)..(i - 1) : h[j].shape.high <= m
      /\ LET m == Test!Min(Test!Lows(h, (i - p)..(i - 1)))
          IN  m \in Nat /\ \A j \in (i - p)..(i - 1) : m <= h[j].shape.low
  BY <1>1, ChannelTop, ChannelBottom
<1>4. a.low \in Nat /\ a.high \in Nat /\ a.low <= a.close /\ a.close <= a.high /\ a.close \in Nat
  BY <1>1, BarOf
<1>5. a.low <= a.high
  BY <1>4
<1> QED
  BY <1>1, <1>2, <1>3, <1>4, <1>5

(* The stops of the exit channel, when it has its bars.                    *)
LEMMA ExitStops ==
  ASSUME NEW h \in Seq(Bars), NEW i \in 1..Len(h), i > 1
  PROVE  LET a == h[i - 1].shape
         IN  /\ Test!ExitUp(h, i) \in Stops /\ Test!ExitLow(h, i) \in Stops
             /\ \A q \in Test!ExitUp(h, i) : q \in Nat /\ a.low <= q
             /\ \A q \in Test!ExitLow(h, i) : q \in Nat /\ q <= a.high
<1> DEFINE a == h[i - 1].shape
           top == Test!Max(Test!Highs(h, Test!Rolling(ExitPeriod, i)))
           bottom == Test!Min(Test!Lows(h, Test!Rolling(ExitPeriod, i)))
<1>1. /\ Test!ExitUp(h, i) = IF Test!HasRolling(ExitPeriod, i) THEN {top} ELSE {}
      /\ Test!ExitLow(h, i) = IF Test!HasRolling(ExitPeriod, i) THEN {bottom} ELSE {}
  BY DEF Test!ExitUp, Test!ExitLow
<1>2. Test!HasRolling(ExitPeriod, i) =>
        /\ top \in Nat /\ a.high <= top /\ bottom \in Nat /\ bottom <= a.low
        /\ a.low \in Nat /\ a.high \in Nat /\ a.low <= a.high
  BY Channels, ChannelBefore
<1> HIDE DEF a, top, bottom
<1>3. Test!HasRolling(ExitPeriod, i) =>
        top \in Nat /\ a.low <= top /\ bottom \in Nat /\ bottom <= a.high
  BY <1>2
<1>4. Test!ExitUp(h, i) \in Stops /\ Test!ExitLow(h, i) \in Stops
  BY <1>1, <1>3, OneStop
<1> QED
  BY <1>1, <1>3, <1>4 DEF a

(* The channels that a break leaves behind: the stop is on the other side. *)
LEMMA DonchianIsSane ==
  ASSUME NEW h \in Seq(Bars), NEW i \in 1..Len(h)
  PROVE  Sane(Test!Donchian(h, i))
<1> DEFINE b == h[i].shape
           a == h[i - 1].shape
           over == Test!ExitUp(h, i)
           under == Test!ExitLow(h, i)
           top == Test!Max(Test!Highs(h, Test!Rolling(EntryPeriod, i)))
           bottom == Test!Min(Test!Lows(h, Test!Rolling(EntryPeriod, i)))
           up == Test!BreaksUp(h, i) /\ ~ \E j \in Test!Shifted(h, i) : Test!BreaksUp(h, j)
           down == Test!BreaksDown(h, i) /\ ~ \E j \in Test!Shifted(h, i) : Test!BreaksDown(h, j)
<1>1. b.close \in Nat
  BY BarOf
<1>2. /\ up => Test!HasRolling(EntryPeriod, i) /\ b.close > top
      /\ down => Test!HasRolling(EntryPeriod, i) /\ b.close < bottom
  BY DEF Test!BreaksUp, Test!BreaksDown
<1>3. Test!HasRolling(EntryPeriod, i) =>
        /\ top \in Nat /\ a.high <= top /\ bottom \in Nat /\ bottom <= a.low
        /\ a.low \in Nat /\ a.high \in Nat /\ a.low <= a.high
  BY Channels, ChannelBefore
<1>4. Test!HasRolling(EntryPeriod, i) => i > 1
  BY Channels DEF Test!HasRolling
<1>5. i > 1 =>
        /\ over \in Stops /\ under \in Stops
        /\ \A q \in over : q \in Nat /\ a.low <= q
        /\ \A q \in under : q \in Nat /\ q <= a.high
  BY ExitStops
<1>6. Test!Donchian(h, i) =
        IF down THEN Test!Short(b, over, b.close \div 2)
        ELSE IF up THEN Test!Long(b, under, (b.close * 3) \div 2)
        ELSE Test!Flat
  BY DEF Test!Donchian, Test!Starts
<1> HIDE DEF a, b, top, bottom, up, down, over, under
<1>7. down => Sane(Test!Short(b, over, b.close \div 2))
  <2> SUFFICES ASSUME down PROVE Sane(Test!Short(b, over, b.close \div 2))
    OBVIOUS
  <2>1. /\ over \in Stops /\ \A q \in over : q \in Nat /\ a.low <= q
        /\ a.low \in Nat /\ b.close < bottom /\ bottom \in Nat /\ bottom <= a.low
    BY <1>2, <1>3, <1>4, <1>5
  <2>2. b.close \in Int /\ b.close \div 2 \in Int /\ \A q \in over : b.close \div 2 <= q
    BY <1>1, <2>1
  <2> QED
    BY <2>1, <2>2, ShortIsSane
<1>8. up => Sane(Test!Long(b, under, (b.close * 3) \div 2))
  <2> SUFFICES ASSUME up PROVE Sane(Test!Long(b, under, (b.close * 3) \div 2))
    OBVIOUS
  <2>1. /\ under \in Stops /\ \A q \in under : q \in Nat /\ q <= a.high
        /\ a.high \in Nat /\ b.close > top /\ top \in Nat /\ a.high <= top
    BY <1>2, <1>3, <1>4, <1>5
  <2>2. /\ b.close \in Int /\ (b.close * 3) \div 2 \in Int
        /\ \A q \in under : q <= (b.close * 3) \div 2
    BY <1>1, <2>1
  <2> QED
    BY <2>1, <2>2, LongIsSane
<1> QED
  BY <1>6, <1>7, <1>8, FlatIsSane

LEMMA OthersAreSane ==
  ASSUME NEW h \in Seq(Bars), NEW i \in 1..Len(h)
  PROVE  /\ Sane(Test!EmaAdx(h, i)) /\ Sane(Test!TVProxy(h, i)) /\ Sane(Test!EmaRsi(h, i))
         /\ Sane(Test!GridBot(h, i)) /\ Sane(Test!NYKillzone(h, i))
<1> DEFINE b == h[i].shape
<1>1. b.close \in Nat /\ b.low \in Nat /\ b.high \in Nat /\ b.low <= b.close /\ b.close <= b.high
  BY BarOf
<1>2. \A p, q : Sane(Test!Directed(h, i, p, q))
  <2> TAKE p, q
  <2> DEFINE bp == IF p THEN TRUE ELSE FALSE
             bq == IF q THEN TRUE ELSE FALSE
  <2>1. Test!Directed(h, i, p, q) = Test!Directed(h, i, bp, bq)
    BY DEF Test!Directed
  <2>2. bp \in BOOLEAN /\ bq \in BOOLEAN
    OBVIOUS
  <2> HIDE DEF bp, bq
  <2> QED
    BY <2>1, <2>2, DirectedIsSane
<1>3. Sane(Test!EmaAdx(h, i)) /\ Sane(Test!TVProxy(h, i)) /\ Sane(Test!EmaRsi(h, i))
  BY <1>2 DEF Test!EmaAdx, Test!TVProxy, Test!EmaRsi
<1>4. Sane(Test!GridBot(h, i))
  <2> DEFINE s == [dir |-> 0, entry |-> b.close, sl |-> {b.close - Stop}, tp |-> b.close + Stop]
  <2>0. {b.close - Stop} \in Stops
    BY <1>1, ShapeConstants, OneStop
  <2>1. Sane(s)
    BY <1>1, <2>0, ShapeConstants DEF Sane, Signal
  <2>2. Test!GridBot(h, i) \in {s, Test!Flat}
    BY DEF Test!GridBot
  <2> HIDE DEF s
  <2> QED
    BY <2>1, <2>2, FlatIsSane
<1>5. Sane(Test!NYKillzone(h, i))
  <2> DEFINE over == b.high + Stop
             below == b.low - Stop
             up == b.close + Target
             down == b.close - Target
             short == Test!Short(b, {over}, down)
             long == Test!Long(b, {below}, up)
  <2>1. Test!NYKillzone(h, i) \in {Test!Flat, short, long}
    BY DEF Test!NYKillzone
  <2> HIDE DEF b
  <2>2. /\ b.close \in Int /\ over \in Int /\ down \in Int /\ below \in Int /\ up \in Int
        /\ down <= over /\ below <= up
    <3>1. Stop \in Nat /\ Target \in Nat
      BY ShapeConstants
    <3>2. \A low, high, close, stop, target \in Nat :
            low <= close /\ close <= high =>
              /\ close \in Int /\ high + stop \in Int /\ close - target \in Int
              /\ low - stop \in Int /\ close + target \in Int
              /\ close - target <= high + stop /\ low - stop <= close + target
      OBVIOUS
    <3> QED
      BY <1>1, <3>1, <3>2, Zenon
  <2> HIDE DEF over, below, up, down
  <2>3. Sane(short) /\ Sane(long)
    BY <2>2, OneStop, LongIsSane, ShortIsSane
  <2> HIDE DEF short, long
  <2> QED
    BY <2>1, <2>3, FlatIsSane
<1> QED
  BY <1>3, <1>4, <1>5

LEMMA SignalsAreSane ==
  ASSUME NEW h \in Seq(Bars), NEW i \in 1..Len(h), strategy \in Strategies
  PROVE  Sane(Test!Signals(h)[i])
<1>1. strategy \in {"donchian", "ema_adx", "ema_rsi", "tv_signal", "grid_bot", "ny_killzone"}
  BY TradingParameters DEF TradingParameters, Test!Parameters
<1>2. i \in DOMAIN h
  OBVIOUS
<1> QED
  BY <1>1, <1>2, DonchianIsSane, OthersAreSane DEF Test!Signals
-----------------------------------------------------------------------------
(* Backtest: the loop over the bars.                                       *)

Start == [position |-> Test!Flat, since |-> 0, trades |-> <<>>]

Looped(h, n, f) ==
  f = [k \in 0..n |-> IF k = 0 THEN Start
                       ELSE Test!Walk(f[k - 1], k, h, Test!Signals(h))]

LEMMA LoopGoesOn ==
  ASSUME NEW h, NEW m \in Nat, m > 0, NEW g, Looped(h, m - 1, g)
  PROVE  \E f : Looped(h, m, f)
<1> DEFINE W(x, k) == Test!Walk(x, k, h, Test!Signals(h))
           f == [k \in 0..m |-> IF k = m THEN W(g[m - 1], m) ELSE g[k]]
<1>1. g = [k \in 0..(m - 1) |-> IF k = 0 THEN Start ELSE W(g[k - 1], k)]
  BY DEF Looped
<1> HIDE DEF W
<1>2. \A k \in 0..(m - 1) : f[k] = g[k] /\ g[k] = IF k = 0 THEN Start ELSE W(g[k - 1], k)
  BY <1>1
<1>3. f[m] = W(g[m - 1], m) /\ m - 1 \in 0..(m - 1) /\ m # 0
  OBVIOUS
<1>4. \A k \in 0..m : f[k] = IF k = 0 THEN Start ELSE W(f[k - 1], k)
  <2> TAKE k \in 0..m
  <2> HIDE DEF f
  <2>1. CASE k = m
    BY <1>2, <1>3, <2>1
  <2>2. CASE k # m /\ k # 0
    <3>1. k \in 0..(m - 1) /\ k - 1 \in 0..(m - 1)
      BY <2>2
    <3> QED
      BY <1>2, <2>2, <3>1
  <2>3. CASE k = 0 /\ k # m
    BY <1>2, <2>3
  <2> QED
    BY <2>1, <2>2, <2>3
<1>5. f = [k \in 0..m |-> IF k = 0 THEN Start ELSE W(f[k - 1], k)]
  <2>1. f = [k \in 0..m |-> f[k]]
    OBVIOUS
  <2> HIDE DEF f
  <2> QED
    BY <1>4, <2>1, Zenon
<1>6. Looped(h, m, f)
  <2> HIDE DEF f
  <2> QED
    BY <1>5, Zenon DEF Looped, W
<1> HIDE DEF f
<1> QED
  BY <1>6

LEMMA LoopExists == \A h : \A n \in Nat : \E f : Looped(h, n, f)
<1> TAKE h
<1> DEFINE T == {n \in Nat : ~ \E f : Looped(h, n, f)}
<1>1. T = {}
  <2>1. SUFFICES ASSUME T # {} PROVE FALSE
    OBVIOUS
  <2>2. T \in SUBSET Nat
    OBVIOUS
  <2>3. \A n \in T : n \in Nat /\ ~ \E f : Looped(h, n, f)
    OBVIOUS
  <2>4. \A n \in Nat : n \notin T => \E f : Looped(h, n, f)
    OBVIOUS
  <2> HIDE DEF T
  <2>5. PICK m \in T : \A n \in T : m <= n
    BY <2>1, <2>2, LeastNumber
  <2>6. CASE m = 0
    <3> DEFINE f == [k \in 0..0 |-> Start]
    <3>1. f = [k \in 0..0 |-> IF k = 0 THEN Start ELSE Test!Walk(f[k - 1], k, h, Test!Signals(h))]
      OBVIOUS
    <3> HIDE DEF f
    <3>2. Looped(h, 0, f)
      BY <3>1, Zenon DEF Looped
    <3> QED
      BY <2>3, <2>6, <3>2
  <2>7. CASE m > 0
    <3>1. m - 1 \in Nat /\ ~(m <= m - 1) /\ m \in Nat
      BY <2>3, <2>7
    <3>2. PICK g : Looped(h, m - 1, g)
      BY <2>4, <2>5, <3>1
    <3>3. \E f : Looped(h, m, f)
      BY <2>7, <3>1, <3>2, LoopGoesOn
    <3> QED
      BY <2>3, <3>3
  <2>8. m \in Nat
    BY <2>3
  <2> QED
    BY <2>6, <2>7, <2>8
<1>2. \A n \in Nat : n \notin T => \E f : Looped(h, n, f)
  OBVIOUS
<1> QED
  BY <1>1, <1>2

LEMMA SimulationStep ==
  ASSUME NEW h \in Seq(Bars)
  PROVE  /\ Test!Simulation(h)[0] = Start
         /\ \A n \in 1..Len(h) :
              Test!Simulation(h)[n] = Test!Walk(Test!Simulation(h)[n - 1], n, h, Test!Signals(h))
<1> DEFINE f == Test!Simulation(h)
<1>1. f = CHOOSE g : Looped(h, Len(h), g)
  BY Zenon DEF Test!Simulation, Looped, Start
<1>2. Len(h) \in Nat
  OBVIOUS
<1>3. \E g : Looped(h, Len(h), g)
  BY <1>2, LoopExists
<1>4. Looped(h, Len(h), f)
  BY <1>1, <1>3, Zenon
<1> HIDE DEF f
<1> DEFINE W(x, k) == Test!Walk(x, k, h, Test!Signals(h))
<1>5. f = [k \in 0..Len(h) |-> IF k = 0 THEN Start ELSE W(f[k - 1], k)]
  BY <1>4, Zenon DEF Looped
<1> HIDE DEF W
<1>6. \A k \in 0..Len(h) : f[k] = IF k = 0 THEN Start ELSE W(f[k - 1], k)
  BY <1>5, Zenon
<1>7. f[0] = Start /\ \A n \in 1..Len(h) : f[n] = W(f[n - 1], n)
  BY <1>2, <1>6
<1> QED
  BY <1>7 DEF f, W
-----------------------------------------------------------------------------
(* Backtest: what a trade ends at.                                         *)

Trade == [dir : {-1, 1}, from : Nat, to : Nat, sl : Stops, tp : Int, entry : Int, exit : Int]

(* What a bar passes depends on direction, stop and target only.           *)
LEMMA SamePassed ==
  ASSUME NEW p, NEW q, p.dir = q.dir, p.sl = q.sl, p.tp = q.tp, NEW b
  PROVE  Test!Passed(p, b) = Test!Passed(q, b)
BY DEF Test!Passed

(* A price is passed by the bar's worst, or its best.                      *)
LEMMA PassedPrices ==
  ASSUME NEW p, Sane(p), p.dir # 0, NEW b, b.low \in Nat, b.high \in Nat, b.low <= b.high
  PROVE  \A q : /\ q \in Test!Passed(p, b) => q \in Int
                /\ q \in Test!Passed(p, b) <=>
                     \/ q \in p.sl /\ IF p.dir = 1 THEN b.low <= q ELSE q <= b.high
                     \/ q = p.tp /\ IF p.dir = 1 THEN q <= b.high ELSE b.low <= q
<1> SUFFICES ASSUME NEW q
             PROVE  /\ q \in Test!Passed(p, b) => q \in Int
                    /\ q \in Test!Passed(p, b) <=>
                         \/ q \in p.sl /\ IF p.dir = 1 THEN b.low <= q ELSE q <= b.high
                         \/ q = p.tp /\ IF p.dir = 1 THEN q <= b.high ELSE b.low <= q
  OBVIOUS
<1>1. p.sl \subseteq Int /\ p.tp \in Int /\ (p.dir = 1 \/ p.dir = -1)
  BY DEF Sane, Signal, Stops
<1>2. b.low \in Test!Traded(b) /\ b.high \in Test!Traded(b)
  BY DEF Test!Traded
<1>3. \A x \in Test!Traded(b) : x \in Int /\ b.low <= x /\ x <= b.high
  BY DEF Test!Traded
<1>4. \A x \in Test!Traded(b) : q \in Int => p.dir * (x - q) = IF p.dir = 1 THEN x - q ELSE q - x
  BY <1>1, <1>3
<1> DEFINE below == \E x \in Test!Traded(b) : p.dir * (x - q) <= 0
           above == \E x \in Test!Traded(b) : p.dir * (x - q) >= 0
<1>5. q \in Int => (below <=> IF p.dir = 1 THEN b.low <= q ELSE q <= b.high)
  <2> SUFFICES ASSUME q \in Int PROVE below <=> IF p.dir = 1 THEN b.low <= q ELSE q <= b.high
    OBVIOUS
  <2>1. below <=> \E x \in Test!Traded(b) : IF p.dir = 1 THEN x <= q ELSE q <= x
    BY <1>1, <1>3, <1>4
  <2> HIDE DEF below
  <2> QED
    BY <1>1, <1>2, <1>3, <2>1
<1>6. q \in Int => (above <=> IF p.dir = 1 THEN q <= b.high ELSE b.low <= q)
  <2> SUFFICES ASSUME q \in Int PROVE above <=> IF p.dir = 1 THEN q <= b.high ELSE b.low <= q
    OBVIOUS
  <2>1. above <=> \E x \in Test!Traded(b) : IF p.dir = 1 THEN q <= x ELSE x <= q
    BY <1>1, <1>3, <1>4
  <2> HIDE DEF above
  <2> QED
    BY <1>1, <1>2, <1>3, <2>1
<1>7. q \in Test!Passed(p, b) <=> (q \in p.sl /\ below) \/ (q = p.tp /\ above)
  BY Zenon DEF Test!Passed
<1> HIDE DEF below, above
<1> QED
  BY <1>1, <1>5, <1>6, <1>7

LEMMA NoExit ==
  ASSUME NEW p, Sane(p), p.dir # 0, NEW b, b.low \in Nat, b.high \in Nat, b.low <= b.high
  PROVE  Test!Exits(p, b) = {} <=> Test!Passed(p, b) = {}
<1>1. p.sl \subseteq Int /\ p.tp \in Int /\ (p.dir = 1 \/ p.dir = -1)
  BY DEF Sane, Signal, Stops
<1>2. \A q : q \in Test!Passed(p, b) <=>
               \/ q \in p.sl /\ IF p.dir = 1 THEN b.low <= q ELSE q <= b.high
               \/ q = p.tp /\ IF p.dir = 1 THEN q <= b.high ELSE b.low <= q
  BY PassedPrices
<1>3. Test!TouchesTarget(p, b) <=> IF p.dir = 1 THEN p.tp <= b.high ELSE b.low <= p.tp
  BY <1>1 DEF Test!TouchesTarget
<1>4. Test!TouchesStop(p, b) <=> \E q \in p.sl : IF p.dir = 1 THEN b.low <= q ELSE q <= b.high
  BY <1>1 DEF Test!TouchesStop
<1>5. Test!TouchesStop(p, b) \/ Test!TouchesTarget(p, b) <=> Test!Passed(p, b) # {}
  BY <1>2, <1>3, <1>4
<1>6. p.sl # {} => Test!AtStop(p) # {}
  BY DEF Test!AtStop
<1>7. Test!AtTarget(p) # {}
  BY DEF Test!AtTarget
<1>8. Test!Exits(p, b) = {} <=> ~(Test!TouchesStop(p, b) \/ Test!TouchesTarget(p, b))
  BY <1>4, <1>6, <1>7 DEF Test!Exits
<1> QED
  BY <1>5, <1>8

(* The exit is no better than any of the prices that the bar passes.       *)
LEMMA ExitIsWorse ==
  ASSUME NEW p, Sane(p), p.dir # 0, NEW b, b.low \in Nat, b.high \in Nat, b.low <= b.high,
         Test!Exits(p, b) # {}
  PROVE  LET e == Test!Max(Test!Exits(p, b))
         IN  e \in Int /\ \A q \in Test!Passed(p, b) : p.dir * (e - q) <= 0
<1>1. /\ p.sl \subseteq Int /\ p.tp \in Int /\ (p.dir = 1 \/ p.dir = -1) /\ Slip \in Nat
      /\ \A q, r \in p.sl : q = r
      /\ p.dir = 1 => \A q \in p.sl : q <= p.tp
      /\ p.dir = -1 => \A q \in p.sl : p.tp <= q
  BY ShapeConstants DEF Sane, Signal, Stops
<1>2. \A q : /\ q \in Test!Passed(p, b) => q \in Int
             /\ q \in Test!Passed(p, b) <=>
                  \/ q \in p.sl /\ IF p.dir = 1 THEN b.low <= q ELSE q <= b.high
                  \/ q = p.tp /\ IF p.dir = 1 THEN q <= b.high ELSE b.low <= q
  BY PassedPrices
<1>3. Test!TouchesStop(p, b) <=> \E q \in p.sl : IF p.dir = 1 THEN b.low <= q ELSE q <= b.high
  BY <1>1 DEF Test!TouchesStop
<1>4. ASSUME NEW e \in Int, Test!Exits(p, b) = {e} PROVE Test!Max(Test!Exits(p, b)) = e
  BY <1>4 DEF Test!Max
<1>5. \A x \in Int : p.dir * x = IF p.dir = 1 THEN x ELSE -x
  BY <1>1
<1>6. ASSUME NEW s \in Int, Test!Exits(p, b) = {s - p.dir * Slip},
             \A q \in Test!Passed(p, b) : IF p.dir = 1 THEN s <= q ELSE q <= s
      PROVE  LET e == Test!Max(Test!Exits(p, b))
             IN  e \in Int /\ \A q \in Test!Passed(p, b) : p.dir * (e - q) <= 0
  <2>1. s - p.dir * Slip = IF p.dir = 1 THEN s - Slip ELSE s + Slip
    BY <1>1, <1>5
  <2> DEFINE e == IF p.dir = 1 THEN s - Slip ELSE s + Slip
  <2>2. e \in Int /\ e = IF p.dir = 1 THEN s - Slip ELSE s + Slip
    <3>1. s - Slip \in Int /\ s + Slip \in Int
      BY <1>1
    <3> QED
      BY <3>1
  <2> HIDE DEF e
  <2>3. Test!Max(Test!Exits(p, b)) = e
    BY <1>4, <1>6, <2>1, <2>2
  <2>4. \A q \in Test!Passed(p, b) : q \in Int /\ (IF p.dir = 1 THEN e - q <= 0 ELSE q - e <= 0)
    BY <1>1, <1>2, <1>6, <2>2
  <2>5. \A q \in Test!Passed(p, b) : p.dir * (e - q) = IF p.dir = 1 THEN e - q ELSE -(e - q)
    BY <1>5, <2>2, <2>4
  <2>6. \A q \in Test!Passed(p, b) : p.dir * (e - q) <= 0
    BY <1>1, <2>2, <2>4, <2>5
  <2> QED
    BY <2>2, <2>3, <2>6
<1>7. CASE Test!TouchesStop(p, b)
  <2>1. PICK s \in p.sl : p.sl = {s}
    BY <1>1, <1>3, <1>7
  <2>2. Test!Exits(p, b) = {s - p.dir * Slip}
    BY <1>7, <2>1 DEF Test!Exits, Test!AtStop
  <2>3. \A q \in Test!Passed(p, b) : IF p.dir = 1 THEN s <= q ELSE q <= s
    BY <1>1, <1>2, <2>1
  <2>4. s \in Int
    BY <1>1
  <2> QED
    BY <1>6, <2>2, <2>3, <2>4
<1>8. CASE ~Test!TouchesStop(p, b)
  <2>1. Test!Exits(p, b) = {p.tp - p.dir * Slip}
    BY <1>8 DEF Test!Exits, Test!AtTarget
  <2>2. \A q \in Test!Passed(p, b) : q = p.tp
    BY <1>2, <1>3, <1>8
  <2>3. \A q \in Test!Passed(p, b) : IF p.dir = 1 THEN p.tp <= q ELSE q <= p.tp
    BY <1>1, <2>2
  <2> QED
    BY <1>1, <1>6, <2>1, <2>3
<1> QED
  BY <1>7, <1>8

-----------------------------------------------------------------------------
(* Backtest: what holds of the loop after every bar.                       *)

Sims == [position : Signal, since : Nat, trades : Seq(Trade)]

(* The open position is that of its signal and no bar has passed one of    *)
(* its prices.                                                             *)
Holding(sim, i, h, sigs) ==
  /\ sim.since \in 1..i
  /\ sim.position.dir = sigs[sim.since].dir /\ sim.position.sl = sigs[sim.since].sl
  /\ sim.position.tp = sigs[sim.since].tp
  /\ \A k \in 1..Len(sim.trades) : sim.trades[k].to < sim.since
  /\ \A j \in (sim.since + 1)..i : Test!Passed(sim.position, h[j].shape) = {}

InTrade(sim, j) == \E k \in 1..Len(sim.trades) : sim.trades[k].from <= j /\ j <= sim.trades[k].to

(* The trades are those of their signals, each is over before the next     *)
(* begins, and every signal is in one of them or not before the position.  *)
Sound(sim, i, h, sigs) ==
  /\ sim \in Sims /\ Sane(sim.position)
  /\ \A k \in 1..Len(sim.trades) : Test!IsTradeOf(sim.trades[k], sigs, h) /\ sim.trades[k].to <= i
  /\ \A k \in 2..Len(sim.trades) : sim.trades[k - 1].to < sim.trades[k].from
  /\ sim.position.dir # 0 => Holding(sim, i, h, sigs)
  /\ \A j \in 1..i : sigs[j].dir # 0 =>
       InTrade(sim, j) \/ (sim.position.dir # 0 /\ sim.since <= j)

LEMMA TradesOf ==
  ASSUME NEW sim \in Sims
  PROVE  /\ sim.trades \in Seq(Trade) /\ Len(sim.trades) \in Nat /\ sim.since \in Nat
         /\ sim.position \in Signal
         /\ \A k \in 1..Len(sim.trades) :
              sim.trades[k] \in Trade /\ sim.trades[k].to \in Nat /\ sim.trades[k].from \in Nat
<1>1. sim.trades \in Seq(Trade) /\ sim.since \in Nat /\ sim.position \in Signal
  BY DEF Sims
<1>2. /\ Len(sim.trades) \in Nat
      /\ \A k \in 1..Len(sim.trades) : sim.trades[k] \in Trade
  BY <1>1
<1>3. \A t \in Trade : t.to \in Nat /\ t.from \in Nat
  BY DEF Trade
<1> QED
  BY <1>1, <1>2, <1>3

LEMMA StartIsSound ==
  ASSUME NEW h, NEW sigs
  PROVE  Sound(Start, 0, h, sigs)
<1>1. /\ Start.trades = <<>> /\ Start.position = Test!Flat /\ Start.since = 0
      /\ Test!Flat.dir = 0
  BY DEF Start, Test!Flat
<1>2. Start.trades \in Seq(Trade) /\ Len(Start.trades) = 0
  BY <1>1
<1>3. Start \in Sims
  BY <1>1, FlatIsSane DEF Sims, Start, Sane
<1> QED
  BY <1>1, <1>2, <1>3, FlatIsSane DEF Sound

LEMMA LonelyAppend ==
  ASSUME NEW S, NEW s \in Seq(S), NEW x \in S, NEW r, r = Append(s, x)
  PROVE  /\ r \in Seq(S) /\ Len(r) = Len(s) + 1 /\ Len(s) \in Nat /\ r[Len(s) + 1] = x
         /\ \A k \in 1..Len(s) : r[k] = s[k] /\ r[k] \in S
OBVIOUS

(* The bar that ends a position.                                           *)
LEMMA EndIsSound ==
  ASSUME NEW h \in Seq(Bars), NEW i \in 1..Len(h), NEW sim, NEW sigs, Sound(sim, i - 1, h, sigs),
         sim.position.dir # 0, Test!Exits(sim.position, h[i].shape) # {}
  PROVE  Sound(Test!Walk(sim, i, h, sigs), i, h, sigs)
<1> DEFINE p == sim.position
           e == Test!Max(Test!Exits(p, h[i].shape))
           t == [dir |-> p.dir, from |-> sim.since, to |-> i, sl |-> p.sl, tp |-> p.tp,
                 entry |-> p.entry, exit |-> e]
           new == [position |-> Test!Flat, since |-> 0, trades |-> Append(sim.trades, t)]
<1>1. Test!Walk(sim, i, h, sigs) = new
  BY DEF Test!Walk
<1>2. /\ h[i].shape.low \in Nat /\ h[i].shape.high \in Nat
      /\ h[i].shape.low <= h[i].shape.close /\ h[i].shape.close <= h[i].shape.high
      /\ h[i].shape.close \in Nat
  BY BarOf
<1>3. h[i].shape.low <= h[i].shape.high
  BY <1>2
<1>4. Sane(p) /\ sim.since \in Nat /\ sim.trades \in Seq(Trade) /\ i \in Nat
  BY TradesOf DEF Sound
<1>5. /\ e \in Int /\ \A q \in Test!Passed(p, h[i].shape) : p.dir * (e - q) <= 0
      /\ Test!Passed(p, h[i].shape) # {}
  BY <1>2, <1>3, <1>4, ExitIsWorse, NoExit
<1>6. /\ p.dir \in {-1, 1} /\ p.sl \in Stops /\ p.tp \in Int /\ p.entry \in Int
  BY <1>4 DEF Sane, Signal
<1>7. /\ sim.since \in 1..(i - 1)
      /\ p.dir = sigs[sim.since].dir /\ p.sl = sigs[sim.since].sl /\ p.tp = sigs[sim.since].tp
      /\ \A j \in (sim.since + 1)..(i - 1) : Test!Passed(p, h[j].shape) = {}
      /\ \A k \in 1..Len(sim.trades) : sim.trades[k].to < sim.since
  BY DEF Sound, Holding
<1>8. \A b : Test!Passed(t, b) = Test!Passed(p, b)
  BY SamePassed
<1>9. /\ t.to = i /\ t.from = sim.since /\ t.dir = p.dir /\ t.sl = p.sl /\ t.tp = p.tp
      /\ t.exit = e
  OBVIOUS
<1> HIDE DEF p, e
<1>10. t \in Trade
  BY <1>4, <1>5, <1>6 DEF Trade
<1> HIDE DEF t
<1>11. Test!IsTradeOf(t, sigs, h)
  BY <1>5, <1>7, <1>8, <1>9 DEF Test!IsTradeOf
<1>12. /\ new.trades = Append(sim.trades, t) /\ new.position = Test!Flat /\ new.since = 0
       /\ Test!Flat.dir = 0
  BY DEF Test!Flat
<1> HIDE DEF new
<1>13. /\ new.trades \in Seq(Trade) /\ Len(new.trades) = Len(sim.trades) + 1
       /\ Len(sim.trades) \in Nat /\ new.trades[Len(sim.trades) + 1] = t
       /\ \A k \in 1..Len(sim.trades) : new.trades[k] = sim.trades[k] /\ new.trades[k] \in Trade
  BY <1>4, <1>10, <1>12, LonelyAppend
<1>14. \A k \in 1..Len(sim.trades) :
         /\ Test!IsTradeOf(sim.trades[k], sigs, h) /\ sim.trades[k].to <= i - 1
         /\ sim.trades[k].to \in Nat
  BY TradesOf DEF Sound
<1>15. \A k \in 1..Len(new.trades) :
         Test!IsTradeOf(new.trades[k], sigs, h) /\ new.trades[k].to <= i
  <2> TAKE k \in 1..Len(new.trades)
  <2>1. CASE k = Len(sim.trades) + 1
    BY <1>4, <1>9, <1>11, <1>13, <2>1
  <2>2. CASE k \in 1..Len(sim.trades)
    <3>1. new.trades[k] = sim.trades[k]
      BY <1>13, <2>2
    <3>2. /\ Test!IsTradeOf(sim.trades[k], sigs, h)
          /\ sim.trades[k].to <= i - 1 /\ sim.trades[k].to \in Nat
      BY <1>14, <2>2
    <3> QED
      BY <1>4, <3>1, <3>2
  <2> QED
    BY <1>13, <2>1, <2>2
<1>16. \A k \in 2..Len(new.trades) : new.trades[k - 1].to < new.trades[k].from
  <2> TAKE k \in 2..Len(new.trades)
  <2>1. CASE k = Len(sim.trades) + 1
    <3>1. k - 1 \in 1..Len(sim.trades) /\ k - 1 = Len(sim.trades)
      BY <1>13, <2>1
    <3>2. new.trades[k - 1].to < sim.since
      BY <1>7, <1>13, <3>1
    <3> QED
      BY <1>9, <1>13, <2>1, <3>2
  <2>2. CASE k \in 2..Len(sim.trades)
    <3>1. sim.trades[k - 1].to < sim.trades[k].from
      BY <2>2 DEF Sound
    <3>2. k \in 1..Len(sim.trades) /\ k - 1 \in 1..Len(sim.trades)
      BY <1>13, <2>2
    <3> QED
      BY <1>13, <3>1, <3>2
  <2> QED
    BY <1>13, <2>1, <2>2
<1>17. \A j \in 1..i : sigs[j].dir # 0 => InTrade(new, j)
  <2> TAKE j \in 1..i
  <2> HAVE sigs[j].dir # 0
  <2>1. CASE sim.since <= j
    <3>1. new.trades[Len(sim.trades) + 1].from <= j /\ j <= new.trades[Len(sim.trades) + 1].to
      BY <1>9, <1>13, <2>1
    <3>2. Len(sim.trades) + 1 \in 1..Len(new.trades)
      BY <1>13
    <3> QED
      BY <3>1, <3>2 DEF InTrade
  <2>2. CASE ~(sim.since <= j)
    <3>1. j \in 1..(i - 1)
      BY <1>4, <1>7, <2>2
    <3>2. PICK k \in 1..Len(sim.trades) : sim.trades[k].from <= j /\ j <= sim.trades[k].to
      BY <2>2, <3>1 DEF Sound, InTrade
    <3>3. k \in 1..Len(new.trades) /\ new.trades[k] = sim.trades[k]
      BY <1>13
    <3> QED
      BY <3>2, <3>3 DEF InTrade
  <2> QED
    BY <2>1, <2>2
<1>18. new \in Sims
  BY <1>13, FlatIsSane DEF Sims, Sane, new
<1>19. Sound(new, i, h, sigs)
  BY <1>12, <1>15, <1>16, <1>17, <1>18, FlatIsSane DEF Sound
<1> QED
  BY <1>1, <1>19

(* A bar that passes neither price of the open position, or that has no    *)
(* signal while there is none.                                             *)
LEMMA HoldIsSound ==
  ASSUME NEW h \in Seq(Bars), NEW i \in 1..Len(h), NEW sim, NEW sigs, Sound(sim, i - 1, h, sigs),
         \/ sim.position.dir # 0 /\ Test!Exits(sim.position, h[i].shape) = {}
         \/ sim.position.dir = 0 /\ sigs[i].dir = 0
  PROVE  Sound(sim, i, h, sigs)
<1>1. /\ h[i].shape.low \in Nat /\ h[i].shape.high \in Nat
      /\ h[i].shape.low <= h[i].shape.close /\ h[i].shape.close <= h[i].shape.high
      /\ h[i].shape.close \in Nat
  BY BarOf
<1>2. h[i].shape.low <= h[i].shape.high /\ i \in Nat
  BY <1>1
<1>3. Sane(sim.position) /\ sim \in Sims
  BY DEF Sound
<1>4. sim.position.dir # 0 => Test!Passed(sim.position, h[i].shape) = {}
  BY <1>1, <1>2, <1>3, NoExit
<1>5. sim.since \in Nat /\ \A k \in 1..Len(sim.trades) : sim.trades[k].to \in Nat
  BY <1>3, TradesOf
<1>6. /\ \A k \in 1..Len(sim.trades) :
           Test!IsTradeOf(sim.trades[k], sigs, h) /\ sim.trades[k].to <= i - 1
      /\ \A k \in 2..Len(sim.trades) : sim.trades[k - 1].to < sim.trades[k].from
      /\ sim.position.dir # 0 => Holding(sim, i - 1, h, sigs)
      /\ \A j \in 1..(i - 1) : sigs[j].dir # 0 =>
           InTrade(sim, j) \/ (sim.position.dir # 0 /\ sim.since <= j)
  BY DEF Sound
<1>7. \A k \in 1..Len(sim.trades) : sim.trades[k].to <= i
  BY <1>2, <1>5, <1>6
<1>8. sim.position.dir # 0 => Holding(sim, i, h, sigs)
  <2> SUFFICES ASSUME sim.position.dir # 0 PROVE Holding(sim, i, h, sigs)
    OBVIOUS
  <2>1. sim.since \in 1..(i - 1) /\ sim.since \in 1..i
    BY <1>2, <1>6 DEF Holding
  <2>2. \A j \in (sim.since + 1)..i : j = i \/ j \in (sim.since + 1)..(i - 1)
    BY <1>2, <1>5
  <2>3. \A j \in (sim.since + 1)..i : Test!Passed(sim.position, h[j].shape) = {}
    BY <1>4, <1>6, <2>2 DEF Holding
  <2> QED
    BY <1>6, <2>1, <2>3 DEF Holding
<1>9. \A j \in 1..i : sigs[j].dir # 0 =>
        InTrade(sim, j) \/ (sim.position.dir # 0 /\ sim.since <= j)
  <2> TAKE j \in 1..i
  <2> HAVE sigs[j].dir # 0
  <2>1. CASE j \in 1..(i - 1)
    BY <1>6, <2>1
  <2>2. CASE j = i
    <3>1. sim.position.dir # 0
      BY <2>2
    <3>2. sim.since <= i
      BY <1>2, <1>8, <3>1 DEF Holding
    <3> QED
      BY <2>2, <3>1, <3>2
  <2> QED
    BY <1>2, <2>1, <2>2
<1> QED
  BY <1>3, <1>6, <1>7, <1>8, <1>9 DEF Sound

LEMMA SlippedSignal ==
  ASSUME NEW s \in Signal, NEW e \in Int
  PROVE  LET p == [s EXCEPT !.entry = e]
         IN  p \in Signal /\ p.dir = s.dir /\ p.sl = s.sl /\ p.tp = s.tp
BY DEF Signal

(* A signal that opens a position.                                         *)
LEMMA OpenIsSound ==
  ASSUME NEW h \in Seq(Bars), NEW i \in 1..Len(h), NEW sim, NEW sigs, Sound(sim, i - 1, h, sigs),
         sim.position.dir = 0, Sane(sigs[i]), sigs[i].dir # 0
  PROVE  Sound(Test!Walk(sim, i, h, sigs), i, h, sigs)
<1> DEFINE p == [sigs[i] EXCEPT !.entry = @ + sigs[i].dir * Slip]
           new == [position |-> p, since |-> i, trades |-> sim.trades]
<1>1. /\ sim \in Sims /\ sim.trades \in Seq(Trade) /\ i \in Nat
      /\ \A k \in 1..Len(sim.trades) : sim.trades[k].to \in Nat
  BY TradesOf DEF Sound
<1>2. Test!Walk(sim, i, h, sigs) = new
  BY DEF Test!Walk
<1>3. sigs[i] \in Signal /\ Slip \in Nat
  BY ShapeConstants DEF Sane
<1>4. sigs[i].dir * Slip \in Int /\ sigs[i].entry \in Int
  BY <1>3 DEF Signal
<1>5. p \in Signal /\ p.dir = sigs[i].dir /\ p.sl = sigs[i].sl /\ p.tp = sigs[i].tp
  <2> DEFINE s == sigs[i]
             e == s.entry + s.dir * Slip
  <2>1. s \in Signal /\ e \in Int /\ p = [s EXCEPT !.entry = e]
    BY <1>3, <1>4
  <2> HIDE DEF s, e, p
  <2>2. p \in Signal /\ p.dir = s.dir /\ p.sl = s.sl /\ p.tp = s.tp
    BY <2>1, SlippedSignal
  <2> QED
    BY <2>2 DEF s
<1>6. Sane(p)
  BY <1>5 DEF Sane
<1> HIDE DEF p
<1>7. new \in Sims
  BY <1>1, <1>5 DEF Sims
<1>8. new.position = p /\ new.since = i /\ new.trades = sim.trades
  OBVIOUS
<1> HIDE DEF new
<1>9. /\ \A k \in 1..Len(sim.trades) :
           Test!IsTradeOf(sim.trades[k], sigs, h) /\ sim.trades[k].to <= i - 1
      /\ \A k \in 2..Len(sim.trades) : sim.trades[k - 1].to < sim.trades[k].from
      /\ \A j \in 1..(i - 1) : sigs[j].dir # 0 => InTrade(sim, j)
  BY DEF Sound
<1>10. \A k \in 1..Len(sim.trades) : sim.trades[k].to <= i /\ sim.trades[k].to < i
  BY <1>1, <1>9
<1>11. (i + 1)..i = {} /\ i <= i /\ i \in 1..i
  BY <1>1
<1>12. Holding(new, i, h, sigs)
  BY <1>5, <1>8, <1>10, <1>11 DEF Holding
<1>13. \A j \in 1..i : sigs[j].dir # 0 => InTrade(new, j) \/ new.since <= j
  <2> TAKE j \in 1..i
  <2> HAVE sigs[j].dir # 0
  <2>1. CASE j = i
    BY <1>8, <1>11, <2>1
  <2>2. CASE j \in 1..(i - 1)
    BY <1>8, <1>9, <2>2 DEF InTrade
  <2> QED
    BY <1>1, <2>1, <2>2
<1>14. new.position.dir # 0
  BY <1>5, <1>8
<1>15. Sound(new, i, h, sigs)
  BY <1>6, <1>7, <1>8, <1>9, <1>10, <1>12, <1>13, <1>14 DEF Sound
<1> QED
  BY <1>2, <1>15

LEMMA WalkIsSound ==
  ASSUME NEW h \in Seq(Bars), NEW i \in 1..Len(h), NEW sim, NEW sigs, Sound(sim, i - 1, h, sigs),
         Sane(sigs[i])
  PROVE  Sound(Test!Walk(sim, i, h, sigs), i, h, sigs)
<1>1. CASE sim.position.dir # 0 /\ Test!Exits(sim.position, h[i].shape) # {}
  BY <1>1, EndIsSound
<1>2. CASE \/ sim.position.dir # 0 /\ Test!Exits(sim.position, h[i].shape) = {}
           \/ sim.position.dir = 0 /\ sigs[i].dir = 0
  <2>1. Test!Walk(sim, i, h, sigs) = sim
    BY <1>2 DEF Test!Walk
  <2>2. Sound(sim, i, h, sigs)
    BY <1>2, HoldIsSound
  <2> QED
    BY <2>1, <2>2
<1>3. CASE sim.position.dir = 0 /\ sigs[i].dir # 0
  BY <1>3, OpenIsSound
<1> QED
  BY <1>1, <1>2, <1>3

LEMMA SimulationIsSound ==
  ASSUME NEW h \in Seq(Bars), strategy \in Strategies
  PROVE  \A n \in 0..Len(h) : Sound(Test!Simulation(h)[n], n, h, Test!Signals(h))
<1> DEFINE f == Test!Simulation(h)
           sigs == Test!Signals(h)
           T == {n \in 0..Len(h) : ~Sound(f[n], n, h, sigs)}
<1>1. /\ f[0] = Start
      /\ \A n \in 1..Len(h) : f[n] = Test!Walk(f[n - 1], n, h, sigs)
  BY SimulationStep
<1>2. \A n \in 1..Len(h) : Sane(sigs[n])
  BY SignalsAreSane
<1> HIDE DEF f, sigs
<1>3. T = {}
  <2>1. SUFFICES ASSUME T # {} PROVE FALSE
    OBVIOUS
  <2>2. T \in SUBSET Nat
    OBVIOUS
  <2>3. \A n \in T : n \in 0..Len(h) /\ ~Sound(f[n], n, h, sigs)
    OBVIOUS
  <2>4. \A n \in 0..Len(h) : n \notin T => Sound(f[n], n, h, sigs)
    OBVIOUS
  <2> HIDE DEF T
  <2>5. PICK m \in T : \A n \in T : m <= n
    BY <2>1, <2>2, LeastNumber
  <2>6. CASE m = 0
    BY <1>1, <2>3, <2>6, StartIsSound
  <2>7. CASE m # 0
    <3>1. m \in 1..Len(h) /\ m - 1 \in 0..Len(h) /\ ~(m <= m - 1)
      BY <2>3, <2>7
    <3>2. Sound(f[m - 1], m - 1, h, sigs)
      BY <2>4, <2>5, <3>1
    <3>3. Sound(Test!Walk(f[m - 1], m, h, sigs), m, h, sigs)
      BY <1>2, <3>1, <3>2, WalkIsSound
    <3> QED
      BY <1>1, <2>3, <3>1, <3>3
  <2> QED
    BY <2>6, <2>7
<1>4. \A n \in 0..Len(h) : n \notin T => Sound(f[n], n, h, sigs)
  OBVIOUS
<1> QED
  BY <1>3, <1>4 DEF f, sigs

(* Of any history and any strategy, the list of trades is as it should be. *)
LEMMA TradesAddUp ==
  ASSUME NEW h \in Seq(Bars), strategy \in Strategies
  PROVE  Test!Accounted(h)
<1> DEFINE sim == Test!Simulation(h)[Len(h)]
           sigs == Test!Signals(h)
<1>1. Len(h) \in Nat /\ Len(h) \in 0..Len(h) /\ DOMAIN h = 1..Len(h)
  OBVIOUS
<1>2. Sound(sim, Len(h), h, sigs)
  BY <1>1, SimulationIsSound
<1>3. Test!Trades(h) = sim.trades
  BY DEF Test!Trades
<1> HIDE DEF sim, sigs
<1>4. /\ DOMAIN sim.trades = 1..Len(sim.trades) /\ Len(sim.trades) \in Nat
      /\ \A k \in 1..Len(sim.trades) : Test!IsTradeOf(sim.trades[k], sigs, h)
      /\ \A k \in 2..Len(sim.trades) : sim.trades[k - 1].to < sim.trades[k].from
  BY <1>2, TradesOf DEF Sound
<1>5. \A k \in DOMAIN sim.trades : k > 1 => sim.trades[k - 1].to < sim.trades[k].from
  BY <1>4
<1>6. \A j \in DOMAIN h : sigs[j].dir # 0 =>
        InTrade(sim, j) \/ (sim.position.dir # 0 /\ sim.since <= j)
  BY <1>1, <1>2 DEF Sound
<1>7. sim.position.dir # 0 => Test!StaysOpen(sim.since, sim.trades, sigs, h)
  <2> SUFFICES ASSUME sim.position.dir # 0 PROVE Test!StaysOpen(sim.since, sim.trades, sigs, h)
    OBVIOUS
  <2>1. Holding(sim, Len(h), h, sigs)
    BY <1>2 DEF Sound
  <2>2. \A b : Test!Passed(sigs[sim.since], b) = Test!Passed(sim.position, b)
    BY <2>1, SamePassed DEF Holding
  <2> QED
    BY <1>4, <2>1, <2>2 DEF Holding, Test!StaysOpen
<1>8. \A j \in DOMAIN h : sigs[j].dir # 0 =>
        \/ \E k \in DOMAIN sim.trades : sim.trades[k].from <= j /\ j <= sim.trades[k].to
        \/ \E s \in 1..j : Test!StaysOpen(s, sim.trades, sigs, h)
  <2> TAKE j \in DOMAIN h
  <2> HAVE sigs[j].dir # 0
  <2>1. CASE InTrade(sim, j)
    BY <1>4, <2>1 DEF InTrade
  <2>2. CASE sim.position.dir # 0 /\ sim.since <= j
    <3>1. sim.since \in 1..j
      BY <1>1, <1>2, <2>2 DEF Sound, Holding
    <3> QED
      BY <1>7, <2>2, <3>1
  <2> QED
    BY <1>6, <2>1, <2>2
<1> QED
  BY <1>3, <1>4, <1>5, <1>8 DEF Test!Accounted, sigs

(* Of any history and any strategy, gaps included: a trade is that of its  *)
(* signal and ends on the first bar that passes its stop or its target, no *)
(* better than at any price passed, and no signal is left out but those    *)
(* after the beginning of a position that nothing has closed yet.          *)
THEOREM SignalsAddUp == Spec => []Test!AccountedSoFar
<1>1. TestInv => Test!AccountedSoFar
  BY TradesAddUp DEF TestInv, Test!AccountedSoFar
<1> QED
  BY <1>1, TestInvariant, PTL
-----------------------------------------------------------------------------
(* Backtest: what a later bar leaves alone.                                *)

LEMMA SameSimulation ==
  ASSUME NEW h \in Seq(Bars), NEW g \in Seq(Bars), Len(h) <= Len(g),
         \A j \in 1..Len(h) : g[j] = h[j],
         \A j \in 1..Len(h) : Test!Signals(g)[j] = Test!Signals(h)[j]
  PROVE  \A n \in 0..Len(h) : Test!Simulation(g)[n] = Test!Simulation(h)[n]
<1> DEFINE e == Test!Simulation(g)
           f == Test!Simulation(h)
           T == {n \in 0..Len(h) : e[n] # f[n]}
<1>1. /\ f[0] = Start
      /\ \A n \in 1..Len(h) : f[n] = Test!Walk(f[n - 1], n, h, Test!Signals(h))
  BY SimulationStep
<1>2. /\ e[0] = Start
      /\ \A n \in 1..Len(g) : e[n] = Test!Walk(e[n - 1], n, g, Test!Signals(g))
  BY SimulationStep
<1>3. Len(h) \in Nat /\ Len(g) \in Nat
  OBVIOUS
<1> HIDE DEF e, f
<1>4. T = {}
  <2>1. SUFFICES ASSUME T # {} PROVE FALSE
    OBVIOUS
  <2>2. T \in SUBSET Nat
    OBVIOUS
  <2>3. \A n \in T : n \in 0..Len(h) /\ e[n] # f[n]
    OBVIOUS
  <2>4. \A n \in 0..Len(h) : n \notin T => e[n] = f[n]
    OBVIOUS
  <2> HIDE DEF T
  <2>5. PICK m \in T : \A n \in T : m <= n
    BY <2>1, <2>2, LeastNumber
  <2>6. CASE m = 0
    BY <1>1, <1>2, <2>3, <2>6
  <2>7. CASE m # 0
    <3>1. m \in 1..Len(h) /\ m \in 1..Len(g) /\ m - 1 \in 0..Len(h) /\ ~(m <= m - 1)
      BY <1>3, <2>3, <2>7
    <3>2. e[m - 1] = f[m - 1]
      BY <2>4, <2>5, <3>1
    <3>3. /\ e[m] = Test!Walk(e[m - 1], m, g, Test!Signals(g))
          /\ f[m] = Test!Walk(f[m - 1], m, h, Test!Signals(h))
      BY <1>1, <1>2, <3>1
    <3>4. g[m] = h[m] /\ Test!Signals(g)[m] = Test!Signals(h)[m]
      BY <3>1
    <3>5. Test!Walk(f[m - 1], m, g, Test!Signals(g)) = Test!Walk(f[m - 1], m, h, Test!Signals(h))
      BY <3>4 DEF Test!Walk
    <3> QED
      BY <2>3, <3>2, <3>3, <3>5
  <2> QED
    BY <2>6, <2>7
<1>5. \A n \in 0..Len(h) : n \notin T => e[n] = f[n]
  OBVIOUS
<1> QED
  BY <1>4, <1>5 DEF e, f

(* One more bar adds a trade at the end or none.                           *)
LEMMA TradesGrow ==
  ASSUME NEW sim \in Sims, NEW i, NEW h, NEW sigs
  PROVE  Test!IsPrefix(sim.trades, Test!Walk(sim, i, h, sigs).trades)
<1>1. sim.trades \in Seq(Trade)
  BY TradesOf
<1>2. \A x : Test!IsPrefix(sim.trades, Append(sim.trades, x))
  BY <1>1 DEF Test!IsPrefix
<1>3. Test!IsPrefix(sim.trades, sim.trades)
  BY <1>1 DEF Test!IsPrefix
<1>4. \/ Test!Walk(sim, i, h, sigs).trades = sim.trades
      \/ \E x : Test!Walk(sim, i, h, sigs).trades = Append(sim.trades, x)
  BY DEF Test!Walk
<1> QED
  BY <1>2, <1>3, <1>4

(* So it is after every bar, and the bar changes no trade already closed:  *)
(* whatever the bars are, but for the strategy of the New York session.    *)
THEOREM EveryTradeIsAccounted == "ny_killzone" \notin Strategies => (Spec => TradesAreAccounted)
<1> SUFFICES ASSUME "ny_killzone" \notin Strategies PROVE Spec => TradesAreAccounted
  OBVIOUS
<1>1. TestInv /\ [Next]_vars =>
        [Test!Accounted(bars') /\ Test!IsPrefix(Test!Trades(bars), Test!Trades(bars'))]_test
  <2> SUFFICES ASSUME TestInv, Test!Next
               PROVE  /\ Test!Accounted(bars')
                      /\ Test!IsPrefix(Test!Trades(bars), Test!Trades(bars'))
    BY StepOfEach
  <2> DEFINE n == Len(bars)
             sim == Test!Simulation(bars)[n]
  <2>1. bars \in Seq(Bars) /\ n \in Nat /\ strategy \in Strategies /\ strategy # "ny_killzone"
    BY DEF TestInv
  <2>2. sim \in Sims
    <3>1. n \in 0..Len(bars)
      BY <2>1
    <3> QED
      BY <2>1, <3>1, SimulationIsSound DEF Sound
  <2>3. Test!Trades(bars) = sim.trades
    BY DEF Test!Trades
  <2> HIDE DEF sim
  <2>4. ASSUME NEW shape \in Shapes, Test!NewBar(shape)
        PROVE  /\ Test!Accounted(bars')
               /\ Test!IsPrefix(Test!Trades(bars), Test!Trades(bars'))
    <3> DEFINE b == [at |-> Times[Len(bars) + 1], shape |-> shape]
    <3>1. bars' = Append(bars, b) /\ n < Len(Times)
      BY <2>4 DEF Test!NewBar
    <3>2. b \in Bars
      <4>1. Times[n + 1] \in Nat
        BY <2>1, <3>1, TestConstants
      <4> QED
        BY <4>1 DEF Bars
    <3> HIDE DEF b
    <3>3. /\ bars' \in Seq(Bars) /\ Len(bars') = n + 1
          /\ \A j \in 1..n : bars'[j] = bars[j]
      BY <2>1, <3>1, <3>2, LonelyAppend
    <3>4. Agree(bars', bars, n)
      BY <2>1, <3>3 DEF Agree
    <3>5. \A j \in 1..n : Test!Signals(bars')[j] = Test!Signals(bars)[j]
      BY <2>1, <3>4, SameSignal
    <3>6. Test!Simulation(bars')[n] = sim
      <4>1. /\ Len(bars) <= Len(bars') /\ n \in 0..Len(bars)
            /\ \A j \in 1..Len(bars) : bars'[j] = bars[j]
            /\ \A j \in 1..Len(bars) : Test!Signals(bars')[j] = Test!Signals(bars)[j]
        BY <2>1, <3>3, <3>5
      <4> QED
        BY <2>1, <3>3, <4>1, SameSimulation DEF sim
    <3>7. Test!Simulation(bars')[n + 1] =
            Test!Walk(Test!Simulation(bars')[(n + 1) - 1], n + 1, bars', Test!Signals(bars'))
      <4>1. n + 1 \in 1..Len(bars')
        BY <2>1, <3>3
      <4> QED
        BY <3>3, <4>1, SimulationStep
    <3>8. (n + 1) - 1 = n
      BY <2>1
    <3>9. Test!Trades(bars') = Test!Walk(sim, n + 1, bars', Test!Signals(bars')).trades
      BY <3>3, <3>6, <3>7, <3>8, Zenon DEF Test!Trades
    <3>10. Test!Accounted(bars')
      BY <2>1, <3>3, TradesAddUp
    <3> QED
      BY <2>2, <2>3, <3>9, <3>10, TradesGrow
  <2>5. ASSUME NEW total \in Histories, NEW splits \in Splits, Test!WalkForward(total, splits)
        PROVE  /\ Test!Accounted(bars')
               /\ Test!IsPrefix(Test!Trades(bars), Test!Trades(bars'))
    <3>1. bars' = bars
      BY <2>5 DEF Test!WalkForward
    <3>2. Test!IsPrefix(sim.trades, sim.trades)
      <4>1. sim.trades \in Seq(Trade)
        BY <2>2, TradesOf
      <4> QED
        BY <4>1 DEF Test!IsPrefix
    <3>3. Test!Accounted(bars)
      BY <2>1, TradesAddUp
    <3> QED
      BY <2>3, <3>1, <3>2, <3>3
  <2> QED
    BY <2>4, <2>5 DEF Test!Next
<1> QED
  BY <1>1, TestInvariant, PTL
     DEF Spec, TradesAreAccounted, Test!TradesAreAccounted, Test!vars, test

-----------------------------------------------------------------------------
(* Every component around the live engine keeps its types.                 *)
THEOREM TypesHold == Spec => []TypeOK
<1>1. TestInv => Test!TypeOK
  <2> SUFFICES ASSUME TestInv PROVE Test!TypeOK
    OBVIOUS
  <2>1. \A i \in DOMAIN bars : bars[i] \in [at : {Times[i]}, shape : Shapes]
    <3> TAKE i \in DOMAIN bars
    <3>1. i \in 1..Len(bars) /\ bars[i] \in Bars
      BY DEF TestInv
    <3>2. bars[i].at = Times[i]
      BY <3>1 DEF TestInv
    <3> QED
      BY <3>1, <3>2 DEF Bars
  <2>2. \A k \in DOMAIN windows : windows[k] \in WindowType
    BY DEF TestInv
  <2> QED
    BY <2>1, <2>2 DEF TestInv, Test!TypeOK, WindowType
<1>2. /\ BridgeInv /\ JobsInv /\ CallsInv /\ PreviewInv /\ PaperInv /\ RiskInv /\ TestInv
      => TypeOK
  BY <1>1 DEF TypeOK, BridgeInv, JobsInv, CallsInv, PreviewInv, PaperInv, RiskInv
<1> QED
  BY <1>2, BridgeInvariant, JobsInvariant, PermitsInvariant, PreviewInvariant, PaperInvariant,
     RiskInvariant, TestInvariant, PTL
=============================================================================
