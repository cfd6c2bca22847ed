---------------------------- MODULE TradingRight ----------------------------
(***************************************************************************)
(* What the engines of one strategy instance promise the account, said     *)
(* without threads, locks or statuses.  At most one engine holds the right *)
(* to trade.  An engine gets the right once in its life.  When it loses it *)
(* while it is already working on a bar, it may still send one order.      *)
(***************************************************************************)
CONSTANTS Engines, Orders, NoEngine   \* NoEngine is none of Engines

VARIABLES
  holder,   \* the engines that hold the right: none or one
  owing,    \* the engines that lost it and may still send one order
  spent,    \* the engines that ever had it
  sender    \* [Orders -> the engine that sent the order, or NoEngine]

vars == <<holder, owing, spent, sender>>

TypeOK ==
  /\ holder \in SUBSET Engines
  /\ owing \in SUBSET Engines
  /\ spent \in SUBSET Engines
  /\ sender \in [Orders -> Engines \cup {NoEngine}]

Init ==
  /\ holder = {}
  /\ owing = {}
  /\ spent = {}
  /\ sender = [o \in Orders |-> NoEngine]

Grant(e) ==
  /\ holder = {}
  /\ e \notin spent
  /\ holder' = {e}
  /\ spent' = spent \cup {e}
  /\ UNCHANGED <<owing, sender>>

\* The holder loses the right, with or without one order left to send.
Revoke ==
  /\ holder' = {}
  /\ owing' \in {owing, owing \cup holder}
  /\ UNCHANGED <<spent, sender>>

Order(e, o) ==
  /\ e \in holder \cup owing
  /\ sender[o] = NoEngine
  /\ sender' = [sender EXCEPT ![o] = e]
  /\ owing' = owing \ {e}
  /\ UNCHANGED <<holder, spent>>

\* The order an engine could still send is not sent.
Lapse(e) ==
  /\ owing' = owing \ {e}
  /\ UNCHANGED <<holder, spent, sender>>

\* The process goes down.
Crash ==
  /\ holder' = {}
  /\ owing' = {}
  /\ UNCHANGED <<spent, sender>>

Next ==
  \/ \E e \in Engines : Grant(e)
  \/ Revoke
  \/ \E e \in Engines, o \in Orders : Order(e, o)
  \/ \E e \in Engines : Lapse(e)
  \/ Crash

Spec == Init /\ [][Next]_vars

=============================================================================
