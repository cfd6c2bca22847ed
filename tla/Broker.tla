-------------------------------- MODULE Broker --------------------------------
(***************************************************************************)
(* What an order management system may rely on from a broker               *)
(* (trading-engine/broker/base.py): a ticket is given once and goes        *)
(* through one life, from an order to a position to its end, nothing that  *)
(* ended comes back, and a position moves the balance once, when it ends.  *)
(***************************************************************************)
EXTENDS Integers

CONSTANT Tickets

VARIABLES
  life,     \* the life of each ticket
  earned    \* what each ticket has added to the balance

vars == <<life, earned>>

Init ==
  /\ life = [t \in Tickets |-> "unborn"]
  /\ earned = [t \in Tickets |-> 0]

(* place_order answers with a ticket: a position, or a pending order.      *)
Place(t) ==
  /\ life[t] = "unborn"
  /\ \E l \in {"open", "pending"} : life' = [life EXCEPT ![t] = l]
  /\ UNCHANGED earned

(* place_order answers with an error; its ticket is lost.                  *)
Refuse(t) ==
  /\ life[t] = "unborn"
  /\ life' = [life EXCEPT ![t] = "gone"]
  /\ UNCHANGED earned

Cancel(t) ==
  /\ life[t] = "pending"
  /\ life' = [life EXCEPT ![t] = "gone"]
  /\ UNCHANGED earned

(* Only the tickets in ended may move the balance.                         *)
Settles(ended) ==
  /\ earned' \in [Tickets -> Int]
  /\ \A t \in Tickets \ ended : earned'[t] = earned[t]

Close(t) ==
  /\ life[t] = "open"
  /\ life' = [life EXCEPT ![t] = "gone"]
  /\ Settles({t})

(* A quote: positions end at their stop or target, pending orders become   *)
(* positions.                                                              *)
Quote ==
  \E ended \in SUBSET {t \in Tickets : life[t] = "open"},
     filled \in SUBSET {t \in Tickets : life[t] = "pending"} :
    /\ life' = [t \in Tickets |-> CASE t \in ended  -> "gone"
                                    [] t \in filled -> "open"
                                    [] OTHER        -> life[t]]
    /\ Settles(ended)

Next == (\E t \in Tickets : Place(t) \/ Refuse(t) \/ Cancel(t) \/ Close(t)) \/ Quote

Spec == Init /\ [][Next]_vars
=============================================================================
