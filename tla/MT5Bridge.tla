------------------------------ MODULE MT5Bridge ------------------------------
(***************************************************************************)
(* The MT5 bridge (mt5-bridge/mt5_bridge): one MT5Client, that is one      *)
(* terminal session, behind a FastAPI application that every engine calls. *)
(*                                                                         *)
(* The synchronous endpoints (/connect, /disconnect, /position/modify) run *)
(* on the threads of a pool, the asynchronous ones (/order,                *)
(* /order/pending, /position/close) one at a time on the event loop.  Each *)
(* takes the client's lock for the whole of its conversation with the      *)
(* terminal and repeats a call that raises, up to Retries times: a call    *)
(* may have done its work before it raised.                                *)
(*                                                                         *)
(* Requests refused by the token, by 409 or by the safety checks change    *)
(* nothing and are left out; so are the endpoints that only read, and the  *)
(* stream.                                                                 *)
(***************************************************************************)
EXTENDS Naturals, FiniteSets

CONSTANTS
  Accounts,    \* broker accounts a caller may /connect
  NoAccount,   \* the terminal is logged in nowhere
  MaxTicket,   \* the broker gives the tickets 1..MaxTicket: bounds the orders
  Threads,     \* the thread pool
  Loop,        \* the event loop
  Retries,     \* with_retry's retries
  RequireSL    \* BRIDGE_REQUIRE_SL

VARIABLES
  login,    \* the account the terminal is logged in to
  client,   \* the MT5Client's fields _connected and _account_login
  holder,   \* who holds the client's lock
  book,     \* the broker's positions and pending orders
  req       \* what each worker does

vars == <<login, client, holder, book, req>>

Tickets == 1..MaxTicket
Workers == Threads \cup {Loop}
Nobody  == "nobody"

(* What the constants may be.                                              *)
Parameters ==
  /\ NoAccount \notin Accounts
  /\ Loop \notin Threads
  /\ Nobody \notin Workers
  /\ Retries \in Nat \ {0}
  /\ MaxTicket \in Nat
  /\ RequireSL \in BOOLEAN

LoopOps   == {"market", "pending", "close"}
ThreadOps == {"connect", "disconnect", "modify"}
Idle == [pc |-> "idle", op |-> "none", acct |-> NoAccount, ticket |-> 0,
         sl |-> FALSE, tries |-> 0, from |-> NoAccount]

TypeOK ==
  /\ login \in Accounts \cup {NoAccount}
  /\ client \in [connected : BOOLEAN, account : Accounts \cup {NoAccount}]
  /\ holder \in Workers \cup {Nobody}
  /\ book \in [Tickets -> [state : {"none", "pending", "open", "closed"},
                           on : Accounts \cup {NoAccount}, sl : BOOLEAN]]
  /\ req \in [Workers -> [pc : {"idle", "wait", "init", "login", "info", "list", "tick", "send"},
                          op : LoopOps \cup ThreadOps \cup {"none"},
                          acct : Accounts \cup {NoAccount},
                          ticket : 0..MaxTicket, sl : BOOLEAN,
                          tries : 0..Retries, from : Accounts \cup {NoAccount}]]

Init ==
  /\ login = NoAccount
  /\ client = [connected |-> FALSE, account |-> NoAccount]
  /\ holder = Nobody
  /\ book = [t \in Tickets |-> [state |-> "none", on |-> NoAccount, sl |-> FALSE]]
  /\ req = [w \in Workers |-> Idle]

-----------------------------------------------------------------------------
(* A request arrives.                                                      *)

Arrives(w, r) ==
  /\ req[w].pc = "idle"
  /\ req' = [req EXCEPT ![w] = r]
  /\ UNCHANGED <<login, client, holder, book>>

Connect(w, a) ==
  Arrives(w, [Idle EXCEPT !.pc = "wait", !.op = "connect", !.acct = a])

Disconnect(w) ==
  Arrives(w, [Idle EXCEPT !.pc = "wait", !.op = "disconnect"])

(* check_order: an order without a stop loss passes only when the          *)
(* configuration does not require one.                                     *)
PassesSafety(sl) == RequireSL => sl

(* /order and /order/pending: 409 unless connected, then the safety checks.*)
PlaceOrder(op, sl) ==
  /\ client.connected
  /\ PassesSafety(sl)
  /\ Arrives(Loop, [Idle EXCEPT !.pc = "wait", !.op = op, !.sl = sl])

ClosePosition(t) ==
  /\ client.connected
  /\ Arrives(Loop, [Idle EXCEPT !.pc = "wait", !.op = "close", !.ticket = t])

(* /position/modify runs no safety check: a stop loss of 0 takes the stop  *)
(* away (296-300).                                                         *)
ModifyPosition(w, t, sl) ==
  /\ client.connected
  /\ Arrives(w, [Idle EXCEPT !.pc = "wait", !.op = "modify", !.ticket = t, !.sl = sl])

-----------------------------------------------------------------------------
(* The client's conversation with the terminal.                            *)

(* Slip: connect does not take the lock.                                   *)
MayEnterUnlessConnect(w) == holder = Nobody \/ req[w].op = "connect"

(* with self._lock                                                         *)
MayEnter(w) == holder = Nobody

FirstStep(op) ==
  CASE op = "connect"             -> "init"
    [] op = "market"              -> "tick"
    [] op = "pending"             -> "send"
    [] op \in {"close", "modify"} -> "list"

Acquire(w) ==
  /\ req[w].pc = "wait" /\ req[w].op # "disconnect"
  /\ MayEnter(w)
  /\ holder' = w
  /\ req' = [req EXCEPT ![w].pc = FirstStep(req[w].op), ![w].from = login]
  /\ UNCHANGED <<login, client, book>>

(* disconnect(), under the lock and without a retry: the fields are reset, *)
(* also when the shutdown raises.                                          *)
DoDisconnect(w) ==
  /\ req[w].pc = "wait" /\ req[w].op = "disconnect"
  /\ holder = Nobody
  /\ IF client.connected
       THEN /\ login' \in {login, NoAccount}
            /\ client' = [connected |-> FALSE, account |-> NoAccount]
       ELSE UNCHANGED <<login, client>>
  /\ req' = [req EXCEPT ![w] = Idle]
  /\ UNCHANGED <<holder, book>>

(* The request is over: the lock is released, the caller answered.         *)
Finish(w) ==
  /\ holder' = Nobody
  /\ req' = [req EXCEPT ![w] = Idle]

Goes(w, pc) ==
  /\ req' = [req EXCEPT ![w].pc = pc, ![w].tries = 0]
  /\ UNCHANGED holder

(* Slip: the retry counts nothing.                                         *)
RaisedForEver(w) == UNCHANGED <<holder, req>>

(* The call raised: with_retry sleeps and repeats it, or gives up with a   *)
(* RuntimeError.  The lock is held throughout.                             *)
Raised(w) ==
  IF req[w].tries + 1 < Retries
    THEN req' = [req EXCEPT ![w].tries = @ + 1] /\ UNCHANGED holder
    ELSE Finish(w)

(* mt5.initialize: true, false or an exception.                            *)
Initialize(w) ==
  /\ req[w].pc = "init"
  /\ Goes(w, "login") \/ Finish(w) \/ Raised(w)
  /\ UNCHANGED <<login, client, book>>

(* mt5.login: the fields are set only after it has returned true.          *)
LoggedIn(w) ==
  /\ req[w].pc = "login"
  /\ login' = req[w].acct
  /\ client' = [connected |-> TRUE, account |-> req[w].acct]
  /\ Goes(w, "info")
  /\ UNCHANGED book

(* connect ends with account_info: when that fails the caller gets an      *)
(* error although the client is connected.                                 *)
AccountInfo(w) ==
  /\ req[w].pc = "info"
  /\ Finish(w) \/ Raised(w)
  /\ UNCHANGED <<login, client, book>>

(* It returns false or raises: the terminal may be where it was, have left *)
(* that account, or have come to the new one; the fields stay as they were.*)
LoginFails(w) ==
  /\ req[w].pc = "login"
  /\ login' \in {login, NoAccount, req[w].acct}
  /\ Finish(w) \/ Raised(w)
  /\ UNCHANGED <<client, book>>

(* Which of the terminal's positions is the ticket: those of the account   *)
(* it is logged in to.  None, for a call that failed, counts as no position*)
(* at all.                                                                 *)
Listed(t) == book[t].state = "open" /\ login # NoAccount /\ book[t].on = login

ListPositions(w) ==
  /\ req[w].pc = "list"
  /\ \/ Listed(req[w].ticket) /\ Goes(w, IF req[w].op = "close" THEN "tick" ELSE "send")
     \/ Finish(w) \/ Raised(w)
  /\ UNCHANGED <<login, client, book>>

(* There is a tick of the symbol, or there is none and the request ends.   *)
ReadTick(w) ==
  /\ req[w].pc = "tick"
  /\ Goes(w, "send") \/ Finish(w) \/ Raised(w)
  /\ UNCHANGED <<login, client, book>>

NextTicket == 1 + Cardinality({t \in Tickets : book[t].state # "none"})

(* What the broker's book is when it executes the request.  The closing    *)
(* order names its ticket and finds nothing the second time.               *)
Executed(w) ==
  LET r == req[w] IN
  CASE r.op \in {"market", "pending"} ->
         {[book EXCEPT ![t] = [state |-> IF r.op = "market" THEN "open" ELSE "pending",
                               on |-> login, sl |-> r.sl]] :
            t \in {NextTicket} \cap Tickets}
    [] r.op = "close"  ->
         IF Listed(r.ticket) THEN {[book EXCEPT ![r.ticket].state = "closed"]} ELSE {}
    [] r.op = "modify" ->
         IF Listed(r.ticket) THEN {[book EXCEPT ![r.ticket].sl = r.sl]} ELSE {}

(* mt5.order_send: executed or not, and with an answer or an exception.    *)
OrderSend(w) ==
  /\ req[w].pc = "send"
  /\ \/ login # NoAccount /\ book' \in Executed(w)
     \/ UNCHANGED book
  /\ Finish(w) \/ Raised(w)
  /\ UNCHANGED <<login, client>>

-----------------------------------------------------------------------------
(* The broker and the terminal.                                            *)

PendingFills(t) ==
  /\ book[t].state = "pending"
  /\ book' = [book EXCEPT ![t].state = "open"]
  /\ UNCHANGED <<login, client, holder, req>>

(* A stop loss or a take profit is hit, or somebody closes by hand.        *)
BrokerCloses(t) ==
  /\ book[t].state = "open"
  /\ book' = [book EXCEPT ![t].state = "closed"]
  /\ UNCHANGED <<login, client, holder, req>>

(* The terminal loses its broker; the client does not notice.              *)
TerminalDrops ==
  /\ login # NoAccount
  /\ login' = NoAccount
  /\ UNCHANGED <<client, holder, book, req>>

-----------------------------------------------------------------------------
Converses(w) ==
  \/ Initialize(w) \/ LoggedIn(w) \/ LoginFails(w) \/ AccountInfo(w)
  \/ ListPositions(w) \/ ReadTick(w) \/ OrderSend(w)

Arrivals ==
  \/ \E w \in Threads, a \in Accounts : Connect(w, a)
  \/ \E w \in Threads : Disconnect(w)
  \/ \E op \in {"market", "pending"}, sl \in BOOLEAN : PlaceOrder(op, sl)
  \/ \E t \in Tickets : ClosePosition(t)
  \/ \E w \in Threads, t \in Tickets, sl \in BOOLEAN : ModifyPosition(w, t, sl)

Broker == (\E t \in Tickets : PendingFills(t) \/ BrokerCloses(t)) \/ TerminalDrops

Next ==
  \/ Arrivals \/ Broker
  \/ \E w \in Workers : Acquire(w) \/ DoDisconnect(w) \/ Converses(w)

Spec == Init /\ [][Next]_vars

(* Calls into the terminal return or raise, and with_retry's sleeps end.   *)
(* Nothing is assumed of who gets the lock.                                *)
Fairness == \A w \in Workers : WF_vars(Converses(w))

-----------------------------------------------------------------------------
(* One session serves every engine: while an order, a close or a modify    *)
(* is talked over with the terminal, retries included, no /connect of      *)
(* another account takes the session away under it; at worst the terminal  *)
(* has lost its broker (mt5_client.py:290, 399, 431).                      *)
OneAccountPerOperation ==
  \A w \in Workers :
    req[w].pc \in {"list", "tick", "send"} => login \in {req[w].from, NoAccount}

(* A close with its retries, whatever was executed before an exception,    *)
(* closes its own ticket and nothing else, and opens nothing: it carries   *)
(* the ticket in "position" (mt5_client.py:404-414).                       *)
CloseHitsOnlyItsTicket ==
  [][\A w \in Workers :
       (req[w].op = "close" /\ req[w].pc = "send" /\ req'[w] # req[w]) =>
         \A t \in Tickets \ {req[w].ticket} : book'[t] = book[t]]_vars

(* Whoever holds the session gives it back: no path of a request, no tick, *)
(* a position that is gone, a failed login or calls that keep raising,     *)
(* keeps the lock (mt5_client.py:66-75, 290-297).                          *)
SessionIsGivenBack == \A w \in Workers : holder = w ~> holder # w

(* What safety.py:7-8 says: every endpoint that places or modifies an      *)
(* order runs through the safety checks, so no position is without a stop  *)
(* where the configuration requires one.  Violated by /position/modify.    *)
PositionsKeepStops ==
  RequireSL => \A t \in Tickets : book[t].state \in {"pending", "open"} => book[t].sl
=============================================================================
