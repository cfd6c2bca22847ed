----------------------------- MODULE LiveEngine -----------------------------
(***************************************************************************)
(* The live trading engine of one strategy instance                        *)
(* (trading-engine/live/engine.py) with the registry that starts, stops    *)
(* and kills it (trading-engine/live/router.py) and the orders it has at   *)
(* the MT5 bridge.                                                         *)
(*                                                                         *)
(* Two kinds of process take steps:                                        *)
(*   - Router: the request thread that holds router._LOCK.  One start,     *)
(*     stop or kill runs at a time; its program counter is pc[Router];     *)
(*   - engine e: the daemon thread LiveEngine._loop of the e-th LiveEngine *)
(*     object created for this instance; its program counter is pc[e].     *)
(* LiveEngine.on_kill is run by both: by the Router for POST /live/kill,   *)
(* and by the thread itself when its circuit breaker says KILL.  Neither   *)
(* on_kill nor _loop takes the router's lock, so their steps interleave.   *)
(*                                                                         *)
(* Left out: bars, prices and lots (whether a pass places an order is a    *)
(* free choice, so is what the risk gate answers), and the daily-loss      *)
(* breaker, whose input on_trade_closed no live code feeds.                *)
(***************************************************************************)
EXTENDS Naturals

CONSTANTS MaxEngines,  \* bound: LiveEngine objects created for the instance
          MaxOrders,   \* bound: POST /order requests the engines send
          Grace        \* disconnect_grace_sec, counted in loop passes

ASSUME MaxEnginesAssumption == MaxEngines \in Nat \ {0}
ASSUME MaxOrdersAssumption == MaxOrders \in Nat \ {0}
ASSUME GraceAssumption == Grace \in Nat

Engines == 1 .. MaxEngines
Orders == 1 .. MaxOrders
NoEngine == 0
NoOrder == 0
Router == 0
Procs == {Router} \cup Engines

\* EngineStatus
Statuses == {"idle", "starting", "running", "halted", "killed", "stopped"}

\* Slip: a halted engine is replaced as if it had stopped.
ActiveButHalted == {"running", "starting"}

\* The statuses for which router.start returns existing: True.
Active == {"running", "starting", "halted"}

RouterPcs == {"idle", "connect", "spawn", "register", "stopping",
              "list", "close", "killing"}

\* The thread is in its loop, between the test of _stop_evt and the POST of
\* an order ...
BeforeOrder == {"halt", "resume", "unhalt", "bar"}
\* ... or anywhere in its loop.  At "top" it sleeps, up to its while test.
InLoop == {"top", "await", "refresh"} \cup BeforeOrder
\* The thread runs on_kill on itself.
SelfKill == {"kill", "list", "close", "selfjoin"}
\* The thread has returned, or went down with the process.
Ended == {"done", "lost"}
ThreadPcs == {"unborn"} \cup InLoop \cup SelfKill \cup Ended

\* What the bridge has made of an order request: "none" was never sent, "sent"
\* is on its way, "open" is a position with our magic.
Fates == {"none", "sent", "refused", "open", "closed"}

VARIABLES
  registry,   \* router._REGISTRY for this instance
  pc,         \* [Procs -> program counter]
  target,     \* the engine the Router's request works on
  todo,       \* [Procs -> listed positions on_kill has yet to close]
  status,     \* [Engines -> EngineRuntime.status]
  stopEvt,    \* [Engines -> _stop_evt.is_set()]
  killed,     \* [Engines -> BreakerState.killed]
  drawdown,   \* [Engines -> last equity seen is max_drawdown_pct under the peak]
  slipping,   \* [Engines -> last slippage sample is above the alarm]
  silent,     \* [Engines -> loop passes since the last good bridge call]
  reported,   \* [Engines -> last status on_start, on_stop or on_kill reported]
  awaiting,   \* [Engines -> the order whose reply the thread waits for]
  fate,       \* [Orders -> what the bridge has made of it]
  sender,     \* [Orders -> the engine that sent it]
  late        \* [Orders -> history: it was sent with _stop_evt set]

routerVars == <<registry, target>>
breakerVars == <<killed, drawdown, slipping, silent>>
orderVars == <<awaiting, fate, sender, late>>
vars == <<registry, pc, target, todo, status, stopEvt, killed, drawdown,
          slipping, silent, reported, awaiting, fate, sender, late>>

TypeOK ==
  /\ registry \in Engines \cup {NoEngine}
  /\ pc \in [Procs -> RouterPcs \cup ThreadPcs]
  /\ pc[Router] \in RouterPcs
  /\ \A e \in Engines : pc[e] \in ThreadPcs
  /\ target \in Engines \cup {NoEngine}
  /\ todo \in [Procs -> SUBSET Orders]
  /\ status \in [Engines -> Statuses]
  /\ stopEvt \in [Engines -> BOOLEAN]
  /\ killed \in [Engines -> BOOLEAN]
  /\ drawdown \in [Engines -> BOOLEAN]
  /\ slipping \in [Engines -> BOOLEAN]
  /\ silent \in [Engines -> 0 .. Grace + 1]
  /\ reported \in [Engines -> Statuses \cup {"none"}]
  /\ awaiting \in [Engines -> Orders \cup {NoOrder}]
  /\ fate \in [Orders -> Fates]
  /\ sender \in [Orders -> Engines \cup {NoEngine}]
  /\ late \in [Orders -> BOOLEAN]

Init ==
  /\ registry = NoEngine
  /\ pc = [p \in Procs |-> IF p = Router THEN "idle" ELSE "unborn"]
  /\ target = NoEngine
  /\ todo = [p \in Procs |-> {}]
  /\ status = [e \in Engines |-> "idle"]
  /\ stopEvt = [e \in Engines |-> FALSE]
  /\ killed = [e \in Engines |-> FALSE]
  /\ drawdown = [e \in Engines |-> FALSE]
  /\ slipping = [e \in Engines |-> FALSE]
  /\ silent = [e \in Engines |-> 0]
  /\ reported = [e \in Engines |-> "none"]
  /\ awaiting = [e \in Engines |-> NoOrder]
  /\ fate = [o \in Orders |-> "none"]
  /\ sender = [o \in Orders |-> NoEngine]
  /\ late = [o \in Orders |-> FALSE]

Goto(p, l) == pc' = [pc EXCEPT ![p] = l]

\* The engine process p works on: its own, unless p is the Router.
Subject(p) == IF p = Router THEN target ELSE p

\* CircuitBreaker.on_broker_ok, which every good bridge call makes.
BrokerOk(e) == silent' = [silent EXCEPT ![e] = 0]

\* Slip: the silence is counted without end.
SilentPassUncapped(e) == silent' = [silent EXCEPT ![e] = @ + 1]

\* A pass of the loop ends with no good bridge call at its end.
SilentPass(e) ==
  silent' = [silent EXCEPT ![e] = IF @ > Grace THEN @ ELSE @ + 1]

(***************************************************************************)
(* router.start and LiveEngine.on_start                                    *)
(***************************************************************************)

Fresh(e) == status[e] = "idle" /\ \A f \in 1 .. (e - 1) : status[f] /= "idle"

\* POST /live/start.  An engine of the registry with an Active status is
\* returned as it is (no step); any other is replaced by a new LiveEngine.
StartLive(e) ==
  /\ pc[Router] = "idle"
  /\ registry /= NoEngine => status[registry] \notin Active
  /\ Fresh(e)
  /\ target' = e
  /\ status' = [status EXCEPT ![e] = "starting"]
  /\ Goto(Router, "connect")
  /\ UNCHANGED <<registry, todo, stopEvt, breakerVars, reported, orderVars>>

\* _connect_bridge: the account's equity may already be max_drawdown_pct under
\* the default peak of 10 000.
Connect ==
  /\ pc[Router] = "connect"
  /\ \E dd \in BOOLEAN : drawdown' = [drawdown EXCEPT ![target] = dd]
  /\ BrokerOk(target)
  /\ Goto(Router, "spawn")
  /\ UNCHANGED <<routerVars, todo, status, stopEvt, killed, slipping, reported,
                 orderVars>>

\* _connect_bridge raises: on_start swallows it and the engine is registered.
ConnectFails ==
  /\ pc[Router] = "connect"
  /\ status' = [status EXCEPT ![target] = "stopped"]
  /\ registry' = target
  /\ Goto(Router, "idle")
  /\ UNCHANGED <<target, todo, stopEvt, breakerVars, reported, orderVars>>

\* From here the thread runs, before the router knows the engine.
Spawn ==
  /\ pc[Router] = "spawn"
  /\ status' = [status EXCEPT ![target] = "running"]
  /\ stopEvt' = [stopEvt EXCEPT ![target] = FALSE]
  /\ pc' = [pc EXCEPT ![Router] = "register", ![target] = "top"]
  /\ UNCHANGED <<routerVars, todo, breakerVars, reported, orderVars>>

Register ==
  /\ pc[Router] = "register"
  /\ reported' = [reported EXCEPT ![target] = "running"]
  /\ registry' = target
  /\ Goto(Router, "idle")
  /\ UNCHANGED <<target, todo, status, stopEvt, breakerVars, orderVars>>

(***************************************************************************)
(* router.stop and LiveEngine.on_stop                                      *)
(***************************************************************************)

\* A join with a timeout returns: the thread has ended or never ran, or it is
\* in a call that may outlast the 5 s.  A thread at "top" is asleep until the
\* next pass or about to test the event: it is woken, leaves, and the join sees
\* it end.
JoinReturns(e) == pc[e] /= "top"

StopLive ==
  /\ pc[Router] = "idle"
  /\ registry /= NoEngine
  /\ target' = registry
  /\ stopEvt' = [stopEvt EXCEPT ![registry] = TRUE]
  /\ Goto(Router, "stopping")
  /\ UNCHANGED <<registry, todo, status, breakerVars, reported, orderVars>>

StopReturns ==
  /\ pc[Router] = "stopping"
  /\ JoinReturns(target)
  /\ status' = [status EXCEPT ![target] = "stopped"]
  /\ reported' = [reported EXCEPT ![target] = "stopped"]
  /\ Goto(Router, "idle")
  /\ UNCHANGED <<routerVars, todo, stopEvt, breakerVars, orderVars>>

(***************************************************************************)
(* LiveEngine.on_kill, by the Router or by the engine's own thread         *)
(***************************************************************************)

\* POST /live/kill: the status changes before anything else does.
KillLive ==
  /\ pc[Router] = "idle"
  /\ registry /= NoEngine
  /\ target' = registry
  /\ status' = [status EXCEPT ![registry] = "killed"]
  /\ Goto(Router, "list")
  /\ UNCHANGED <<registry, todo, stopEvt, breakerVars, reported, orderVars>>

\* The same first statement after the breaker's KILL verdict.
KillSelf(e) ==
  /\ pc[e] = "kill"
  /\ status' = [status EXCEPT ![e] = "killed"]
  /\ Goto(e, "list")
  /\ UNCHANGED <<routerVars, todo, stopEvt, breakerVars, reported, orderVars>>

\* GET /positions.  MT5Client.positions answers [] when MT5 answers None.
KillList(p) ==
  /\ pc[p] = "list"
  /\ \E listed \in {{o \in Orders : fate[o] = "open"}, {}} :
        todo' = [todo EXCEPT ![p] = listed]
  /\ BrokerOk(Subject(p))
  /\ Goto(p, "close")
  /\ UNCHANGED <<routerVars, status, stopEvt, killed, drawdown, slipping,
                 reported, orderVars>>

\* GET /positions raises: nothing will be closed.
KillListFails(p) ==
  /\ pc[p] = "list"
  /\ todo' = [todo EXCEPT ![p] = {}]
  /\ Goto(p, "close")
  /\ UNCHANGED <<routerVars, status, stopEvt, breakerVars, reported, orderVars>>

\* POST /position/close answers; an answer with success: False counts as done.
KillClose(p, o) ==
  /\ pc[p] = "close"
  /\ o \in todo[p]
  /\ \/ fate[o] = "open" /\ fate' = [fate EXCEPT ![o] = "closed"]
     \/ UNCHANGED fate
  /\ todo' = [todo EXCEPT ![p] = @ \ {o}]
  /\ BrokerOk(Subject(p))
  /\ UNCHANGED <<routerVars, pc, status, stopEvt, killed, drawdown, slipping,
                 reported, awaiting, sender, late>>

\* POST /position/close raises, and with it the rest of the list is dropped.
KillCloseFails(p) ==
  /\ pc[p] = "close"
  /\ todo[p] /= {}
  /\ todo' = [todo EXCEPT ![p] = {}]
  /\ UNCHANGED <<routerVars, pc, status, stopEvt, breakerVars, reported,
                 orderVars>>

\* Slip: on_kill forgets the stop event and relies on the status.
KillSetStopForgotten(p) ==
  /\ pc[p] = "close"
  /\ todo[p] = {}
  /\ Goto(p, IF p = Router THEN "killing" ELSE "selfjoin")
  /\ UNCHANGED <<routerVars, todo, status, stopEvt, breakerVars, reported,
                 orderVars>>

\* Only now does on_kill set the stop event.
KillSetStop(p) ==
  /\ pc[p] = "close"
  /\ todo[p] = {}
  /\ stopEvt' = [stopEvt EXCEPT ![Subject(p)] = TRUE]
  /\ Goto(p, IF p = Router THEN "killing" ELSE "selfjoin")
  /\ UNCHANGED <<routerVars, todo, status, breakerVars, reported, orderVars>>

KillReturns ==
  /\ pc[Router] = "killing"
  /\ JoinReturns(target)
  /\ reported' = [reported EXCEPT ![target] = "killed"]
  /\ Goto(Router, "idle")
  /\ UNCHANGED <<routerVars, todo, status, stopEvt, breakerVars, orderVars>>

\* The thread joins itself: RuntimeError leaves on_kill before its emit_health
\* and lands in the except clause of _loop, which sleeps and loops.
SelfJoinRaises(e) ==
  /\ pc[e] = "selfjoin"
  /\ Goto(e, "top")
  /\ UNCHANGED <<routerVars, todo, status, stopEvt, breakerVars, reported,
                 orderVars>>

KillStep(p) ==
  \/ KillList(p)
  \/ KillListFails(p)
  \/ \E o \in Orders : KillClose(p, o)
  \/ KillCloseFails(p)
  \/ KillSetStop(p)

(***************************************************************************)
(* LiveEngine._loop                                                        *)
(***************************************************************************)

\* CircuitBreaker.verdict, in its order of tests.
Verdict(e) ==
  CASE killed[e] \/ drawdown[e] -> "kill"
    [] ~ (killed[e] \/ drawdown[e]) /\ (silent[e] > Grace \/ slipping[e]) -> "halt"
    [] OTHER -> "ok"

\* Slip: while True.
ContinuesAlways(e) == pc[e] = "top"

\* The while test of _loop.
Continues(e) == pc[e] = "top" /\ ~ stopEvt[e]

LoopEnds(e) ==
  /\ pc[e] = "top"
  /\ stopEvt[e]
  /\ Goto(e, "done")
  /\ UNCHANGED <<routerVars, todo, status, stopEvt, breakerVars, reported,
                 orderVars>>

\* Slip: the KILL verdict is noted and the pass goes on.
VerdictKillNoted(e) ==
  /\ Continues(e)
  /\ Verdict(e) = "kill"
  /\ killed' = [killed EXCEPT ![e] = TRUE]
  /\ Goto(e, "resume")
  /\ UNCHANGED <<routerVars, todo, status, stopEvt, drawdown, slipping, silent,
                 reported, orderVars>>

\* The verdict of a pass: nothing but the breaker's own killed flag is written
\* here; the status follows in a step of its own.
VerdictKill(e) ==
  /\ Continues(e)
  /\ Verdict(e) = "kill"
  /\ killed' = [killed EXCEPT ![e] = TRUE]
  /\ Goto(e, "kill")
  /\ UNCHANGED <<routerVars, todo, status, stopEvt, drawdown, slipping, silent,
                 reported, orderVars>>

VerdictHalt(e) ==
  /\ Continues(e)
  /\ Verdict(e) = "halt"
  /\ Goto(e, "halt")
  /\ UNCHANGED <<routerVars, todo, status, stopEvt, breakerVars, reported,
                 orderVars>>

VerdictOk(e) ==
  /\ Continues(e)
  /\ Verdict(e) = "ok"
  /\ Goto(e, "resume")
  /\ UNCHANGED <<routerVars, todo, status, stopEvt, breakerVars, reported,
                 orderVars>>

\* Slip: a halted engine waits in place for its breaker to clear.
HaltInPlace(e) ==
  /\ pc[e] = "halt"
  /\ status' = [status EXCEPT ![e] = "halted"]
  /\ SilentPass(e)
  /\ UNCHANGED <<routerVars, pc, todo, stopEvt, killed, drawdown, slipping,
                 reported, orderVars>>

\* HALT: the rest of the pass is skipped, every bridge call included.
Halt(e) ==
  /\ pc[e] = "halt"
  /\ status' = [status EXCEPT ![e] = "halted"]
  /\ SilentPass(e)
  /\ Goto(e, "top")
  /\ UNCHANGED <<routerVars, todo, stopEvt, killed, drawdown, slipping, reported,
                 orderVars>>

\* if status == HALTED ...
ResumeTest(e) ==
  /\ pc[e] = "resume"
  /\ Goto(e, IF status[e] = "halted" THEN "unhalt" ELSE "bar")
  /\ UNCHANGED <<routerVars, todo, status, stopEvt, breakerVars, reported,
                 orderVars>>

\* ... status = RUNNING: a second access, with no lock around the two.
Resume(e) ==
  /\ pc[e] = "unhalt"
  /\ status' = [status EXCEPT ![e] = "running"]
  /\ Goto(e, "bar")
  /\ UNCHANGED <<routerVars, todo, stopEvt, breakerVars, reported, orderVars>>

\* No new bar, no data, no signal, a zero size or a refusal of the risk gate.
NoTrade(e) ==
  /\ pc[e] = "bar"
  /\ Goto(e, "refresh")
  /\ UNCHANGED <<routerVars, todo, status, stopEvt, breakerVars, reported,
                 orderVars>>

\* _on_new_bar posts an order.  The stop event is not looked at again.
PlaceOrder(e, o) ==
  /\ pc[e] = "bar"
  /\ fate[o] = "none"
  /\ \A q \in 1 .. (o - 1) : fate[q] /= "none"
  /\ fate' = [fate EXCEPT ![o] = "sent"]
  /\ sender' = [sender EXCEPT ![o] = e]
  /\ late' = [late EXCEPT ![o] = stopEvt[e]]
  /\ awaiting' = [awaiting EXCEPT ![e] = o]
  /\ Goto(e, "await")
  /\ UNCHANGED <<routerVars, todo, status, stopEvt, breakerVars, reported>>

\* success: a slippage sample and emit_trade.
OrderFilled(e) ==
  /\ pc[e] = "await"
  /\ fate[awaiting[e]] \in {"open", "closed"}
  /\ BrokerOk(e)
  /\ \E alarm \in BOOLEAN : slipping' = [slipping EXCEPT ![e] = alarm]
  /\ awaiting' = [awaiting EXCEPT ![e] = NoOrder]
  /\ Goto(e, "refresh")
  /\ UNCHANGED <<routerVars, todo, status, stopEvt, killed, drawdown, reported,
                 fate, sender, late>>

\* success: False, or an error status, which is no good call for the breaker.
OrderRefused(e) ==
  /\ pc[e] = "await"
  /\ fate[awaiting[e]] = "refused"
  /\ BrokerOk(e) \/ UNCHANGED silent
  /\ awaiting' = [awaiting EXCEPT ![e] = NoOrder]
  /\ Goto(e, "refresh")
  /\ UNCHANGED <<routerVars, todo, status, stopEvt, killed, drawdown, slipping,
                 reported, fate, sender, late>>

\* Slip: the order is sent again after its timeout.
OrderRetried(e) ==
  /\ pc[e] = "await"
  /\ awaiting' = [awaiting EXCEPT ![e] = NoOrder]
  /\ Goto(e, "bar")
  /\ UNCHANGED <<routerVars, todo, status, stopEvt, breakerVars, reported,
                 fate, sender, late>>

\* The 10 s timeout: the order goes on at the bridge, its reply to nobody.
OrderTimesOut(e) ==
  /\ pc[e] = "await"
  /\ awaiting' = [awaiting EXCEPT ![e] = NoOrder]
  /\ Goto(e, "refresh")
  /\ UNCHANGED <<routerVars, todo, status, stopEvt, breakerVars, reported,
                 fate, sender, late>>

\* _refresh_positions_and_equity.
RefreshOk(e) ==
  /\ pc[e] = "refresh"
  /\ \E dd \in BOOLEAN : drawdown' = [drawdown EXCEPT ![e] = dd]
  /\ BrokerOk(e)
  /\ Goto(e, "top")
  /\ UNCHANGED <<routerVars, todo, status, stopEvt, killed, slipping, reported,
                 orderVars>>

\* Its exceptions are dropped.
RefreshFails(e) ==
  /\ pc[e] = "refresh"
  /\ SilentPass(e)
  /\ Goto(e, "top")
  /\ UNCHANGED <<routerVars, todo, status, stopEvt, killed, drawdown, slipping,
                 reported, orderVars>>

LoopStep(e) ==
  \/ LoopEnds(e)
  \/ VerdictKill(e)
  \/ VerdictHalt(e)
  \/ VerdictOk(e)
  \/ Halt(e)
  \/ ResumeTest(e)
  \/ Resume(e)
  \/ NoTrade(e)
  \/ \E o \in Orders : PlaceOrder(e, o)
  \/ OrderFilled(e)
  \/ OrderRefused(e)
  \/ OrderTimesOut(e)
  \/ RefreshOk(e)
  \/ RefreshFails(e)

(***************************************************************************)
(* The bridge and the broker, and a crash of the trading-engine process    *)
(***************************************************************************)

\* MT5Client.place_market, at any time after the request was sent.
BridgeAnswers(o) ==
  /\ fate[o] = "sent"
  /\ \E f \in {"open", "refused"} : fate' = [fate EXCEPT ![o] = f]
  /\ UNCHANGED <<routerVars, pc, todo, status, stopEvt, breakerVars, reported,
                 awaiting, sender, late>>

\* Stop loss, take profit, or a close by hand.
BrokerCloses(o) ==
  /\ fate[o] = "open"
  /\ fate' = [fate EXCEPT ![o] = "closed"]
  /\ UNCHANGED <<routerVars, pc, todo, status, stopEvt, breakerVars, reported,
                 awaiting, sender, late>>

\* The engine objects a crash destroys, and f with the value v for them.
Gone == {e \in Engines : status[e] /= "idle"}
Cleared(f, v) == [e \in Engines |-> IF e \in Gone THEN v ELSE f[e]]

\* The registry, every thread and every engine object are gone; what the bridge
\* has stays.  An object that is gone is shown as a stopped one.
Restart ==
  /\ registry' = NoEngine
  /\ target' = NoEngine
  /\ pc' = [p \in Procs |-> IF p = Router THEN "idle"
                            ELSE IF p \notin Gone \/ pc[p] \in {"unborn", "done"}
                                 THEN pc[p]
                            ELSE "lost"]
  /\ todo' = [p \in Procs |-> {}]
  /\ status' = Cleared(status, "stopped")
  /\ stopEvt' = Cleared(stopEvt, TRUE)
  /\ killed' = Cleared(killed, FALSE)
  /\ drawdown' = Cleared(drawdown, FALSE)
  /\ slipping' = Cleared(slipping, FALSE)
  /\ silent' = Cleared(silent, 0)
  /\ reported' = Cleared(reported, "none")
  /\ awaiting' = Cleared(awaiting, NoOrder)
  /\ UNCHANGED <<fate, sender, late>>

-----------------------------------------------------------------------------
\* What a request thread does once it holds the lock.
RouterStep ==
  \/ Connect
  \/ ConnectFails
  \/ Spawn
  \/ Register
  \/ StopReturns
  \/ KillStep(Router)
  \/ KillReturns

Request ==
  \/ \E e \in Engines : StartLive(e)
  \/ StopLive
  \/ KillLive

ThreadStep(e) ==
  \/ LoopStep(e)
  \/ KillSelf(e)
  \/ KillStep(e)
  \/ SelfJoinRaises(e)

Next ==
  \/ Request
  \/ RouterStep
  \/ \E e \in Engines : ThreadStep(e)
  \/ \E o \in Orders : BridgeAnswers(o) \/ BrokerCloses(o)
  \/ Restart

Spec == Init /\ [][Next]_vars

\* Threads are scheduled and every HTTP call ends, with an answer or by its
\* timeout.  Nothing makes a request, an answer of the bridge or a crash come.
Fairness ==
  /\ WF_vars(RouterStep)
  /\ \A e \in Engines : WF_vars(ThreadStep(e))

FairSpec == Spec /\ Fairness

\* The bridge can be reached: an account refresh that is tried again and again
\* is answered in the end.
ReachableSpec == FairSpec /\ \A e \in Engines : SF_vars(RefreshOk(e))

-----------------------------------------------------------------------------
(***************************************************************************)
(* Properties                                                              *)
(***************************************************************************)

\* The thread is in its loop and has not been told to stop.
CanTrade(e) == pc[e] \in InLoop /\ ~ stopEvt[e]

\* An engine that still trades is the one a stop or a kill would reach: the one
\* in the registry, or the one router.start is about to put there.  So no two
\* engines of an instance trade at a time, whatever starts, stops, kills,
\* halts and join timeouts came before.
TraderIsRegistered ==
  \A e \in Engines :
    CanTrade(e) => e = IF pc[Router] = "register" THEN target ELSE registry

\* router.start takes "stopped" and "killed" for "will not trade again".  An
\* engine shown so has its stop event set, or is being killed, and the kill
\* will set it.
TerminalIsTold ==
  \A e \in Engines :
    CanTrade(e) /\ status[e] \in {"stopped", "killed"} =>
      pc[Router] \in {"list", "close"} /\ target = e

\* An engine sends at most one order after it was told to stop, however long
\* its thread outlives the 5 s join.
OneLateOrder ==
  \A o, q \in Orders : late[o] /\ late[q] /\ sender[o] = sender[q] => o = q

\* After its breaker's KILL verdict an engine works on no further bar.
KillVerdictIsFinal ==
  \A e \in Engines : killed[e] => pc[e] \notin BeforeOrder \cup {"await", "refresh"}

\* The registry, its lock, the stop event and the loop together keep what
\* TradingRight promises the account.
Right == INSTANCE TradingRight WITH
  holder <- {e \in Engines : CanTrade(e)},
  owing <- {e \in Engines : pc[e] \in BeforeOrder /\ stopEvt[e]},
  spent <- {e \in Engines : pc[e] /= "unborn"}
KeepsTradingRight == Right!Spec

\* Every engine told to stop ends its thread: the event is looked at in every
\* pass, in a halted pass and after an exception too.
StopEndsThread ==
  \A e \in Engines : stopEvt[e] ~> pc[e] \in Ended \cup {"unborn"}

\* So does every engine that is killed, by a request or by its own breaker,
\* whichever calls of on_kill fail.
KillEndsThread ==
  \A e \in Engines : status[e] = "killed" ~> pc[e] \in Ended \cup {"unborn"}

\* docs/strategies/live-trading-runbook.md:75 of POST /live/kill: "engine closes
\* all positions with our magic via mt5-bridge /position/close, then stops".
\* Once the kill has returned, no position of the instance opens.
NothingOpensAfterKill ==
  [][\A o \in Orders :
       fate[o] /= "open" /\ fate'[o] = "open" =>
         ~ /\ pc[Router] = "idle"
           /\ registry /= NoEngine
           /\ reported[registry] = "killed"]_vars

\* circuit_breaker.py:8 of the disconnect breaker: "halt (do not enter) + alert.
\* Engine resumes on successful reconnect."  With the bridge reachable, the
\* silence of an engine that is not told to stop ends.
DisconnectHaltEnds ==
  \A e \in Engines : silent[e] > Grace ~> silent[e] <= Grace \/ stopEvt[e]

\* circuit_breaker.py:15: "The engine is responsible for acting on a `KILL`
\* verdict (closing positions, calling internal_client)."  A thread that ended on
\* its breaker's verdict has reported it.
BreakerKillIsReported ==
  \A e \in Engines :
    killed[e] /\ pc[e] = "done" => reported[e] \in {"killed", "stopped"}

=============================================================================
