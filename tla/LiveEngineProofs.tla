-------------------------- MODULE LiveEngineProofs --------------------------
(***************************************************************************)
(* Proofs about LiveEngine for any number of engines and orders and any    *)
(* grace.  None of the invariants checked by TLC is inductive by itself;   *)
(* TypeInv, TradeInv, LastInv and RightInv below are, and imply them.      *)
(***************************************************************************)
EXTENDS LiveEngine, TLAPS

-----------------------------------------------------------------------------
(***************************************************************************)
(* Type correctness                                                        *)
(***************************************************************************)

\* The request that is served has an engine to work on.
ServedOK == pc[Router] /= "idle" => target \in Engines

TypeInv == TypeOK /\ ServedOK

LEMMA ProcFacts ==
  /\ Router \in Procs
  /\ Engines \subseteq Procs
  /\ Router \notin Engines
  /\ NoEngine \notin Engines
  /\ NoOrder \notin Orders
BY DEF Router, Procs, Engines, NoEngine, NoOrder, Orders

\* The engine a process works on is one of the instance's.
LEMMA SubjectIsEngine ==
  ASSUME TypeInv, NEW p \in Procs, pc[p] /= "idle"
  PROVE  Subject(p) \in Engines
BY ProcFacts DEF TypeInv, ServedOK, Subject, Procs

USE DEF Goto, BrokerOk, SilentPass, routerVars, breakerVars, orderVars

LEMMA TypeInit == Init => TypeInv
BY ProcFacts, GraceAssumption
   DEF Init, TypeInv, TypeOK, ServedOK, RouterPcs, ThreadPcs, Statuses, Fates

LEMMA TypeRequest == TypeInv /\ Request => TypeInv'
<1> SUFFICES ASSUME TypeInv, Request PROVE TypeInv'
  OBVIOUS
<1> USE ProcFacts DEF TypeInv, TypeOK, ServedOK
<1>1. ASSUME NEW e \in Engines, StartLive(e) PROVE TypeInv'
  BY <1>1 DEF StartLive, RouterPcs, Statuses
<1>2. CASE StopLive
  BY <1>2 DEF StopLive, RouterPcs
<1>3. CASE KillLive
  BY <1>3 DEF KillLive, RouterPcs, Statuses
<1> QED
  BY <1>1, <1>2, <1>3 DEF Request

LEMMA TypeKill == ASSUME NEW p \in Procs PROVE TypeInv /\ KillStep(p) => TypeInv'
<1> SUFFICES ASSUME TypeInv, KillStep(p) PROVE TypeInv'
  OBVIOUS
<1>0. pc[p] /= "idle" /\ Subject(p) \in Engines
  <2>1. pc[p] \in {"list", "close"}
    BY DEF KillStep, KillList, KillListFails, KillClose, KillCloseFails, KillSetStop
  <2> QED
    BY <2>1, SubjectIsEngine
<1> USE ProcFacts, <1>0, GraceAssumption DEF TypeInv, TypeOK, ServedOK
<1>1. CASE KillList(p)
  BY <1>1 DEF KillList, RouterPcs, ThreadPcs, SelfKill
<1>2. CASE KillListFails(p)
  BY <1>2 DEF KillListFails, RouterPcs, ThreadPcs, SelfKill
<1>3. ASSUME NEW o \in Orders, KillClose(p, o) PROVE TypeInv'
  BY <1>3 DEF KillClose, Fates
<1>4. CASE KillCloseFails(p)
  BY <1>4 DEF KillCloseFails
<1>5. CASE KillSetStop(p)
  BY <1>5 DEF KillSetStop, RouterPcs, ThreadPcs, SelfKill
<1> QED
  BY <1>1, <1>2, <1>3, <1>4, <1>5 DEF KillStep

LEMMA TypeRouter == TypeInv /\ RouterStep => TypeInv'
<1> SUFFICES ASSUME TypeInv, RouterStep PROVE TypeInv'
  OBVIOUS
<1> USE ProcFacts, GraceAssumption DEF TypeInv, TypeOK, ServedOK
<1>1. CASE Connect
  BY <1>1 DEF Connect, RouterPcs
<1>2. CASE ConnectFails
  BY <1>2 DEF ConnectFails, RouterPcs, Statuses
<1>3. CASE Spawn
  BY <1>3 DEF Spawn, RouterPcs, ThreadPcs, InLoop, Statuses
<1>4. CASE Register
  BY <1>4 DEF Register, RouterPcs, Statuses
<1>5. CASE StopReturns
  BY <1>5 DEF StopReturns, RouterPcs, Statuses
<1>6. CASE KillStep(Router)
  BY <1>6, TypeKill
<1>7. CASE KillReturns
  BY <1>7 DEF KillReturns, RouterPcs, Statuses
<1> QED
  BY <1>1, <1>2, <1>3, <1>4, <1>5, <1>6, <1>7 DEF RouterStep

LEMMA TypeLoop == ASSUME NEW e \in Engines PROVE TypeInv /\ LoopStep(e) => TypeInv'
<1> SUFFICES ASSUME TypeInv, LoopStep(e) PROVE TypeInv'
  OBVIOUS
<1> USE ProcFacts, GraceAssumption DEF TypeInv, TypeOK, ServedOK
<1> USE DEF ThreadPcs, InLoop, BeforeOrder, Ended
<1>1. CASE LoopEnds(e)
  BY <1>1 DEF LoopEnds
<1>2. CASE VerdictKill(e)
  BY <1>2 DEF VerdictKill, Continues, SelfKill
<1>3. CASE VerdictHalt(e)
  BY <1>3 DEF VerdictHalt, Continues
<1>4. CASE VerdictOk(e)
  BY <1>4 DEF VerdictOk, Continues
<1>5. CASE Halt(e)
  BY <1>5 DEF Halt, Statuses
<1>6. CASE ResumeTest(e)
  BY <1>6 DEF ResumeTest
<1>7. CASE Resume(e)
  BY <1>7 DEF Resume, Statuses
<1>8. CASE NoTrade(e)
  BY <1>8 DEF NoTrade
<1>9. ASSUME NEW o \in Orders, PlaceOrder(e, o) PROVE TypeInv'
  BY <1>9 DEF PlaceOrder, Fates
<1>10. CASE OrderFilled(e)
  BY <1>10 DEF OrderFilled
<1>11. CASE OrderRefused(e)
  BY <1>11 DEF OrderRefused
<1>12. CASE OrderTimesOut(e)
  BY <1>12 DEF OrderTimesOut
<1>13. CASE RefreshOk(e)
  BY <1>13 DEF RefreshOk
<1>14. CASE RefreshFails(e)
  BY <1>14 DEF RefreshFails
<1> QED
  BY <1>1, <1>2, <1>3, <1>4, <1>5, <1>6, <1>7, <1>8, <1>9, <1>10, <1>11,
     <1>12, <1>13, <1>14 DEF LoopStep

LEMMA TypeThread == ASSUME NEW e \in Engines PROVE TypeInv /\ ThreadStep(e) => TypeInv'
<1> SUFFICES ASSUME TypeInv, ThreadStep(e) PROVE TypeInv'
  OBVIOUS
<1> USE ProcFacts
<1>1. CASE LoopStep(e)
  BY <1>1, TypeLoop
<1>2. CASE KillSelf(e)
  BY <1>2 DEF KillSelf, TypeInv, TypeOK, ServedOK, ThreadPcs, SelfKill, Statuses
<1>3. CASE KillStep(e)
  BY <1>3, TypeKill
<1>4. CASE SelfJoinRaises(e)
  BY <1>4 DEF SelfJoinRaises, TypeInv, TypeOK, ServedOK, ThreadPcs, InLoop
<1> QED
  BY <1>1, <1>2, <1>3, <1>4 DEF ThreadStep

LEMMA ClearedType ==
  ASSUME NEW S, NEW f \in [Engines -> S], NEW v \in S
  PROVE  Cleared(f, v) \in [Engines -> S]
BY DEF Cleared

LEMMA TypeWorld ==
  TypeInv /\ ((\E o \in Orders : BridgeAnswers(o) \/ BrokerCloses(o)) \/ Restart)
    => TypeInv'
<1> USE ProcFacts, GraceAssumption DEF TypeInv, TypeOK, ServedOK
<1>1. ASSUME TypeInv, NEW o \in Orders, BridgeAnswers(o) PROVE TypeInv'
  BY <1>1 DEF BridgeAnswers, Fates
<1>2. ASSUME TypeInv, NEW o \in Orders, BrokerCloses(o) PROVE TypeInv'
  BY <1>2 DEF BrokerCloses, Fates
<1>3. ASSUME TypeInv, Restart PROVE TypeInv'
  <2> USE <1>3 DEF Restart
  <2>1. /\ registry' = NoEngine /\ target' = NoEngine
        /\ pc' \in [Procs -> RouterPcs \cup ThreadPcs]
        /\ pc'[Router] = "idle"
        /\ \A e \in Engines : pc'[e] \in ThreadPcs
        /\ todo' \in [Procs -> SUBSET Orders]
    BY DEF RouterPcs, ThreadPcs, Ended
  <2>2. status' \in [Engines -> Statuses]
    BY ClearedType DEF Statuses
  <2>3. /\ stopEvt' \in [Engines -> BOOLEAN]
        /\ killed' \in [Engines -> BOOLEAN]
        /\ drawdown' \in [Engines -> BOOLEAN]
        /\ slipping' \in [Engines -> BOOLEAN]
    BY ClearedType
  <2>4. silent' \in [Engines -> 0 .. Grace + 1]
    <3>1. 0 \in 0 .. Grace + 1
      OBVIOUS
    <3> QED
      BY <3>1, ClearedType
  <2>5. reported' \in [Engines -> Statuses \cup {"none"}]
    BY ClearedType
  <2>6. awaiting' \in [Engines -> Orders \cup {NoOrder}]
    BY ClearedType
  <2> QED
    BY <2>1, <2>2, <2>3, <2>4, <2>5, <2>6 DEF RouterPcs
<1> QED
  BY <1>1, <1>2, <1>3

LEMMA TypeStep == TypeInv /\ [Next]_vars => TypeInv'
<1>1. ASSUME TypeInv, UNCHANGED vars PROVE TypeInv'
  BY <1>1 DEF vars, TypeInv, TypeOK, ServedOK
<1> QED
  BY <1>1, TypeRequest, TypeRouter, TypeThread, TypeWorld DEF Next

\* Every state the engines, the registry and the bridge can reach is well typed.
THEOREM TypeCorrect == Spec => []TypeOK
<1>1. TypeInv => TypeOK
  BY DEF TypeInv
<1> QED
  BY <1>1, TypeInit, TypeStep, PTL DEF Spec

-----------------------------------------------------------------------------
(***************************************************************************)
(* Who may trade                                                           *)
(***************************************************************************)

\* While router.start works on a new engine, no engine trades.
NoneWhileStarting ==
  pc[Router] \in {"connect", "spawn"} =>
    /\ pc[target] = "unborn"
    /\ \A e \in Engines : ~ CanTrade(e)

\* A stop and a kill work on the engine in the registry, and join its thread
\* once they have told it to stop.
ServesRegistered ==
  /\ pc[Router] \in {"stopping", "list", "close", "killing"} => target = registry
  /\ pc[Router] \in {"stopping", "killing"} => stopEvt[target]

\* An engine that trades is shown as running or halted, unless a kill has set
\* its status and not yet its stop event.
TraderIsShown ==
  \A e \in Engines :
    CanTrade(e) =>
      \/ status[e] \in {"running", "halted"}
      \/ status[e] = "killed" /\ pc[Router] \in {"list", "close"} /\ target = e

\* The thread that joins itself has been told to stop.
SelfJoinIsTold == \A e \in Engines : pc[e] = "selfjoin" => stopEvt[e]

\* An engine that was not started has no thread.
UnstartedIsUnborn ==
  \A e \in Engines : status[e] \in {"idle", "starting"} => pc[e] = "unborn"

\* The strengthening that makes TraderIsRegistered inductive.
TradeInv ==
  /\ TypeInv
  /\ TraderIsRegistered
  /\ NoneWhileStarting
  /\ ServesRegistered
  /\ TraderIsShown
  /\ SelfJoinIsTold
  /\ UnstartedIsUnborn

LEMMA TradeInit == Init => TradeInv
<1> SUFFICES ASSUME Init PROVE TradeInv
  OBVIOUS
<1>1. TypeInv
  BY TypeInit
<1>2. \A e \in Engines : pc[e] = "unborn" /\ ~ CanTrade(e)
  BY ProcFacts DEF Init, CanTrade, InLoop, BeforeOrder
<1>3. pc[Router] = "idle"
  BY ProcFacts DEF Init
<1> QED
  BY <1>1, <1>2, <1>3 DEF TradeInv, TraderIsRegistered, NoneWhileStarting,
     ServesRegistered, TraderIsShown, SelfJoinIsTold,
     UnstartedIsUnborn

LEMMA TradeRequest == TradeInv /\ Request => TradeInv'
<1> SUFFICES ASSUME TradeInv, Request PROVE TradeInv'
  OBVIOUS
<1>0. TypeInv'
  BY TypeRequest DEF TradeInv
<1> USE ProcFacts DEF TradeInv, TypeInv, TypeOK, TraderIsRegistered,
    NoneWhileStarting, ServesRegistered, TraderIsShown, SelfJoinIsTold,
    UnstartedIsUnborn, CanTrade
<1>1. ASSUME NEW e \in Engines, StartLive(e) PROVE TradeInv'
  <2>1. \A f \in Engines : ~ CanTrade(f)
    BY <1>1 DEF StartLive, Active
  <2>2. pc[e] = "unborn"
    BY <1>1 DEF StartLive, Fresh
  <2> QED
    BY <1>0, <1>1, <2>1, <2>2 DEF StartLive, InLoop, BeforeOrder
<1>2. CASE StopLive
  BY <1>0, <1>2 DEF StopLive
<1>3. CASE KillLive
  BY <1>0, <1>3 DEF KillLive
<1> QED
  BY <1>1, <1>2, <1>3 DEF Request

LEMMA TradeKill == ASSUME NEW p \in Procs PROVE TradeInv /\ KillStep(p) => TradeInv'
<1> SUFFICES ASSUME TradeInv, KillStep(p) PROVE TradeInv'
  OBVIOUS
<1>0. TypeInv'
  BY TypeKill DEF TradeInv
<1>1. pc[p] \in {"list", "close"}
  BY DEF KillStep, KillList, KillListFails, KillClose, KillCloseFails, KillSetStop
<1>2. Subject(p) \in Engines
  BY <1>1, SubjectIsEngine DEF TradeInv
<1> USE ProcFacts, <1>0, <1>1 DEF TradeInv, TypeInv, TypeOK, TraderIsRegistered,
    NoneWhileStarting, ServesRegistered, TraderIsShown, SelfJoinIsTold,
    UnstartedIsUnborn, CanTrade
<1>3. CASE KillList(p) \/ KillListFails(p)
  <2>1. /\ pc[p] = "list" /\ pc' = [pc EXCEPT ![p] = "close"]
        /\ UNCHANGED <<registry, target, status, stopEvt>>
    BY <1>3 DEF KillList, KillListFails
  <2>2. \A e \in Engines : CanTrade(e)' <=> CanTrade(e)
    BY <2>1 DEF InLoop, BeforeOrder
  <2>3. CASE p = Router
    BY <2>1, <2>2, <2>3
  <2>4. CASE p \in Engines
    BY <2>1, <2>2, <2>4
  <2> QED
    BY <2>3, <2>4 DEF Procs
<1>4. ASSUME NEW o \in Orders, KillClose(p, o) PROVE TradeInv'
  BY <1>4 DEF KillClose
<1>5. CASE KillCloseFails(p)
  BY <1>5 DEF KillCloseFails
<1>6. CASE KillSetStop(p)
  <2>1. CASE p = Router
    BY <1>2, <1>6, <2>1 DEF KillSetStop, Subject
  <2>2. CASE p \in Engines
    BY <1>2, <1>6, <2>2 DEF KillSetStop, Subject, InLoop, BeforeOrder
  <2> QED
    BY <2>1, <2>2 DEF Procs
<1> QED
  BY <1>3, <1>4, <1>5, <1>6 DEF KillStep

LEMMA TradeRouter == TradeInv /\ RouterStep => TradeInv'
<1> SUFFICES ASSUME TradeInv, RouterStep PROVE TradeInv'
  OBVIOUS
<1>0. TypeInv'
  BY TypeRouter DEF TradeInv
<1> USE ProcFacts, <1>0 DEF TradeInv, TypeInv, TypeOK, ServedOK,
    TraderIsRegistered, NoneWhileStarting, ServesRegistered, TraderIsShown,
    SelfJoinIsTold, UnstartedIsUnborn, CanTrade
<1>1. CASE Connect
  BY <1>1 DEF Connect
<1>2. CASE ConnectFails
  BY <1>2 DEF ConnectFails
<1>3. CASE Spawn
  BY <1>3, SMTT(30) DEF Spawn
<1>4. CASE Register
  BY <1>4 DEF Register
<1>5. CASE StopReturns
  BY <1>5 DEF StopReturns
<1>6. CASE KillStep(Router)
  BY <1>6, TradeKill
<1>7. CASE KillReturns
  BY <1>7 DEF KillReturns
<1> QED
  BY <1>1, <1>2, <1>3, <1>4, <1>5, <1>6, <1>7 DEF RouterStep

\* A thread's step inside its loop lets no engine trade that did not, and the
\* statuses it writes are those of an engine that trades.
LEMMA LoopKeepsTraders ==
  ASSUME TradeInv, NEW e \in Engines, LoopStep(e)
  PROVE  /\ pc[e] \in InLoop
         /\ UNCHANGED <<registry, target, stopEvt>>
         /\ pc'[e] \in InLoop \cup {"kill", "done"}
         /\ pc' = [pc EXCEPT ![e] = pc'[e]]
         /\ \/ status' = status
            \/ status' = [status EXCEPT ![e] = "halted"]
            \/ status' = [status EXCEPT ![e] = "running"]
<1> USE ProcFacts DEF TradeInv, TypeInv, TypeOK, InLoop, BeforeOrder
<1>1. CASE LoopEnds(e) \/ VerdictKill(e) \/ VerdictHalt(e) \/ VerdictOk(e)
  BY <1>1 DEF LoopEnds, VerdictKill, VerdictHalt, VerdictOk, Continues
<1>2. CASE Halt(e) \/ ResumeTest(e) \/ Resume(e)
  BY <1>2 DEF Halt, ResumeTest, Resume
<1>3. CASE NoTrade(e) \/ OrderTimesOut(e) \/ OrderRefused(e) \/ OrderFilled(e)
  BY <1>3 DEF NoTrade, OrderTimesOut, OrderRefused, OrderFilled
<1>4. ASSUME NEW o \in Orders, PlaceOrder(e, o)
      PROVE  /\ pc[e] = "bar" /\ pc' = [pc EXCEPT ![e] = "await"]
             /\ UNCHANGED <<registry, target, stopEvt, status>>
  BY <1>4 DEF PlaceOrder
<1>5. CASE RefreshOk(e) \/ RefreshFails(e)
  BY <1>5 DEF RefreshOk, RefreshFails
<1> QED
  BY <1>1, <1>2, <1>3, <1>4, <1>5 DEF LoopStep

LEMMA TradeThread == ASSUME NEW e \in Engines PROVE TradeInv /\ ThreadStep(e) => TradeInv'
<1> SUFFICES ASSUME TradeInv, ThreadStep(e) PROVE TradeInv'
  OBVIOUS
<1>0. TypeInv'
  BY TypeThread DEF TradeInv
<1> USE ProcFacts DEF TradeInv
<1>1. CASE LoopStep(e)
  <2>1. /\ pc[e] \in InLoop
        /\ UNCHANGED <<registry, target, stopEvt>>
        /\ pc'[e] \in InLoop \cup {"kill", "done"}
        /\ pc' = [pc EXCEPT ![e] = pc'[e]]
        /\ \/ status' = status
           \/ status' = [status EXCEPT ![e] = "halted"]
           \/ status' = [status EXCEPT ![e] = "running"]
    BY <1>1, LoopKeepsTraders
  <2>2. \A f \in Engines : CanTrade(f)' => CanTrade(f)
    BY <2>1 DEF CanTrade, TypeInv, TypeOK
  <2>3. pc'[Router] = pc[Router]
    BY <2>1 DEF TypeInv, TypeOK
  <2>4. TraderIsRegistered' /\ ServesRegistered'
    BY <2>1, <2>2, <2>3 DEF TraderIsRegistered, ServesRegistered
  <2>5. NoneWhileStarting'
    BY <2>1, <2>2, <2>3 DEF NoneWhileStarting, TypeInv, TypeOK, ServedOK, InLoop, BeforeOrder
  <2>6. TraderIsShown'
    BY <2>1, <2>2, <2>3 DEF TraderIsShown, TypeInv, TypeOK
  <2>7. SelfJoinIsTold'
    BY <2>1 DEF SelfJoinIsTold, TypeInv, TypeOK, InLoop, BeforeOrder
  <2>8. UnstartedIsUnborn'
    BY <2>1 DEF UnstartedIsUnborn, TypeInv, TypeOK, InLoop, BeforeOrder
  <2> QED
    BY <1>0, <2>4, <2>5, <2>6, <2>7, <2>8
<1>2. CASE KillSelf(e)
  BY <1>0, <1>2 DEF KillSelf, TypeInv, TypeOK, ServedOK, TraderIsRegistered,
     NoneWhileStarting, ServesRegistered, TraderIsShown, SelfJoinIsTold,
     UnstartedIsUnborn, CanTrade, InLoop, BeforeOrder
<1>3. CASE KillStep(e)
  BY <1>3, TradeKill
<1>4. CASE SelfJoinRaises(e)
  BY <1>0, <1>4 DEF SelfJoinRaises, TypeInv, TypeOK, ServedOK,
     TraderIsRegistered, NoneWhileStarting, ServesRegistered, TraderIsShown,
     SelfJoinIsTold, UnstartedIsUnborn, CanTrade, InLoop, BeforeOrder
<1> QED
  BY <1>1, <1>2, <1>3, <1>4 DEF ThreadStep

LEMMA TradeWorld ==
  TradeInv /\ ((\E o \in Orders : BridgeAnswers(o) \/ BrokerCloses(o)) \/ Restart)
    => TradeInv'
<1> SUFFICES ASSUME TradeInv,
                    (\E o \in Orders : BridgeAnswers(o) \/ BrokerCloses(o)) \/ Restart
             PROVE  TradeInv'
  OBVIOUS
<1>0. TypeInv'
  BY TypeWorld DEF TradeInv
<1> USE DEF TradeInv, TraderIsRegistered, NoneWhileStarting, ServesRegistered,
    TraderIsShown, SelfJoinIsTold, UnstartedIsUnborn, CanTrade
<1>1. ASSUME NEW o \in Orders, BridgeAnswers(o) \/ BrokerCloses(o) PROVE TradeInv'
  BY <1>0, <1>1 DEF BridgeAnswers, BrokerCloses
<1>2. CASE Restart
  <2>1. \A e \in Engines : pc'[e] \in {"unborn", "done", "lost"}
    BY <1>2, ProcFacts DEF Restart, Gone
  <2>2. pc'[Router] = "idle"
    BY <1>2, ProcFacts DEF Restart
  <2>3. \A e \in Engines : status'[e] \in {"idle", "starting"} => pc'[e] = "unborn"
    BY <1>2, ProcFacts DEF Restart, Cleared, Gone
  <2> QED
    BY <1>0, <2>1, <2>2, <2>3 DEF InLoop, BeforeOrder
<1> QED
  BY <1>1, <1>2

LEMMA TradeStep == TradeInv /\ [Next]_vars => TradeInv'
<1>1. ASSUME TradeInv, UNCHANGED vars PROVE TradeInv'
  BY <1>1 DEF vars, TradeInv, TypeInv, TypeOK, ServedOK, TraderIsRegistered,
     NoneWhileStarting, ServesRegistered, TraderIsShown, SelfJoinIsTold,
     UnstartedIsUnborn, CanTrade
<1> QED
  BY <1>1, TradeRequest, TradeRouter, TradeThread, TradeWorld DEF Next

LEMMA TradeInvariant == Spec => []TradeInv
BY TradeInit, TradeStep, PTL DEF Spec

\* However many engines were started, stopped, killed and replaced, the only
\* one that still trades is the one a stop or a kill would reach.
THEOREM OnlyTheRegisteredEngineTrades == Spec => []TraderIsRegistered
<1>1. TradeInv => TraderIsRegistered
  BY DEF TradeInv
<1> QED
  BY <1>1, TradeInvariant, PTL

\* An engine shown as stopped or killed has its stop event set, or is the one a
\* kill request is about to tell.
THEOREM StoppedAndKilledAreTold == Spec => []TerminalIsTold
<1>1. TradeInv => TerminalIsTold
  BY DEF TradeInv, TraderIsShown, TerminalIsTold
<1> QED
  BY <1>1, TradeInvariant, PTL

-----------------------------------------------------------------------------
(***************************************************************************)
(* What an engine may still do after a stop and after a KILL verdict       *)
(***************************************************************************)

\* Where a thread is once it has sent an order with its stop event set.
Spent == {"await", "refresh", "top"} \cup Ended

\* The sender of a late order was told to stop and has left the part of its
\* loop that leads to an order.
LateIsLast ==
  \A o \in Orders :
    late[o] => /\ fate[o] /= "none"
               /\ sender[o] \in Engines
               /\ stopEvt[sender[o]]
               /\ pc[sender[o]] \in Spent

\* A thread whose breaker said KILL is in on_kill, has ended, or is about to.
KilledIsLeaving ==
  \A e \in Engines :
    killed[e] => \/ pc[e] \in SelfKill \cup Ended
                 \/ pc[e] = "top" /\ stopEvt[e]

LastInv == TradeInv /\ LateIsLast /\ OneLateOrder /\ KilledIsLeaving

LEMMA LastInit == Init => LastInv
<1> SUFFICES ASSUME Init PROVE LastInv
  OBVIOUS
<1>1. TradeInv
  BY TradeInit
<1> QED
  BY <1>1 DEF Init, LastInv, LateIsLast, OneLateOrder, KilledIsLeaving

\* A step that sends no order, judges no verdict and moves no thread keeps the
\* invariant, provided it clears no stop event of an engine with a thread.
LEMMA LastKept ==
  ASSUME LastInv, TradeInv',
         UNCHANGED <<late, sender, killed>>,
         \A o \in Orders : fate[o] /= "none" => fate'[o] /= "none",
         \A e \in Engines : pc[e] /= "unborn" =>
                              pc'[e] = pc[e] /\ (stopEvt[e] => stopEvt'[e])
  PROVE  LastInv'
BY DEF LastInv, LateIsLast, OneLateOrder, KilledIsLeaving, Spent, SelfKill, Ended

LEMMA LastRequest == LastInv /\ Request => LastInv'
<1> SUFFICES ASSUME LastInv, Request PROVE LastInv'
  OBVIOUS
<1>0. TradeInv'
  BY TradeRequest DEF LastInv
<1> USE ProcFacts DEF TradeInv, TypeInv, TypeOK
<1>1. ASSUME NEW e \in Engines, StartLive(e) PROVE LastInv'
  BY <1>0, <1>1, LastKept DEF StartLive, LastInv
<1>2. CASE StopLive
  BY <1>0, <1>2, LastKept DEF StopLive, LastInv
<1>3. CASE KillLive
  BY <1>0, <1>3, LastKept DEF KillLive, LastInv
<1> QED
  BY <1>1, <1>2, <1>3 DEF Request

LEMMA LastKill == ASSUME NEW p \in Procs PROVE LastInv /\ KillStep(p) => LastInv'
<1> SUFFICES ASSUME LastInv, KillStep(p) PROVE LastInv'
  OBVIOUS
<1>0. TradeInv'
  BY TradeKill DEF LastInv
<1>1. /\ UNCHANGED <<late, sender, killed>>
      /\ \A o \in Orders : fate[o] /= "none" => fate'[o] /= "none"
  BY DEF KillStep, KillList, KillListFails, KillClose, KillCloseFails,
     KillSetStop, LastInv, TradeInv, TypeInv, TypeOK
<1>2. pc[p] \in {"list", "close"} /\ Subject(p) \in Engines
  <2>1. pc[p] \in {"list", "close"}
    BY DEF KillStep, KillList, KillListFails, KillClose, KillCloseFails, KillSetStop
  <2> QED
    BY <2>1, SubjectIsEngine DEF LastInv, TradeInv
<1>3. /\ \A e \in Engines : stopEvt[e] => stopEvt'[e]
      /\ pc' = [pc EXCEPT ![p] = pc'[p]]
      /\ pc'[p] \in {"list", "close", "killing", "selfjoin"}
  BY <1>2, ProcFacts DEF KillStep, KillList, KillListFails, KillClose,
     KillCloseFails, KillSetStop, LastInv, TradeInv, TypeInv, TypeOK
<1>4. CASE p = Router
  BY <1>0, <1>1, <1>3, <1>4, ProcFacts, LastKept DEF LastInv, TradeInv, TypeInv, TypeOK
<1>5. CASE p \in Engines
  <2>1. pc'[p] \in SelfKill
    BY <1>5, <1>0, <1>3 DEF TradeInv, TypeInv, TypeOK, ThreadPcs, SelfKill,
       InLoop, BeforeOrder, Ended
  <2>2. \A e \in Engines : e /= p => pc'[e] = pc[e]
    BY <1>3, ProcFacts DEF LastInv, TradeInv, TypeInv, TypeOK
  <2>3. LateIsLast'
    BY <1>1, <1>2, <1>3, <2>2 DEF LastInv, LateIsLast, Spent, Ended
  <2>4. OneLateOrder' /\ KilledIsLeaving'
    BY <1>1, <1>3, <2>1, <2>2 DEF LastInv, OneLateOrder, KilledIsLeaving
  <2> QED
    BY <1>0, <2>3, <2>4 DEF LastInv
<1> QED
  BY <1>4, <1>5 DEF Procs

LEMMA LastRouter == LastInv /\ RouterStep => LastInv'
<1> SUFFICES ASSUME LastInv, RouterStep PROVE LastInv'
  OBVIOUS
<1>0. TradeInv'
  BY TradeRouter DEF LastInv
<1> USE ProcFacts DEF TradeInv, TypeInv, TypeOK, ServedOK
<1>1. CASE Connect \/ ConnectFails
  BY <1>0, <1>1, LastKept DEF Connect, ConnectFails, LastInv
<1>2. CASE Spawn
  <2>1. /\ target \in Engines /\ pc[target] = "unborn"
        /\ pc' = [pc EXCEPT ![Router] = "register", ![target] = "top"]
        /\ stopEvt' = [stopEvt EXCEPT ![target] = FALSE]
        /\ UNCHANGED <<late, sender, killed, fate>>
    BY <1>2 DEF Spawn, LastInv, NoneWhileStarting
  <2>2. ~ killed[target]
    BY <2>1 DEF LastInv, KilledIsLeaving, SelfKill, Ended
  <2>3. LateIsLast'
    BY <2>1 DEF LastInv, LateIsLast, Spent, Ended
  <2> QED
    BY <1>0, <2>1, <2>2, <2>3 DEF LastInv, OneLateOrder, KilledIsLeaving
<1>3. CASE Register \/ StopReturns \/ KillReturns
  BY <1>0, <1>3, LastKept DEF Register, StopReturns, KillReturns, LastInv
<1>4. CASE KillStep(Router)
  BY <1>4, LastKill
<1> QED
  BY <1>1, <1>2, <1>3, <1>4 DEF RouterStep

LEMMA LastLoop == ASSUME NEW e \in Engines PROVE LastInv /\ LoopStep(e) => LastInv'
<1> SUFFICES ASSUME LastInv, LoopStep(e) PROVE LastInv'
  OBVIOUS
<1>0. TradeInv'
  BY TradeThread DEF LastInv, ThreadStep
<1> USE ProcFacts DEF TradeInv, TypeInv, TypeOK, InLoop, BeforeOrder, SelfKill,
    Ended, Spent
<1>1. CASE LoopEnds(e)
  BY <1>0, <1>1 DEF LoopEnds, LastInv, LateIsLast, OneLateOrder, KilledIsLeaving
<1>2. CASE VerdictKill(e)
  BY <1>0, <1>2 DEF VerdictKill, Continues, LastInv, LateIsLast, OneLateOrder,
     KilledIsLeaving
<1>3. CASE VerdictHalt(e) \/ VerdictOk(e)
  <2>1. ~ killed[e]
    BY <1>3 DEF VerdictHalt, VerdictOk, Continues, LastInv, KilledIsLeaving
  <2> QED
    BY <1>0, <1>3, <2>1, SMTT(30) DEF VerdictHalt, VerdictOk, Continues, LastInv,
       LateIsLast, OneLateOrder, KilledIsLeaving
<1>4. CASE Halt(e) \/ ResumeTest(e) \/ Resume(e) \/ NoTrade(e)
  <2>1. /\ pc[e] \in BeforeOrder
        /\ pc' = [pc EXCEPT ![e] = pc'[e]]
        /\ UNCHANGED <<stopEvt, killed, late, sender, fate>>
    BY <1>4 DEF Halt, ResumeTest, Resume, NoTrade
  <2>2. ~ killed[e] /\ \A o \in Orders : late[o] => sender[o] /= e
    BY <2>1 DEF LastInv, LateIsLast, KilledIsLeaving
  <2> QED
    BY <1>0, <2>1, <2>2 DEF LastInv, LateIsLast, OneLateOrder, KilledIsLeaving
<1>5. ASSUME NEW o \in Orders, PlaceOrder(e, o) PROVE LastInv'
  \* no earlier late order is e's: its sender would be past its last bar
  <2>1. \A q \in Orders : late[q] => sender[q] /= e /\ q /= o
    BY <1>5 DEF PlaceOrder, LastInv, LateIsLast
  <2>2. ~ killed[e]
    BY <1>5 DEF PlaceOrder, LastInv, KilledIsLeaving
  <2>3. LateIsLast'
    BY <1>5, <2>1 DEF PlaceOrder, LastInv, LateIsLast
  <2>4. OneLateOrder'
    BY <1>5, <2>1 DEF PlaceOrder, LastInv, OneLateOrder
  <2>5. KilledIsLeaving'
    BY <1>5, <2>2 DEF PlaceOrder, LastInv, KilledIsLeaving
  <2> QED
    BY <1>0, <2>3, <2>4, <2>5 DEF LastInv
<1>6. CASE OrderFilled(e) \/ OrderRefused(e) \/ OrderTimesOut(e)
  <2>1. /\ pc[e] = "await"
        /\ pc' = [pc EXCEPT ![e] = "refresh"]
        /\ UNCHANGED <<stopEvt, killed, late, sender, fate>>
    BY <1>6 DEF OrderFilled, OrderRefused, OrderTimesOut
  <2>2. ~ killed[e]
    BY <2>1 DEF LastInv, KilledIsLeaving
  <2> QED
    BY <1>0, <2>1, <2>2 DEF LastInv, LateIsLast, OneLateOrder, KilledIsLeaving
<1>7. CASE RefreshOk(e) \/ RefreshFails(e)
  <2>1. /\ pc[e] = "refresh"
        /\ pc' = [pc EXCEPT ![e] = "top"]
        /\ UNCHANGED <<stopEvt, killed, late, sender, fate>>
    BY <1>7 DEF RefreshOk, RefreshFails
  <2>2. ~ killed[e]
    BY <2>1 DEF LastInv, KilledIsLeaving
  <2> QED
    BY <1>0, <2>1, <2>2 DEF LastInv, LateIsLast, OneLateOrder, KilledIsLeaving
<1> QED
  BY <1>1, <1>2, <1>3, <1>4, <1>5, <1>6, <1>7 DEF LoopStep

LEMMA LastThread == ASSUME NEW e \in Engines PROVE LastInv /\ ThreadStep(e) => LastInv'
<1> SUFFICES ASSUME LastInv, ThreadStep(e) PROVE LastInv'
  OBVIOUS
<1>0. TradeInv'
  BY TradeThread DEF LastInv
<1> USE ProcFacts
<1>1. CASE LoopStep(e)
  BY <1>1, LastLoop
<1>2. CASE KillSelf(e)
  BY <1>0, <1>2 DEF KillSelf, LastInv, TradeInv, TypeInv, TypeOK, LateIsLast,
     OneLateOrder, KilledIsLeaving, Spent, SelfKill, Ended
<1>3. CASE KillStep(e)
  BY <1>3, LastKill
<1>4. CASE SelfJoinRaises(e)
  BY <1>0, <1>4 DEF SelfJoinRaises, LastInv, TradeInv, TypeInv, TypeOK,
     SelfJoinIsTold, LateIsLast, OneLateOrder, KilledIsLeaving, Spent, SelfKill,
     Ended
<1> QED
  BY <1>1, <1>2, <1>3, <1>4 DEF ThreadStep

LEMMA LastWorld ==
  LastInv /\ ((\E o \in Orders : BridgeAnswers(o) \/ BrokerCloses(o)) \/ Restart)
    => LastInv'
<1> SUFFICES ASSUME LastInv,
                    (\E o \in Orders : BridgeAnswers(o) \/ BrokerCloses(o)) \/ Restart
             PROVE  LastInv'
  OBVIOUS
<1>0. TradeInv'
  BY TradeWorld DEF LastInv
<1> USE ProcFacts DEF TradeInv, TypeInv, TypeOK
<1>1. ASSUME NEW o \in Orders, BridgeAnswers(o) \/ BrokerCloses(o) PROVE LastInv'
  BY <1>0, <1>1, LastKept DEF BridgeAnswers, BrokerCloses, LastInv
<1>2. CASE Restart
  <2>1. \A e \in Engines :
          /\ stopEvt[e] => stopEvt'[e]
          /\ killed'[e] => killed[e] /\ pc'[e] = pc[e]
          /\ pc'[e] = pc[e] \/ pc'[e] = "lost"
    BY <1>2 DEF Restart, Cleared, Gone
  <2>2. LateIsLast'
    BY <1>2, <2>1 DEF Restart, LastInv, LateIsLast, Spent, Ended
  <2>3. OneLateOrder'
    BY <1>2 DEF Restart, LastInv, OneLateOrder
  <2>4. KilledIsLeaving'
    BY <1>0, <2>1 DEF LastInv, KilledIsLeaving, SelfKill, Ended
  <2> QED
    BY <1>0, <2>2, <2>3, <2>4 DEF LastInv
<1> QED
  BY <1>1, <1>2

LEMMA LastStep == LastInv /\ [Next]_vars => LastInv'
<1>1. ASSUME LastInv, UNCHANGED vars PROVE LastInv'
  <2>1. TradeInv'
    BY <1>1, TradeStep DEF LastInv
  <2> QED
    BY <1>1, <2>1, LastKept DEF vars
<1> QED
  BY <1>1, LastRequest, LastRouter, LastThread, LastWorld DEF Next

LEMMA LastInvariant == Spec => []LastInv
BY LastInit, LastStep, PTL DEF Spec

\* A stop or a kill is followed by at most one order of the engine.
THEOREM AtMostOneLateOrder == Spec => []OneLateOrder
<1>1. LastInv => OneLateOrder
  BY DEF LastInv
<1> QED
  BY <1>1, LastInvariant, PTL

\* An engine whose circuit breaker said KILL works on no further bar.
THEOREM NoBarAfterKillVerdict == Spec => []KillVerdictIsFinal
<1>1. LastInv => KillVerdictIsFinal
  BY DEF LastInv, KilledIsLeaving, KillVerdictIsFinal, SelfKill, Ended, BeforeOrder
<1> QED
  BY <1>1, LastInvariant, PTL

-----------------------------------------------------------------------------
(***************************************************************************)
(* The engines implement TradingRight                                      *)
(***************************************************************************)

Holder == {e \in Engines : CanTrade(e)}
Owing == {e \in Engines : pc[e] \in BeforeOrder /\ stopEvt[e]}
EverHeld == {e \in Engines : pc[e] /= "unborn"}

\* Only an order that was sent has a sender.
UnsentHasNoSender == \A o \in Orders : fate[o] = "none" => sender[o] = NoEngine

RightInv == TradeInv /\ UnsentHasNoSender

LEMMA RightInvariant == Spec => []RightInv
<1>1. Init => RightInv
  BY TradeInit DEF Init, RightInv, UnsentHasNoSender
<1>2. RightInv /\ [Next]_vars => RightInv'
  <2> SUFFICES ASSUME RightInv, [Next]_vars PROVE UnsentHasNoSender'
    BY TradeStep DEF RightInv
  <2> USE DEF RightInv, UnsentHasNoSender, TradeInv, TypeInv, TypeOK
  <2>1. CASE UNCHANGED vars
    BY <2>1 DEF vars
  <2>2. CASE Request
    BY <2>2 DEF Request, StartLive, StopLive, KillLive
  <2>3. ASSUME NEW p \in Procs, KillStep(p) PROVE UnsentHasNoSender'
    BY <2>3 DEF KillStep, KillList, KillListFails, KillClose, KillCloseFails,
       KillSetStop
  <2>4. CASE RouterStep
    BY <2>3, <2>4, ProcFacts DEF RouterStep, Connect, ConnectFails, Spawn,
       Register, StopReturns, KillReturns
  <2>5. ASSUME NEW e \in Engines, ThreadStep(e) PROVE UnsentHasNoSender'
    <3>1. ASSUME NEW o \in Orders, PlaceOrder(e, o) PROVE UnsentHasNoSender'
      BY <3>1 DEF PlaceOrder
    <3>2. CASE KillStep(e)
      BY <2>3, <3>2, ProcFacts
    <3>3. CASE KillSelf(e) \/ SelfJoinRaises(e)
      BY <3>3 DEF KillSelf, SelfJoinRaises
    <3>4. ASSUME LoopStep(e), \A o \in Orders : ~ PlaceOrder(e, o)
          PROVE UnsentHasNoSender'
      BY <3>4 DEF LoopStep, LoopEnds, VerdictKill, VerdictHalt, VerdictOk, Halt,
         ResumeTest, Resume, NoTrade, OrderFilled, OrderRefused, OrderTimesOut,
         RefreshOk, RefreshFails
    <3> QED
      BY <2>5, <3>1, <3>2, <3>3, <3>4 DEF ThreadStep
  <2>6. ASSUME NEW o \in Orders, BridgeAnswers(o) \/ BrokerCloses(o)
        PROVE UnsentHasNoSender'
    BY <2>6 DEF BridgeAnswers, BrokerCloses
  <2>7. CASE Restart
    BY <2>7 DEF Restart
  <2> QED
    BY <2>1, <2>2, <2>4, <2>5, <2>6, <2>7 DEF Next
<1> QED
  BY <1>1, <1>2, PTL DEF Spec

\* At most one engine holds the right.
LEMMA OneHolder ==
  ASSUME TradeInv, NEW e \in Engines, CanTrade(e)
  PROVE  Holder = {e}
BY DEF TradeInv, TraderIsRegistered, Holder

LEMMA RightStutters ==
  ASSUME Holder' = Holder, Owing' = Owing, EverHeld' = EverHeld, sender' = sender
  PROVE  UNCHANGED Right!vars
BY DEF Right!vars, Holder, Owing, EverHeld

\* Setting the stop event of an engine takes the right from it, if it had it.
LEMMA TellingRevokes ==
  ASSUME TradeInv, NEW e \in Engines,
         stopEvt' = [stopEvt EXCEPT ![e] = TRUE],
         \A f \in Engines : pc'[f] = pc[f],
         sender' = sender
  PROVE  [Right!Next]_(Right!vars)
<1> USE DEF TradeInv, TypeInv, TypeOK
<1>0. EverHeld' = EverHeld
  BY DEF EverHeld
<1>1. CASE CanTrade(e)
  <2>1. Holder = {e} /\ Holder' = {}
    BY <1>1, OneHolder DEF Holder, CanTrade
  <2>2. Owing' = Owing \/ Owing' = Owing \cup {e}
    BY DEF Owing
  <2> QED
    BY <1>0, <2>1, <2>2 DEF Right!Next, Right!Revoke, Holder, Owing, EverHeld
<1>2. CASE ~ CanTrade(e)
  <2>1. Holder' = Holder
    BY <1>2 DEF Holder, CanTrade
  <2>2. Owing' = Owing
    BY <1>2 DEF Owing, CanTrade, InLoop
  <2> QED
    BY <1>0, <2>1, <2>2, RightStutters
<1> QED
  BY <1>1, <1>2

LEMMA RightRequest == RightInv /\ Request => [Right!Next]_(Right!vars)
<1> SUFFICES ASSUME RightInv, Request PROVE [Right!Next]_(Right!vars)
  OBVIOUS
<1> USE ProcFacts DEF RightInv
<1>1. CASE StopLive
  BY <1>1, TellingRevokes DEF StopLive, TradeInv, TypeInv, TypeOK
<1>2. ASSUME NEW e \in Engines, StartLive(e) PROVE [Right!Next]_(Right!vars)
  BY <1>2, RightStutters DEF StartLive, TradeInv, TypeInv, TypeOK, Holder, Owing,
     EverHeld, CanTrade
<1>3. CASE KillLive
  BY <1>3, RightStutters DEF KillLive, TradeInv, TypeInv, TypeOK, Holder, Owing,
     EverHeld, CanTrade
<1> QED
  BY <1>1, <1>2, <1>3 DEF Request

\* Setting the stop event is the only step of on_kill that TradingRight sees.
LEMMA RightKill ==
  ASSUME NEW p \in Procs PROVE RightInv /\ KillStep(p) => [Right!Next]_(Right!vars)
<1> SUFFICES ASSUME RightInv, KillStep(p) PROVE [Right!Next]_(Right!vars)
  OBVIOUS
<1> USE ProcFacts DEF RightInv
<1>0. pc[p] \in {"list", "close"} /\ Subject(p) \in Engines
  <2>1. pc[p] \in {"list", "close"}
    BY DEF KillStep, KillList, KillListFails, KillClose, KillCloseFails, KillSetStop
  <2> QED
    BY <2>1, SubjectIsEngine DEF TradeInv
<1>1. CASE KillSetStop(p)
  <2>1. CASE p = Router
    BY <1>0, <1>1, <2>1, TellingRevokes DEF KillSetStop, TradeInv, TypeInv, TypeOK
  <2>2. CASE p \in Engines
    BY <1>0, <1>1, <2>2, RightStutters DEF KillSetStop, Subject, TradeInv,
       TypeInv, TypeOK, Holder, Owing, EverHeld, CanTrade, InLoop, BeforeOrder
  <2> QED
    BY <2>1, <2>2 DEF Procs
<1>2. ASSUME ~ KillSetStop(p) PROVE [Right!Next]_(Right!vars)
  <2>1. /\ pc' = pc \/ pc' = [pc EXCEPT ![p] = "close"]
        /\ UNCHANGED <<stopEvt, sender>>
    BY <1>2 DEF KillStep, KillList, KillListFails, KillClose, KillCloseFails
  <2>2. Holder' = Holder /\ Owing' = Owing /\ EverHeld' = EverHeld
    BY <1>0, <2>1 DEF TradeInv, TypeInv, TypeOK, Holder, Owing, EverHeld,
       CanTrade, InLoop, BeforeOrder
  <2> QED
    BY <2>1, <2>2, RightStutters
<1> QED
  BY <1>1, <1>2

\* Starting the thread grants the right; nobody else has it then.
LEMMA RightRouter == RightInv /\ RouterStep => [Right!Next]_(Right!vars)
<1> SUFFICES ASSUME RightInv, RouterStep PROVE [Right!Next]_(Right!vars)
  OBVIOUS
<1> USE ProcFacts DEF RightInv, TradeInv, TypeInv, TypeOK, ServedOK
<1>1. CASE Spawn
  <2>1. /\ target \in Engines /\ pc[target] = "unborn" /\ Holder = {}
        /\ pc' = [pc EXCEPT ![Router] = "register", ![target] = "top"]
        /\ stopEvt' = [stopEvt EXCEPT ![target] = FALSE]
        /\ sender' = sender
    BY <1>1 DEF Spawn, NoneWhileStarting, Holder
  <2>2. Holder' = {target}
    BY <2>1 DEF Holder, CanTrade, InLoop
  <2>3. Owing' = Owing
    BY <2>1 DEF Owing, BeforeOrder
  <2>4. EverHeld' = EverHeld \cup {target} /\ target \notin EverHeld
    BY <2>1 DEF EverHeld
  <2>5. PICK e \in Engines : e = target
    BY <2>1
  <2>6. Right!Grant(e)
    BY <2>1, <2>2, <2>3, <2>4, <2>5 DEF Right!Grant, Holder, Owing, EverHeld
  <2> QED
    BY <2>6 DEF Right!Next
<1>2. CASE KillStep(Router)
  BY <1>2, RightKill
<1>3. CASE Connect \/ ConnectFails \/ Register \/ StopReturns \/ KillReturns
  <2>1. /\ \A e \in Engines : pc'[e] = pc[e]
        /\ UNCHANGED <<stopEvt, sender>>
    BY <1>3 DEF Connect, ConnectFails, Register, StopReturns, KillReturns
  <2> QED
    BY <2>1, RightStutters DEF Holder, Owing, EverHeld, CanTrade
<1> QED
  BY <1>1, <1>2, <1>3 DEF RouterStep

LEMMA RightThread ==
  ASSUME NEW e \in Engines
  PROVE  RightInv /\ ThreadStep(e) => [Right!Next]_(Right!vars)
<1> SUFFICES ASSUME RightInv, ThreadStep(e) PROVE [Right!Next]_(Right!vars)
  OBVIOUS
<1> USE ProcFacts DEF RightInv
<1> USE DEF TradeInv, TypeInv, TypeOK
<1>1. CASE VerdictKill(e)
  <2>1. Holder = {e}
    BY <1>1, OneHolder DEF VerdictKill, Continues, CanTrade, InLoop
  <2>2. Holder' = {} /\ Owing' = Owing /\ EverHeld' = EverHeld /\ sender' = sender
    BY <1>1, <2>1 DEF VerdictKill, Continues, Holder, Owing, EverHeld, CanTrade,
       InLoop, BeforeOrder
  <2> QED
    BY <2>2 DEF Right!Next, Right!Revoke, Holder, Owing, EverHeld
<1>2. ASSUME NEW o \in Orders, PlaceOrder(e, o) PROVE [Right!Next]_(Right!vars)
  <2>1. e \in Holder \cup Owing /\ sender[o] = NoEngine
    BY <1>2 DEF PlaceOrder, Holder, Owing, CanTrade, InLoop, BeforeOrder,
       UnsentHasNoSender
  <2>2. Holder' = Holder /\ EverHeld' = EverHeld
    BY <1>2 DEF PlaceOrder, Holder, EverHeld, CanTrade, InLoop, BeforeOrder
  <2>3. Owing' = Owing \ {e} /\ sender' = [sender EXCEPT ![o] = e]
    BY <1>2 DEF PlaceOrder, Owing, BeforeOrder
  <2>4. Right!Order(e, o)
    BY <2>1, <2>2, <2>3 DEF Right!Order, Holder, Owing, EverHeld
  <2> QED
    BY <2>4 DEF Right!Next
<1>3. CASE Halt(e) \/ NoTrade(e)
  <2>1. /\ Holder' = Holder /\ EverHeld' = EverHeld /\ sender' = sender
        /\ Owing' = Owing \ {e}
    BY <1>3 DEF Halt, NoTrade, Holder, Owing, EverHeld, CanTrade, InLoop, BeforeOrder
  <2>2. Right!Lapse(e)
    BY <2>1 DEF Right!Lapse, Holder, Owing, EverHeld
  <2> QED
    BY <2>2 DEF Right!Next
<1>4. CASE \/ LoopEnds(e) \/ VerdictHalt(e) \/ VerdictOk(e)
           \/ ResumeTest(e) \/ Resume(e)
  <2>1. Holder' = Holder /\ Owing' = Owing /\ EverHeld' = EverHeld /\ sender' = sender
    BY <1>4 DEF LoopEnds, VerdictHalt, VerdictOk, ResumeTest, Resume, Continues,
       Holder, Owing, EverHeld, CanTrade, InLoop, BeforeOrder
  <2> QED
    BY <2>1, RightStutters
<1>5. CASE \/ OrderFilled(e) \/ OrderRefused(e) \/ OrderTimesOut(e)
           \/ RefreshOk(e) \/ RefreshFails(e)
  <2>1. Holder' = Holder /\ Owing' = Owing /\ EverHeld' = EverHeld /\ sender' = sender
    BY <1>5 DEF OrderFilled, OrderRefused, OrderTimesOut, RefreshOk, RefreshFails,
       Holder, Owing, EverHeld, CanTrade, InLoop, BeforeOrder
  <2> QED
    BY <2>1, RightStutters
<1>6. CASE KillSelf(e) \/ SelfJoinRaises(e)
  <2>1. Holder' = Holder /\ Owing' = Owing /\ EverHeld' = EverHeld /\ sender' = sender
    BY <1>6 DEF KillSelf, SelfJoinRaises, SelfJoinIsTold,
       Holder, Owing, EverHeld, CanTrade, InLoop, BeforeOrder
  <2> QED
    BY <2>1, RightStutters
<1>7. CASE KillStep(e)
  BY <1>7, RightKill
<1> QED
  BY <1>1, <1>2, <1>3, <1>4, <1>5, <1>6, <1>7 DEF ThreadStep, LoopStep

\* The engines, the registry and the bridge, in any number, keep the promise
\* of TradingRight: one engine at a time has the right to trade, none has it
\* twice, and one that lost it sends at most one more order.
THEOREM EnginesKeepTradingRight == Spec => KeepsTradingRight
<1>1. Init => Right!Init
  <2> SUFFICES ASSUME Init PROVE Right!Init
    OBVIOUS
  <2>1. \A e \in Engines : pc[e] = "unborn"
    BY ProcFacts DEF Init
  <2> QED
    BY <2>1 DEF Init, Right!Init, CanTrade, InLoop, BeforeOrder
<1>2. RightInv /\ [Next]_vars => [Right!Next]_(Right!vars)
  <2>1. CASE UNCHANGED vars
    BY <2>1, RightStutters DEF vars, Holder, Owing, EverHeld, CanTrade
  <2>2. ASSUME NEW o \in Orders, BridgeAnswers(o) \/ BrokerCloses(o)
        PROVE  [Right!Next]_(Right!vars)
    BY <2>2, RightStutters DEF BridgeAnswers, BrokerCloses, Holder, Owing,
       EverHeld, CanTrade
  <2>3. ASSUME RightInv, Restart PROVE [Right!Next]_(Right!vars)
    <3>1. \A e \in Engines :
            pc'[e] = pc[e] \/ (pc[e] /= "unborn" /\ pc'[e] = "lost")
      BY <2>3, ProcFacts DEF Restart, Gone
    <3>2. \A e \in Engines : pc'[e] \in {"unborn", "done", "lost"}
      BY <2>3, ProcFacts DEF Restart, Gone, RightInv, TradeInv, UnstartedIsUnborn
    <3>3. Holder' = {} /\ Owing' = {} /\ EverHeld' = EverHeld /\ sender' = sender
      BY <2>3, <3>1, <3>2 DEF Restart, Holder, Owing, EverHeld, CanTrade, InLoop,
         BeforeOrder
    <3> QED
      BY <3>3 DEF Right!Next, Right!Crash, Holder, Owing, EverHeld
  <2> QED
    BY <2>1, <2>2, <2>3, RightRequest, RightRouter, RightThread DEF Next
<1> QED
  BY <1>1, <1>2, RightInvariant, PTL DEF Spec, Right!Spec, KeepsTradingRight

=============================================================================
