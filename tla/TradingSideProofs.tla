-------------------------- MODULE TradingSideProofs --------------------------
(***************************************************************************)
(* Proofs about the components around the live engine.                     *)
(***************************************************************************)
EXTENDS TradingSide, FiniteSetTheorems, TLAPS

-----------------------------------------------------------------------------
(* A step of the whole is a step of each component or leaves it alone.     *)
LEMMA StepOfEach ==
  ASSUME [Next]_vars
  PROVE  /\ Bridge!Next \/ UNCHANGED bridge
         /\ Jobs!Next \/ UNCHANGED jobs
         /\ TV!Next \/ UNCHANGED calls
         /\ Preview!Next \/ UNCHANGED preview
         /\ Paper!Next \/ UNCHANGED paper
         /\ Risk!Next \/ UNCHANGED risk
         /\ Test!Next \/ UNCHANGED test
BY DEF Next, vars

-----------------------------------------------------------------------------
(* MT5Bridge: the session.                                                 *)

LEMMA BridgeConstants ==
  /\ NoAccount \notin Accounts
  /\ Loop \notin BridgeThreads
  /\ Bridge!Nobody \notin Bridge!Workers
  /\ Retries \in Nat \ {0}
  /\ BridgeTickets \in Nat
BY TradingParameters DEF TradingParameters, Bridge!Parameters

LEMMA BridgeZeros == 0 \in 0..Retries /\ 0 \in 0..BridgeTickets
BY BridgeConstants

(* In conversation with the terminal.                                      *)
Talks(w) == req[w].pc \notin {"idle", "wait"}

(* Who talks to the terminal holds the lock, so that one does at a time    *)
(* and the account it began on is there or nobody's.  A request that waits *)
(* is of some operation, and one that sends is not a /connect.             *)
BridgeInv ==
  /\ Bridge!TypeOK
  /\ \A w \in Bridge!Workers : Talks(w) => holder = w
  /\ \A w \in Bridge!Workers : req[w].pc = "wait" => req[w].op # "none"
  /\ \A w \in Bridge!Workers :
       req[w].pc \in {"list", "tick", "send"} =>
         req[w].op \in {"market", "pending", "close", "modify"}
  /\ OneAccountPerOperation

LEMMA BridgeInvInit == Bridge!Init => BridgeInv
BY BridgeConstants
   DEF Bridge!Init, BridgeInv, Bridge!TypeOK, Talks, Bridge!Idle, Bridge!Tickets,
       Bridge!LoopOps, Bridge!ThreadOps, OneAccountPerOperation,
       Bridge!OneAccountPerOperation

(* What a worker's record may be.                                          *)
Request ==
  [pc : {"idle", "wait", "init", "login", "info", "list", "tick", "send"},
   op : Bridge!LoopOps \cup Bridge!ThreadOps \cup {"none"},
   acct : Accounts \cup {NoAccount}, ticket : 0..BridgeTickets, sl : BOOLEAN,
   tries : 0..Retries, from : Accounts \cup {NoAccount}]

BridgeTypes ==
  /\ login \in Accounts \cup {NoAccount}
  /\ client \in [connected : BOOLEAN, account : Accounts \cup {NoAccount}]
  /\ book \in [Bridge!Tickets -> [state : {"none", "pending", "open", "closed"},
                                  on : Accounts \cup {NoAccount}, sl : BOOLEAN]]

(* A request that arrives waits: nobody's session is touched.              *)
LEMMA BridgeInvArrives ==
  ASSUME BridgeInv, NEW w \in Bridge!Workers, NEW r \in Request, Bridge!Arrives(w, r),
         r.pc = "wait", r.op # "none"
  PROVE  BridgeInv'
BY BridgeConstants
   DEF Bridge!Arrives, BridgeInv, Bridge!TypeOK, Talks, Request,
       OneAccountPerOperation, Bridge!OneAccountPerOperation

LEMMA BridgeInvArrivals == BridgeInv /\ Bridge!Arrivals => BridgeInv'
<1> SUFFICES ASSUME BridgeInv, Bridge!Arrivals PROVE BridgeInv'
  OBVIOUS
<1> USE BridgeZeros DEF Bridge!LoopOps, Bridge!ThreadOps
<1>0. /\ BridgeThreads \subseteq Bridge!Workers /\ Loop \in Bridge!Workers
      /\ Bridge!Tickets \subseteq 0..BridgeTickets
  BY DEF Bridge!Workers, Bridge!Tickets
<1>1. ASSUME NEW w \in BridgeThreads, NEW a \in Accounts, Bridge!Connect(w, a)
      PROVE  BridgeInv'
  <2> DEFINE r == [Bridge!Idle EXCEPT !.pc = "wait", !.op = "connect", !.acct = a]
  <2>1. r \in Request /\ r.pc = "wait" /\ r.op # "none"
    BY DEF Request, Bridge!Idle
  <2>2. Bridge!Arrives(w, r)
    BY <1>1 DEF Bridge!Connect
  <2> HIDE DEF r
  <2> QED
    BY <1>0, <2>1, <2>2, BridgeInvArrives
<1>2. ASSUME NEW w \in BridgeThreads, Bridge!Disconnect(w)
      PROVE  BridgeInv'
  <2> DEFINE r == [Bridge!Idle EXCEPT !.pc = "wait", !.op = "disconnect"]
  <2>1. r \in Request /\ r.pc = "wait" /\ r.op # "none"
    BY DEF Request, Bridge!Idle
  <2>2. Bridge!Arrives(w, r)
    BY <1>2 DEF Bridge!Disconnect
  <2> HIDE DEF r
  <2> QED
    BY <1>0, <2>1, <2>2, BridgeInvArrives
<1>3. ASSUME NEW op \in {"market", "pending"}, NEW sl \in BOOLEAN,
             Bridge!PlaceOrder(op, sl)
      PROVE  BridgeInv'
  <2> DEFINE r == [Bridge!Idle EXCEPT !.pc = "wait", !.op = op, !.sl = sl]
  <2>1. r \in Request /\ r.pc = "wait" /\ r.op # "none"
    BY DEF Request, Bridge!Idle
  <2>2. Bridge!Arrives(Loop, r)
    BY <1>3 DEF Bridge!PlaceOrder
  <2> HIDE DEF r
  <2> QED
    BY <1>0, <2>1, <2>2, BridgeInvArrives
<1>4. ASSUME NEW t \in Bridge!Tickets, Bridge!ClosePosition(t)
      PROVE  BridgeInv'
  <2> DEFINE r == [Bridge!Idle EXCEPT !.pc = "wait", !.op = "close", !.ticket = t]
  <2>1. r \in Request /\ r.pc = "wait" /\ r.op # "none"
    BY <1>0 DEF Request, Bridge!Idle
  <2>2. Bridge!Arrives(Loop, r)
    BY <1>4 DEF Bridge!ClosePosition
  <2> HIDE DEF r
  <2> QED
    BY <1>0, <2>1, <2>2, BridgeInvArrives
<1>5. ASSUME NEW w \in BridgeThreads, NEW t \in Bridge!Tickets, NEW sl \in BOOLEAN,
             Bridge!ModifyPosition(w, t, sl)
      PROVE  BridgeInv'
  <2> DEFINE r == [Bridge!Idle EXCEPT !.pc = "wait", !.op = "modify", !.ticket = t,
                                      !.sl = sl]
  <2>1. r \in Request /\ r.pc = "wait" /\ r.op # "none"
    BY <1>0 DEF Request, Bridge!Idle
  <2>2. Bridge!Arrives(w, r)
    BY <1>5 DEF Bridge!ModifyPosition
  <2> HIDE DEF r
  <2> QED
    BY <1>0, <2>1, <2>2, BridgeInvArrives
<1> QED
  BY <1>1, <1>2, <1>3, <1>4, <1>5 DEF Bridge!Arrivals

LEMMA BridgeInvBroker == BridgeInv /\ Bridge!Broker => BridgeInv'
BY BridgeConstants
   DEF Bridge!Broker, Bridge!PendingFills, Bridge!BrokerCloses, Bridge!TerminalDrops,
       BridgeInv, Bridge!TypeOK, Talks, OneAccountPerOperation,
       Bridge!OneAccountPerOperation

(* Only one is in conversation: when the lock is free, or held by w, the   *)
(* record of w may become any that respects the invariant.                 *)
LEMMA OneTalks ==
  ASSUME BridgeInv, NEW w \in Bridge!Workers, holder \in {w, Bridge!Nobody},
         NEW r \in Request, req' = [req EXCEPT ![w] = r], BridgeTypes',
         holder' \in {w, Bridge!Nobody},
         r.pc \notin {"idle", "wait"} => holder' = w,
         r.pc = "wait" => r.op # "none",
         r.pc \in {"list", "tick", "send"} =>
           /\ r.op \in {"market", "pending", "close", "modify"}
           /\ login' \in {r.from, NoAccount}
  PROVE  BridgeInv'
<1>1. req \in [Bridge!Workers -> Request]
  BY DEF BridgeInv, Bridge!TypeOK, Request
<1>2. req' \in [Bridge!Workers -> Request] /\ req'[w] = r
  BY <1>1
<1>3. ASSUME NEW v \in Bridge!Workers, v # w
      PROVE  req'[v] = req[v] /\ req'[v].pc \in {"idle", "wait"}
  <2>1. req'[v] = req[v]
    BY <1>1, <1>3
  <2>2. holder # v
    BY <1>3, BridgeConstants
  <2> QED
    BY <2>1, <2>2 DEF BridgeInv, Talks
<1> QED
  <2>1. Bridge!TypeOK'
    BY <1>2 DEF Bridge!TypeOK, BridgeTypes, Request
  <2>2. \A v \in Bridge!Workers : req'[v].pc \notin {"idle", "wait"} => holder' = v
    BY <1>2, <1>3
  <2>3. \A v \in Bridge!Workers : req'[v].pc = "wait" => req'[v].op # "none"
    BY <1>2, <1>3 DEF BridgeInv
  <2>4. \A v \in Bridge!Workers : req'[v].pc \in {"list", "tick", "send"} =>
          /\ req'[v].op \in {"market", "pending", "close", "modify"}
          /\ login' \in {req'[v].from, NoAccount}
    BY <1>2, <1>3
  <2> QED
    BY <2>1, <2>2, <2>3, <2>4
       DEF BridgeInv, Talks, OneAccountPerOperation, Bridge!OneAccountPerOperation

(* A step of a conversation leads to the next one, ends it, or repeats it. *)
LEMMA StepGoes ==
  ASSUME BridgeInv, NEW w \in Bridge!Workers, Talks(w),
         NEW pc \in {"login", "info", "tick", "send"}, Bridge!Goes(w, pc), BridgeTypes',
         pc \in {"tick", "send"} =>
           req[w].pc \in {"list", "tick"} /\ UNCHANGED login
  PROVE  BridgeInv'
<1> DEFINE r == [req[w] EXCEPT !.pc = pc, !.tries = 0]
<1>1. req[w] \in Request /\ holder = w
  BY DEF BridgeInv, Bridge!TypeOK, Request
<1>2. r \in Request /\ r.pc = pc /\ r.op = req[w].op /\ r.from = req[w].from
  BY <1>1, BridgeZeros DEF Request
<1>3. req' = [req EXCEPT ![w] = r] /\ holder' = w
  <2>1. req' = [req EXCEPT ![w].pc = pc, ![w].tries = 0] /\ holder' = holder
    BY DEF Bridge!Goes
  <2> QED
    BY <1>1, <2>1
<1>4. pc \in {"tick", "send"} =>
        /\ r.op \in {"market", "pending", "close", "modify"}
        /\ login' \in {r.from, NoAccount}
  BY <1>2 DEF BridgeInv, OneAccountPerOperation, Bridge!OneAccountPerOperation
<1> HIDE DEF r
<1> QED
  BY <1>1, <1>2, <1>3, <1>4, OneTalks

LEMMA StepFinishes ==
  ASSUME BridgeInv, NEW w \in Bridge!Workers, Talks(w), Bridge!Finish(w), BridgeTypes'
  PROVE  BridgeInv'
<1>1. Bridge!Idle \in Request /\ Bridge!Idle.pc = "idle"
  BY BridgeZeros DEF Bridge!Idle, Request
<1>2. req' = [req EXCEPT ![w] = Bridge!Idle] /\ holder' = Bridge!Nobody /\ holder = w
  BY DEF Bridge!Finish, BridgeInv
<1> QED
  BY <1>1, <1>2, OneTalks

LEMMA StepRaises ==
  ASSUME BridgeInv, NEW w \in Bridge!Workers, Talks(w), Bridge!Raised(w), BridgeTypes',
         req[w].pc \in {"list", "tick", "send"} => UNCHANGED login
  PROVE  BridgeInv'
<1> DEFINE r == [req[w] EXCEPT !.tries = @ + 1]
<1>1. req[w] \in Request /\ holder = w
  BY DEF BridgeInv, Bridge!TypeOK, Request
<1>2. CASE req[w].tries + 1 < Retries
  <2>1. r \in Request /\ r.pc = req[w].pc /\ r.op = req[w].op /\ r.from = req[w].from
    BY <1>1, <1>2, BridgeConstants DEF Request
  <2>2. req' = [req EXCEPT ![w] = r] /\ holder' = w
    BY <1>1, <1>2 DEF Bridge!Raised, BridgeInv, Bridge!TypeOK
  <2>3. r.pc \in {"list", "tick", "send"} =>
          /\ r.op \in {"market", "pending", "close", "modify"}
          /\ login' \in {r.from, NoAccount}
    BY <2>1 DEF BridgeInv, OneAccountPerOperation, Bridge!OneAccountPerOperation
  <2> HIDE DEF r
  <2> QED
    BY <1>1, <2>1, <2>2, <2>3, OneTalks DEF Talks
<1>3. CASE ~(req[w].tries + 1 < Retries)
  BY <1>3, StepFinishes DEF Bridge!Raised
<1> QED
  BY <1>2, <1>3

LEMMA BridgeInvConverses ==
  ASSUME BridgeInv, NEW w \in Bridge!Workers, Bridge!Converses(w)
  PROVE  BridgeInv'
<1>0. BridgeTypes /\ req[w] \in Request
  BY DEF BridgeInv, BridgeTypes, Bridge!TypeOK, Request
<1>1. CASE Bridge!Initialize(w)
  BY <1>0, <1>1, StepGoes, StepFinishes, StepRaises
     DEF Bridge!Initialize, Talks, BridgeTypes
<1>2. CASE Bridge!LoggedIn(w)
  BY <1>0, <1>2, StepGoes DEF Bridge!LoggedIn, Talks, BridgeTypes, Request
<1>3. CASE Bridge!LoginFails(w)
  BY <1>0, <1>3, StepFinishes, StepRaises DEF Bridge!LoginFails, Talks, BridgeTypes, Request
<1>4. CASE Bridge!AccountInfo(w)
  BY <1>0, <1>4, StepFinishes, StepRaises DEF Bridge!AccountInfo, Talks, BridgeTypes
<1>5. CASE Bridge!ListPositions(w)
  BY <1>0, <1>5, StepGoes, StepFinishes, StepRaises
     DEF Bridge!ListPositions, Talks, BridgeTypes
<1>6. CASE Bridge!ReadTick(w)
  BY <1>0, <1>6, StepGoes, StepFinishes, StepRaises DEF Bridge!ReadTick, Talks, BridgeTypes
<1>7. CASE Bridge!OrderSend(w)
  <2>1. req[w].op \in {"market", "pending", "close", "modify"}
    BY <1>7 DEF Bridge!OrderSend, BridgeInv
  <2>2. BridgeTypes'
    BY <1>0, <1>7, <2>1 DEF Bridge!OrderSend, Bridge!Executed, BridgeTypes, Request
  <2> QED
    BY <1>7, <2>2, StepFinishes, StepRaises DEF Bridge!OrderSend, Talks
<1> QED
  BY <1>1, <1>2, <1>3, <1>4, <1>5, <1>6, <1>7 DEF Bridge!Converses

LEMMA BridgeInvAcquire ==
  ASSUME BridgeInv, NEW w \in Bridge!Workers, Bridge!Acquire(w)
  PROVE  BridgeInv'
<1> DEFINE r == [req[w] EXCEPT !.pc = Bridge!FirstStep(req[w].op), !.from = login]
<1>1. /\ req[w] \in Request /\ BridgeTypes
      /\ req[w].op \in {"connect", "market", "pending", "close", "modify"}
  BY DEF Bridge!Acquire, BridgeInv, Bridge!TypeOK, BridgeTypes, Request, Bridge!LoopOps,
         Bridge!ThreadOps
<1>2. /\ Bridge!FirstStep(req[w].op) \in {"init", "tick", "send", "list"}
      /\ Bridge!FirstStep(req[w].op) # "init" => req[w].op # "connect"
  BY <1>1 DEF Bridge!FirstStep
<1>3. /\ r \in Request /\ r.pc = Bridge!FirstStep(req[w].op) /\ r.op = req[w].op
      /\ r.from = login
  BY <1>1, <1>2, ZenonT(40) DEF Request, BridgeTypes
<1>4. req' = [req EXCEPT ![w] = r] /\ holder = Bridge!Nobody /\ holder' = w /\ BridgeTypes'
  BY <1>1 DEF Bridge!Acquire, Bridge!MayEnter, BridgeInv, Bridge!TypeOK, BridgeTypes
<1>5. login' = login
  BY DEF Bridge!Acquire
<1> HIDE DEF r
<1> QED
  BY <1>1, <1>2, <1>3, <1>4, <1>5, OneTalks

LEMMA BridgeInvDisconnect ==
  ASSUME BridgeInv, NEW w \in Bridge!Workers, Bridge!DoDisconnect(w)
  PROVE  BridgeInv'
<1>1. Bridge!Idle \in Request /\ Bridge!Idle.pc = "idle"
  BY BridgeZeros DEF Bridge!Idle, Request
<1>2. /\ req' = [req EXCEPT ![w] = Bridge!Idle]
      /\ holder = Bridge!Nobody /\ holder' = holder
  BY DEF Bridge!DoDisconnect
<1>3. BridgeTypes'
  <2>1. BridgeTypes
    BY DEF BridgeInv, Bridge!TypeOK, BridgeTypes
  <2>2. login' \in {login, NoAccount} /\ book' = book
    BY DEF Bridge!DoDisconnect
  <2>3. client' = client \/ client' = [connected |-> FALSE, account |-> NoAccount]
    BY DEF Bridge!DoDisconnect
  <2>4. client' \in [connected : BOOLEAN, account : Accounts \cup {NoAccount}]
    <3>1. [connected |-> FALSE, account |-> NoAccount]
            \in [connected : BOOLEAN, account : Accounts \cup {NoAccount}]
      OBVIOUS
    <3> QED
      BY <2>1, <2>3, <3>1 DEF BridgeTypes
  <2> QED
    BY <2>1, <2>2, <2>4 DEF BridgeTypes
<1>4. holder \in {w, Bridge!Nobody} /\ holder' \in {w, Bridge!Nobody}
  BY <1>2
<1> QED
  BY <1>1, <1>2, <1>3, <1>4, OneTalks

LEMMA BridgeInvNext == BridgeInv /\ [Next]_vars => BridgeInv'
<1> SUFFICES ASSUME BridgeInv, [Next]_vars PROVE BridgeInv'
  OBVIOUS
<1>1. CASE Bridge!Next
  BY <1>1, BridgeInvArrivals, BridgeInvBroker, BridgeInvConverses, BridgeInvAcquire,
     BridgeInvDisconnect
     DEF Bridge!Next
<1>2. CASE UNCHANGED bridge
  BY <1>2 DEF bridge, BridgeInv, Bridge!TypeOK, Talks, OneAccountPerOperation,
              Bridge!OneAccountPerOperation
<1> QED
  BY <1>1, <1>2, StepOfEach

(* Who talks to the terminal holds the session's lock, retries and failed  *)
(* logins included, for any accounts and threads.                          *)
THEOREM BridgeInvariant == Spec => []BridgeInv
<1>1. Init => BridgeInv
  BY BridgeInvInit DEF Init
<1> QED
  BY <1>1, BridgeInvNext, PTL DEF Spec

(* No /connect takes the terminal to another account while an order, a     *)
(* close or a modify is talked over with it, for any number of accounts,   *)
(* threads and retries.                                                    *)
THEOREM SessionStaysWithItsAccount == Spec => []OneAccountPerOperation
<1>1. BridgeInv => OneAccountPerOperation
  BY DEF BridgeInv
<1> QED
  BY <1>1, BridgeInvariant, PTL

(* A close that is sent, once or again, closes its own ticket and leaves   *)
(* every other position and order as it was.                               *)
THEOREM CloseIsConfined == Spec => CloseHitsOnlyItsTicket
<1> DEFINE Confined(w) ==
      (req[w].op = "close" /\ req[w].pc = "send" /\ req'[w] # req[w]) =>
        \A t \in Bridge!Tickets \ {req[w].ticket} : book'[t] = book[t]
<1>1. ASSUME BridgeInv, [Next]_vars, NEW w \in Bridge!Workers PROVE Confined(w)
  <2> SUFFICES ASSUME req[w].op = "close", req[w].pc = "send", req'[w] # req[w]
               PROVE  \A t \in Bridge!Tickets \ {req[w].ticket} : book'[t] = book[t]
    OBVIOUS
  <2>0. req \in [Bridge!Workers -> Request] /\ BridgeTypes
    BY <1>1 DEF BridgeInv, Bridge!TypeOK, BridgeTypes, Request
  <2>1. ASSUME NEW v, NEW r, Bridge!Arrives(v, r)
        PROVE  FALSE
    <3>1. v # w /\ req' = [req EXCEPT ![v] = r]
      BY <2>1 DEF Bridge!Arrives
    <3> QED
      BY <2>0, <3>1
  <2>2. ~Bridge!Arrivals
    BY <2>1 DEF Bridge!Arrivals, Bridge!Connect, Bridge!Disconnect, Bridge!PlaceOrder,
                Bridge!ClosePosition, Bridge!ModifyPosition
  <2>3. ~Bridge!Broker
    BY DEF Bridge!Broker, Bridge!PendingFills, Bridge!BrokerCloses, Bridge!TerminalDrops
  <2>4. ASSUME NEW v \in Bridge!Workers, v # w,
               Bridge!Acquire(v) \/ Bridge!DoDisconnect(v) \/ Bridge!Converses(v)
        PROVE  FALSE
    BY <2>0, <2>4
       DEF Bridge!Acquire, Bridge!DoDisconnect, Bridge!Converses, Bridge!Initialize,
           Bridge!LoggedIn, Bridge!LoginFails, Bridge!AccountInfo, Bridge!ListPositions,
           Bridge!ReadTick, Bridge!OrderSend, Bridge!Goes, Bridge!Finish, Bridge!Raised
  <2>5. ~Bridge!Acquire(w) /\ ~Bridge!DoDisconnect(w)
    BY DEF Bridge!Acquire, Bridge!DoDisconnect
  <2>6. Bridge!Converses(w) => Bridge!OrderSend(w)
    BY DEF Bridge!Converses, Bridge!Initialize, Bridge!LoggedIn, Bridge!LoginFails,
           Bridge!AccountInfo, Bridge!ListPositions, Bridge!ReadTick
  <2>7. Bridge!OrderSend(w)
    <3>1. CASE Bridge!Next
      BY <2>2, <2>3, <2>4, <2>5, <2>6, <3>1 DEF Bridge!Next
    <3>2. CASE UNCHANGED bridge
      BY <3>2 DEF bridge
    <3> QED
      BY <1>1, <3>1, <3>2, StepOfEach
  <2>8. CASE UNCHANGED book
    BY <2>8
  <2>9. CASE book' \in Bridge!Executed(w)
    <3>1. book' = [book EXCEPT ![req[w].ticket].state = "closed"]
      <4> DEFINE closed == [book EXCEPT ![req[w].ticket].state = "closed"]
      <4> HIDE DEF closed
      <4>1. Bridge!Executed(w) = IF Bridge!Listed(req[w].ticket) THEN {closed} ELSE {}
        BY DEF Bridge!Executed, closed
      <4> QED
        BY <2>9, <4>1 DEF closed
    <3> QED
      BY <2>0, <3>1 DEF BridgeTypes
  <2> QED
    BY <2>7, <2>8, <2>9 DEF Bridge!OrderSend
<1>2. BridgeInv /\ [Next]_vars => [\A w \in Bridge!Workers : Confined(w)]_bridge
  BY <1>1
<1> QED
  BY <1>2, BridgeInvariant, PTL
     DEF Spec, CloseHitsOnlyItsTicket, Bridge!CloseHitsOnlyItsTicket, Bridge!vars, bridge

-----------------------------------------------------------------------------
(* BacktestJobs: the row and the file.                                     *)

LEMMA JobsConstants == Worker \notin JobThreads /\ MaxRuns \in Nat
BY TradingParameters DEF TradingParameters, Jobs!Parameters

(* A job at work has an id, and from the moment it has opened the file     *)
(* there is a curve, which no step takes away again.                       *)
JobsInv ==
  /\ Jobs!TypeOK
  /\ \A r \in Jobs!Runners : job[r].pc # "free" => job[r].id \in Ids
  /\ \A r \in Jobs!Runners :
       job[r].pc \in {"dump", "finish"} => curve[job[r].id] # "absent"
  /\ CompletedHasCurve

LEMMA JobsInvInit == Jobs!Init => JobsInv
BY JobsConstants
   DEF Jobs!Init, JobsInv, Jobs!TypeOK, Jobs!Free, Jobs!Status, Jobs!NoId, Jobs!Runners,
       CompletedHasCurve, Jobs!CompletedHasCurve

(* _update_backtest_row keeps the rows right as long as completed is only  *)
(* said of a backtest with a curve.                                        *)
LEMMA UpdateRowKeeps ==
  ASSUME JobsInv, NEW i \in Ids, NEW s \in Jobs!Status, Jobs!UpdateRow(i, s),
         UNCHANGED curve, s = "completed" => curve[i] # "absent"
  PROVE  /\ rows' \in [Ids -> Jobs!Status \cup {"absent"}]
         /\ CompletedHasCurve'
BY DEF JobsInv, Jobs!UpdateRow, Jobs!TypeOK, CompletedHasCurve, Jobs!CompletedHasCurve

LEMMA JobsInvNext == JobsInv /\ [Next]_vars => JobsInv'
<1> SUFFICES ASSUME JobsInv, [Next]_vars PROVE JobsInv'
  OBVIOUS
<1> USE JobsConstants
    DEF JobsInv, Jobs!TypeOK, Jobs!Status, Jobs!NoId, Jobs!Runners, CompletedHasCurve,
        Jobs!CompletedHasCurve
<1>1. ASSUME NEW i \in Ids, Jobs!Enqueue(i) \/ Jobs!EnqueueRQ(i) \/ Jobs!WorkerTakes(i)
      PROVE  JobsInv'
  BY <1>1 DEF Jobs!Enqueue, Jobs!EnqueueRQ, Jobs!WorkerTakes
<1>2. ASSUME NEW t \in JobThreads, NEW i \in Ids, Jobs!RunBacktest(t, i) PROVE JobsInv'
  BY <1>2 DEF Jobs!RunBacktest
<1>3. ASSUME NEW r \in Jobs!Runners, Jobs!JobStep(r) PROVE JobsInv'
  <2>1. CASE Jobs!Accept(r) \/ Jobs!ThreadStarts(r) \/ Jobs!Report(r)
    BY <2>1 DEF Jobs!Accept, Jobs!ThreadStarts, Jobs!Report, Jobs!Free
  <2>2. CASE Jobs!OpenArtifact(r) \/ Jobs!Dump(r) \/ Jobs!Raises(r)
    BY <2>2 DEF Jobs!OpenArtifact, Jobs!Dump, Jobs!Raises, Jobs!Goes
  <2>3. CASE Jobs!Mark(r)
    BY <2>3, UpdateRowKeeps DEF Jobs!Mark, Jobs!Goes
  <2>4. CASE Jobs!Complete(r) \/ Jobs!Fail(r)
    BY <2>4, UpdateRowKeeps DEF Jobs!Complete, Jobs!Fail, Jobs!Returns, Jobs!Free
  <2> QED
    BY <1>3, <2>1, <2>2, <2>3, <2>4 DEF Jobs!JobStep
<1>4. CASE Jobs!ServerCrash \/ Jobs!WorkerCrash
  BY <1>4 DEF Jobs!ServerCrash, Jobs!WorkerCrash, Jobs!Free
<1>5. CASE UNCHANGED jobs
  BY <1>5 DEF jobs
<1> QED
  BY <1>1, <1>2, <1>3, <1>4, <1>5, StepOfEach DEF Jobs!Next

(* However server, worker and threads crash, a job at work that has        *)
(* opened its file has a curve.                                            *)
THEOREM JobsInvariant == Spec => []JobsInv
<1>1. Init => JobsInv
  BY JobsInvInit DEF Init
<1> QED
  BY <1>1, JobsInvNext, PTL DEF Spec

(* However many jobs run on one backtest and whichever process crashes     *)
(* between two steps, a row that says completed has its curve.             *)
THEOREM CompletedRowsHaveCurves == Spec => []CompletedHasCurve
<1>1. JobsInv => CompletedHasCurve
  BY DEF JobsInv
<1> QED
  BY <1>1, JobsInvariant, PTL

-----------------------------------------------------------------------------
(* TVPreview: the age of what is shown.                                    *)

LEMMA PreviewConstants == PreviewTtl \in Nat /\ EngineTtl \in Nat
BY TradingParameters DEF TradingParameters, Preview!Parameters

(* The age of an entry and what is left of its life: the first grows as    *)
(* the second shrinks.                                                     *)
Lives(e) == e.age + e.left <= PreviewTtl + EngineTtl

(* Every entry was put in with the age the engine's cache allows and the   *)
(* whole of its own life before it.                                        *)
PreviewInv ==
  /\ Preview!TypeOK
  /\ \A r \in Requests : ask[r].pc # "idle" => ask[r].key \in PreviewKeys
  /\ \A r \in Requests : Lives(ask[r].got)
  /\ \A t \in Preview!Tiers, k \in PreviewKeys : Lives(tiers[t][k])
  /\ StalenessIsBounded

LEMMA NoEntryLives == Preview!NoEntry \in Preview!Entries /\ Lives(Preview!NoEntry)
BY PreviewConstants DEF Preview!NoEntry, Preview!Entries, Preview!MaxAge, Preview!Kinds, Lives

LEMMA OlderLives ==
  ASSUME NEW e \in Preview!Entries, Lives(e)
  PROVE  Preview!Older(e) \in Preview!Entries /\ Lives(Preview!Older(e))
<1> USE PreviewConstants DEF Lives
<1>1. CASE e.kind = "none" \/ e.left = 0
  BY <1>1, NoEntryLives DEF Preview!Older
<1>2. CASE ~(e.kind = "none" \/ e.left = 0)
  <2> DEFINE o == [e EXCEPT !.age = @ + 1, !.left = @ - 1]
  <2>1. e.age \in 0..Preview!MaxAge /\ e.left \in 0..PreviewTtl /\ e.left # 0
    BY <1>2 DEF Preview!Entries
  <2>2. e.age + 1 \in 0..Preview!MaxAge /\ e.left - 1 \in 0..PreviewTtl
    BY <2>1 DEF Preview!MaxAge
  <2>3. o \in Preview!Entries /\ o.age = e.age + 1 /\ o.left = e.left - 1
    BY <2>2 DEF Preview!Entries
  <2>4. o.age + o.left = e.age + e.left
    BY <2>1, <2>3 DEF Preview!MaxAge
  <2> QED
    BY <1>2, <2>3, <2>4 DEF Preview!Older
<1> QED
  BY <1>1, <1>2

(* What the engine answers may be stored.                                  *)
LEMMA NewLives ==
  ASSUME NEW kind \in {"real", "empty"}, NEW a \in 0..EngineTtl
  PROVE  LET e == [kind |-> kind, age |-> a, left |-> PreviewTtl]
         IN  e \in Preview!Entries /\ Lives(e)
BY PreviewConstants DEF Preview!Entries, Preview!MaxAge, Preview!Kinds, Lives

LEMMA PreviewInvInit == Preview!Init => PreviewInv
BY NoEntryLives, PreviewConstants
   DEF Preview!Init, PreviewInv, Preview!TypeOK, Preview!Quiet, Preview!Tiers,
       StalenessIsBounded, Preview!StalenessIsBounded, Preview!MaxAge, Preview!Kinds

(* A request's record.                                                     *)
Asking == [pc : {"idle", "get", "call", "set"}, key : PreviewKeys \cup {"none"},
           got : Preview!Entries]

LEMMA AskMoves ==
  ASSUME PreviewInv, NEW r \in Requests, NEW q \in Asking, ask' = [ask EXCEPT ![r] = q],
         q.pc # "idle" => q.key \in PreviewKeys, Lives(q.got)
  PROVE  /\ ask' \in [Requests -> Asking]
         /\ \A p \in Requests : ask'[p].pc # "idle" => ask'[p].key \in PreviewKeys
         /\ \A p \in Requests : Lives(ask'[p].got)
<1>1. ask \in [Requests -> Asking]
  BY DEF PreviewInv, Preview!TypeOK, Asking
<1>2. \A p \in Requests : ask'[p] = IF p = r THEN q ELSE ask[p]
  BY <1>1
<1> QED
  BY <1>1, <1>2 DEF PreviewInv

(* An answer is as old as what it is taken from.                           *)
LEMMA ServesFresh ==
  ASSUME PreviewInv, NEW r \in Requests, ask[r].pc # "idle",
         NEW kind \in Preview!Kinds \cup {"error"}, NEW a \in 0..(PreviewTtl + EngineTtl),
         Preview!Serves(r, kind, a), UNCHANGED <<tv, redisUp, engine>>,
         tiers' \in [Preview!Tiers -> [PreviewKeys -> Preview!Entries]],
         \A t \in Preview!Tiers, k \in PreviewKeys : Lives(tiers'[t][k])
  PROVE  PreviewInv'
<1>1. Preview!Quiet \in Asking /\ Preview!Quiet.pc = "idle" /\ Lives(Preview!Quiet.got)
  BY NoEntryLives DEF Asking, Preview!Quiet
<1>2. ask' = [ask EXCEPT ![r] = Preview!Quiet]
  BY DEF Preview!Serves
<1>3. /\ ask' \in [Requests -> Asking]
      /\ \A p \in Requests : ask'[p].pc # "idle" => ask'[p].key \in PreviewKeys
      /\ \A p \in Requests : Lives(ask'[p].got)
  BY <1>1, <1>2, AskMoves
<1>4. /\ served' \in [PreviewKeys -> [kind : Preview!Kinds \cup {"error"}, age : 0..Preview!MaxAge]]
      /\ StalenessIsBounded'
  <2>1. a \in 0..Preview!MaxAge /\ a <= PreviewTtl + EngineTtl
    BY PreviewConstants DEF Preview!MaxAge
  <2>2. served' = [served EXCEPT ![ask[r].key] = [kind |-> kind, age |-> a]]
    BY DEF Preview!Serves
  <2> QED
    BY <2>1, <2>2
       DEF PreviewInv, Preview!TypeOK, StalenessIsBounded, Preview!StalenessIsBounded
<1> QED
  BY <1>3, <1>4 DEF PreviewInv, Preview!TypeOK, Asking

(* What the engine says becomes the request's, if it is of its cache's age.*)
LEMMA GotLives ==
  ASSUME PreviewInv, NEW r \in Requests, ask[r].pc # "idle",
         NEW kind \in {"real", "empty"}, NEW a \in 0..EngineTtl,
         Preview!Got(r, kind, a), UNCHANGED <<tv, redisUp, tiers, served>>,
         engine' \in [PreviewKeys -> 0..(EngineTtl + 1)]
  PROVE  PreviewInv'
<1> DEFINE e == [kind |-> kind, age |-> a, left |-> PreviewTtl]
           q == [ask[r] EXCEPT !.pc = "set", !.got = e]
<1>1. e \in Preview!Entries /\ Lives(e)
  BY NewLives
<1>2. ask \in [Requests -> Asking] /\ ask[r] \in Asking /\ ask[r].key \in PreviewKeys
  BY DEF PreviewInv, Preview!TypeOK, Asking
<1>3. ask' = [ask EXCEPT ![r] = q]
  BY <1>2 DEF Preview!Got
<1> HIDE DEF e
<1>4. q \in Asking /\ q.key = ask[r].key /\ q.got = e
  BY <1>1, <1>2 DEF Asking
<1> HIDE DEF q
<1>5. /\ ask' \in [Requests -> Asking]
      /\ \A p \in Requests : ask'[p].pc # "idle" => ask'[p].key \in PreviewKeys
      /\ \A p \in Requests : Lives(ask'[p].got)
  BY <1>1, <1>2, <1>3, <1>4, AskMoves
<1> QED
  BY <1>5 DEF PreviewInv, Preview!TypeOK, Asking, StalenessIsBounded,
              Preview!StalenessIsBounded

LEMMA PreviewInvHandles ==
  ASSUME PreviewInv, NEW r \in Requests, Preview!Handles(r)
  PROVE  PreviewInv'
<1>0. /\ ask[r] \in Asking /\ ask[r].pc # "idle" /\ ask[r].key \in PreviewKeys
      /\ Preview!Tier \in Preview!Tiers
      /\ tiers \in [Preview!Tiers -> [PreviewKeys -> Preview!Entries]]
      /\ engine \in [PreviewKeys -> 0..(EngineTtl + 1)]
  BY DEF Preview!Handles, Preview!CacheHit, Preview!CacheMiss, Preview!PostFails,
         Preview!EngineHit, Preview!EngineFetch, Preview!EngineNotOk, Preview!CacheSet,
         PreviewInv, Preview!TypeOK, Preview!Tier, Preview!Tiers, Asking
<1>1. ASSUME NEW e \in Preview!Entries, Lives(e)
      PROVE  e.kind \in Preview!Kinds /\ e.age \in 0..(PreviewTtl + EngineTtl)
  BY <1>1, PreviewConstants DEF Preview!Entries, Lives
<1>2. CASE Preview!CacheHit(r)
  BY <1>0, <1>1, <1>2, ServesFresh DEF Preview!CacheHit, PreviewInv
<1>3. CASE Preview!CacheMiss(r)
  BY <1>0, <1>3 DEF Preview!CacheMiss, PreviewInv, Preview!TypeOK, StalenessIsBounded,
                    Preview!StalenessIsBounded
<1>4. CASE Preview!PostFails(r)
  <2>1. 0 \in 0..(PreviewTtl + EngineTtl)
    BY PreviewConstants
  <2>2. /\ Preview!Serves(r, "error", 0)
        /\ UNCHANGED <<tv, redisUp, tiers, engine>>
    BY <1>4 DEF Preview!PostFails
  <2>3. \A t \in Preview!Tiers, k \in PreviewKeys : Lives(tiers'[t][k])
    BY <2>2 DEF PreviewInv
  <2> QED
    BY <1>0, <2>1, <2>2, <2>3, ServesFresh
<1>5. CASE Preview!EngineHit(r)
  BY <1>0, <1>5, GotLives, PreviewConstants DEF Preview!EngineHit, Preview!EngineCached
<1>6. CASE Preview!EngineFetch(r)
  BY <1>0, <1>6, GotLives, PreviewConstants DEF Preview!EngineFetch
<1>7. CASE Preview!EngineNotOk(r)
  BY <1>0, <1>7, GotLives, PreviewConstants DEF Preview!EngineNotOk
<1>8. CASE Preview!CacheSet(r)
  <2>1. ask[r].got \in Preview!Entries /\ Lives(ask[r].got)
    BY <1>0 DEF Asking, PreviewInv
  <2>2. tiers' = [tiers EXCEPT ![Preview!Tier][ask[r].key] = ask[r].got]
    BY <1>8 DEF Preview!CacheSet, Preview!Stored
  <2>3. tiers' \in [Preview!Tiers -> [PreviewKeys -> Preview!Entries]]
    BY <1>0, <2>1, <2>2
  <2>4. \A t \in Preview!Tiers, k \in PreviewKeys : Lives(tiers'[t][k])
    BY <1>0, <2>1, <2>2 DEF PreviewInv
  <2> QED
    BY <1>0, <1>1, <1>8, <2>1, <2>3, <2>4, ServesFresh DEF Preview!CacheSet
<1> QED
  BY <1>2, <1>3, <1>4, <1>5, <1>6, <1>7, <1>8 DEF Preview!Handles

LEMMA PreviewInvNext == PreviewInv /\ [Next]_vars => PreviewInv'
<1> SUFFICES ASSUME PreviewInv, [Next]_vars PROVE PreviewInv'
  OBVIOUS
<1> USE PreviewConstants
    DEF PreviewInv, Preview!TypeOK, StalenessIsBounded, Preview!StalenessIsBounded
<1>1. ASSUME NEW r \in Requests, NEW k \in PreviewKeys, Preview!GetPreview(r, k)
      PROVE  PreviewInv'
  BY <1>1, NoEntryLives DEF Preview!GetPreview
<1>2. ASSUME NEW r \in Requests, Preview!Handles(r) PROVE PreviewInv'
  BY <1>2, PreviewInvHandles
<1>3. CASE Preview!TVChanges \/ Preview!RedisFlips
  BY <1>3 DEF Preview!TVChanges, Preview!RedisFlips
<1>4. CASE Preview!Tick
  BY <1>4, OlderLives DEF Preview!Tick, Preview!EngineCached
<1>5. CASE UNCHANGED preview
  BY <1>5 DEF preview
<1> QED
  BY <1>1, <1>2, <1>3, <1>4, <1>5, StepOfEach DEF Preview!Next

(* What any cache holds, and what a request has got from one, is as old    *)
(* as the lives it has used up.                                            *)
THEOREM PreviewInvariant == Spec => []PreviewInv
<1>1. Init => PreviewInv
  BY PreviewInvInit DEF Init
<1> QED
  BY <1>1, PreviewInvNext, PTL DEF Spec

(* However Redis comes and goes and requests cross, no preview is served   *)
(* that is older than the times to live of both caches together.           *)
THEOREM ServedIsFresh == Spec => []StalenessIsBounded
<1>1. PreviewInv => StalenessIsBounded
  BY DEF PreviewInv
<1> QED
  BY <1>1, PreviewInvariant, PTL

-----------------------------------------------------------------------------
(* TVClient: the throttle.                                                 *)

(* The component's notion of a finite set and of its size is the usual one.*)
LEMMA SameSize == \A S : /\ TV!IsFiniteSet(S) <=> IsFiniteSet(S)
                         /\ TV!Cardinality(S) = Cardinality(S)
BY DEF TV!IsFiniteSet, IsFiniteSet, TV!Cardinality, Cardinality

LEMMA CallConstants ==
  /\ IsFiniteSet(Callers) /\ TV!Nobody \notin Callers
  /\ Permits \in Nat /\ Spacing \in Nat /\ Ttl \in Nat /\ MaxRetries \in Nat
BY TradingParameters, SameSize DEF TradingParameters, TV!Parameters

LEMMA CallBounds == 0 \in 0..MaxRetries /\ 1 \in 0..MaxRetries /\ Ttl + 1 \in 0..(Ttl + 1) /\ 0 \in 0..(Ttl + 1)
BY TradingParameters DEF TradingParameters, TV!Parameters

(* A caller's record, and who holds a permit.                              *)
Call == [pc : {"idle", "sem", "lock", "sleep", "call", "backoff"},
         key : CallKeys \cup {TV!NoKey}, tries : 0..MaxRetries]
Holds(q) == q.pc \in {"lock", "sleep", "call"}
Holders == {c \in Callers : Holds(caller[c])}

(* Whoever sleeps has the lock, and what is left of its sleep reaches to   *)
(* where Spacing will have passed: nobody else can have called meanwhile.  *)
SleepsOut ==
  \A c \in Callers : caller[c].pc = "sleep" => spacer = c /\ wait[c] + since >= Spacing

(* The permits say how many callers are past the semaphore, and there are  *)
(* never more of them than there were at first.                            *)
CallsInv == TV!TypeOK /\ TV!PermitsAddUp /\ SleepsOut

LEMMA HoldersAddUp == TV!PermitsAddUp <=> free + Cardinality(Holders) = Permits
BY SameSize DEF TV!PermitsAddUp, Holders, Holds

LEMMA CallsInvInit == TV!Init => CallsInv
<1> SUFFICES ASSUME TV!Init PROVE CallsInv
  OBVIOUS
<1>1. Holders = {}
  BY DEF TV!Init, TV!Away, Holders, Holds
<1>2. TV!PermitsAddUp
  BY <1>1, FS_EmptySet, HoldersAddUp, CallConstants DEF TV!Init
<1>3. TV!TypeOK
  BY CallConstants, CallBounds DEF TV!Init, TV!TypeOK, TV!Away
<1>4. SleepsOut
  BY DEF TV!Init, TV!Away, SleepsOut
<1> QED
  BY <1>2, <1>3, <1>4 DEF CallsInv

(* A caller's step changes who holds a permit by that caller at most.      *)
LEMMA CallerMoves ==
  ASSUME CallsInv, NEW c \in Callers, NEW q \in Call, caller' = [caller EXCEPT ![c] = q]
  PROVE  /\ caller' \in [Callers -> Call]
         /\ Cardinality(Holders) \in Nat /\ Cardinality(Holders') \in Nat
         /\ Holds(q) /\ ~Holds(caller[c]) => Cardinality(Holders') = Cardinality(Holders) + 1
         /\ ~Holds(q) /\ Holds(caller[c]) => Cardinality(Holders') = Cardinality(Holders) - 1
         /\ (Holds(q) <=> Holds(caller[c])) => Holders' = Holders
<1>1. caller \in [Callers -> Call]
  BY DEF CallsInv, TV!TypeOK, Call
<1>2. caller' \in [Callers -> Call] /\ \A d \in Callers : caller'[d] = IF d = c THEN q ELSE caller[d]
  BY <1>1
<1>3. Holders' = {d \in Callers : Holds(caller'[d])}
  BY DEF Holders, Holds
<1>4. Holders' = IF Holds(q) THEN Holders \cup {c} ELSE Holders \ {c}
  BY <1>2, <1>3 DEF Holders
<1>5. IsFiniteSet(Holders) /\ IsFiniteSet(Holders')
  BY <1>3, CallConstants, FS_Subset DEF Holders
<1>6. c \in Holders <=> Holds(caller[c])
  BY DEF Holders
<1> QED
  BY <1>2, <1>4, <1>5, <1>6, FS_AddElement, FS_RemoveElement, FS_CardinalityType

(* Where a step leads the invariant, from the record it leaves its caller. *)
LEMMA CallKeepsInv ==
  ASSUME CallsInv, NEW c \in Callers, NEW q \in Call, caller' = [caller EXCEPT ![c] = q],
         \/ Holds(q) /\ ~Holds(caller[c]) /\ free > 0 /\ free' = free - 1
         \/ ~Holds(q) /\ Holds(caller[c]) /\ free' = free + 1
         \/ (Holds(q) <=> Holds(caller[c])) /\ free' = free,
         spacer' \in Callers \cup {TV!Nobody}, since' \in 0..Spacing,
         wait' \in [Callers -> 0..Spacing],
         age' \in [CallKeys -> 0..(Ttl + 1)],
         SleepsOut'
  PROVE  CallsInv'
<1>1. free \in 0..Permits /\ free + Cardinality(Holders) = Permits
  BY HoldersAddUp DEF CallsInv, TV!TypeOK
<1>2. /\ caller' \in [Callers -> Call]
      /\ Cardinality(Holders) \in Nat /\ Cardinality(Holders') \in Nat
      /\ Holds(q) /\ ~Holds(caller[c]) => Cardinality(Holders') = Cardinality(Holders) + 1
      /\ ~Holds(q) /\ Holds(caller[c]) => Cardinality(Holders') = Cardinality(Holders) - 1
      /\ (Holds(q) <=> Holds(caller[c])) => Holders' = Holders
  BY CallerMoves
<1>3. free' + Cardinality(Holders') = Permits /\ free' \in 0..Permits
  BY <1>1, <1>2, CallConstants
<1>4. TV!PermitsAddUp'
  BY <1>3, SameSize DEF TV!PermitsAddUp, Holders, Holds
<1> QED
  BY <1>2, <1>3, <1>4 DEF CallsInv, TV!TypeOK, Call

(* A step that touches neither lock nor clock wakes and puts to sleep      *)
(* nobody else.                                                            *)
LEMMA SleepersSleepOn ==
  ASSUME CallsInv, NEW c \in Callers, NEW q \in Call, caller' = [caller EXCEPT ![c] = q],
         q.pc # "sleep", UNCHANGED <<spacer, since, wait>>
  PROVE  SleepsOut'
<1>1. \A d \in Callers : caller'[d] = IF d = c THEN q ELSE caller[d]
  BY DEF CallsInv, TV!TypeOK
<1> QED
  BY <1>1 DEF CallsInv, SleepsOut

LEMMA CallsInvCaller ==
  ASSUME CallsInv, NEW c \in Callers,
         \/ \E k \in CallKeys : TV!GetAnalysis(c, k)
         \/ TV!TakePermit(c) \/ TV!Steps(c)
  PROVE  CallsInv'
<1>0. /\ caller \in [Callers -> Call] /\ caller[c] \in Call
      /\ free \in Nat /\ spacer \in Callers \cup {TV!Nobody} /\ since \in 0..Spacing
      /\ wait \in [Callers -> 0..Spacing]
      /\ age \in [CallKeys -> 0..(Ttl + 1)]
      /\ 0 \in 0..Spacing /\ 0 \in 0..(Ttl + 1)
  BY CallConstants DEF CallsInv, TV!TypeOK, Call
<1>1. ASSUME NEW p \in {"idle", "sem", "lock", "sleep", "call", "backoff"}, TV!Goes(c, p)
      PROVE  /\ [caller[c] EXCEPT !.pc = p] \in Call
             /\ [caller[c] EXCEPT !.pc = p].pc = p
             /\ caller' = [caller EXCEPT ![c] = [caller[c] EXCEPT !.pc = p]]
  BY <1>0, <1>1 DEF TV!Goes, Call
<1>2. TV!Away \in Call /\ ~Holds(TV!Away) /\ TV!Away.pc # "sleep"
  BY CallBounds DEF TV!Away, Call, Holds
<1>3. ASSUME NEW k \in CallKeys, TV!GetAnalysis(c, k) PROVE CallsInv'
  <2> DEFINE q == [pc |-> "sem", key |-> k, tries |-> 1]
  <2>1. q \in Call /\ ~Holds(q) /\ ~Holds(caller[c]) /\ q.pc # "sleep"
    BY <1>3, CallBounds DEF Call, Holds, TV!GetAnalysis
  <2>2. caller' = [caller EXCEPT ![c] = q] /\ UNCHANGED <<free, spacer, since, wait, age>>
    BY <1>3 DEF TV!GetAnalysis
  <2> HIDE DEF q
  <2>3. SleepsOut'
    BY <2>1, <2>2, SleepersSleepOn
  <2> QED
    BY <1>0, <2>1, <2>2, <2>3, CallKeepsInv
<1>4. CASE TV!TakePermit(c)
  <2> DEFINE q == [caller[c] EXCEPT !.pc = "lock"]
  <2>1. q \in Call /\ Holds(q) /\ q.pc # "sleep" /\ caller' = [caller EXCEPT ![c] = q]
    BY <1>1, <1>4 DEF TV!TakePermit, Holds
  <2>2. /\ ~Holds(caller[c]) /\ free > 0 /\ free' = free - 1
        /\ UNCHANGED <<spacer, since, wait, age>>
    BY <1>4 DEF TV!TakePermit, Holds
  <2> HIDE DEF q
  <2>3. SleepsOut'
    BY <2>1, <2>2, SleepersSleepOn
  <2> QED
    BY <1>0, <2>1, <2>2, <2>3, CallKeepsInv
<1>5. CASE TV!TakeLock(c)
  <2> DEFINE q == [caller[c] EXCEPT !.pc = "sleep"]
  <2>1. q \in Call /\ Holds(q) /\ caller' = [caller EXCEPT ![c] = q]
    BY <1>1, <1>5 DEF TV!TakeLock, Holds
  <2>2. /\ Holds(caller[c]) /\ free' = free /\ spacer = TV!Nobody /\ spacer' = c
        /\ wait' = [wait EXCEPT ![c] = Spacing - since] /\ UNCHANGED <<since, age>>
    BY <1>5 DEF TV!TakeLock, TV!Holds, Holds
  <2>3. wait' \in [Callers -> 0..Spacing] /\ wait'[c] + since = Spacing
    BY <1>0, <2>2, CallConstants
  <2> HIDE DEF q
  <2>4. SleepsOut'
    <3> SUFFICES ASSUME NEW d \in Callers, caller'[d].pc = "sleep"
                 PROVE  spacer' = d /\ wait'[d] + since' >= Spacing
      BY DEF SleepsOut
    <3>1. d = c
      BY <1>0, <2>1, <2>2, CallConstants DEF CallsInv, SleepsOut
    <3> QED
      BY <1>0, <2>2, <2>3, <3>1, CallConstants
  <2> QED
    BY <1>0, <2>1, <2>2, <2>3, <2>4, CallKeepsInv
<1>6. CASE TV!LeaveAcquire(c)
  <2> DEFINE q == [caller[c] EXCEPT !.pc = "call"]
  <2>1. q \in Call /\ Holds(q) /\ q.pc # "sleep" /\ caller' = [caller EXCEPT ![c] = q]
    BY <1>1, <1>6 DEF TV!LeaveAcquire, Holds
  <2>2. /\ Holds(caller[c]) /\ free' = free /\ spacer' = TV!Nobody /\ since' = 0
        /\ wait' = wait /\ age' = age /\ caller[c].pc = "sleep"
    BY <1>6 DEF TV!LeaveAcquire, Holds
  <2> HIDE DEF q
  <2>3. SleepsOut'
    BY <1>0, <2>1, <2>2 DEF CallsInv, SleepsOut
  <2> QED
    BY <1>0, <2>1, <2>2, <2>3, CallKeepsInv
<1>7. CASE TV!CallSucceeds(c)
  <2>1. /\ Holds(caller[c]) /\ free' = free + 1 /\ caller' = [caller EXCEPT ![c] = TV!Away]
        /\ age' = [age EXCEPT ![caller[c].key] = 0] /\ UNCHANGED <<spacer, since, wait>>
    BY <1>7 DEF TV!CallSucceeds, Holds
  <2>2. age' \in [CallKeys -> 0..(Ttl + 1)]
    BY <1>0, <2>1
  <2>3. SleepsOut'
    BY <1>2, <2>1, SleepersSleepOn
  <2> QED
    BY <1>0, <1>2, <2>1, <2>2, <2>3, CallKeepsInv
<1>8. CASE TV!CallRaises(c)
  <2> DEFINE q == [caller[c] EXCEPT !.pc = "backoff"]
  <2>1. q \in Call /\ ~Holds(q) /\ q.pc # "sleep" /\ caller' = [caller EXCEPT ![c] = q]
    BY <1>1, <1>8 DEF TV!CallRaises, Holds
  <2>2. Holds(caller[c]) /\ free' = free + 1 /\ UNCHANGED <<spacer, since, wait, age>>
    BY <1>8 DEF TV!CallRaises, TV!Release, Holds
  <2> HIDE DEF q
  <2>3. SleepsOut'
    BY <2>1, <2>2, SleepersSleepOn
  <2> QED
    BY <1>0, <2>1, <2>2, <2>3, CallKeepsInv
<1>9. CASE TV!BackoffEnds(c)
  <2>1. ~Holds(caller[c]) /\ UNCHANGED <<free, spacer, since, wait, age>>
    BY <1>9 DEF TV!BackoffEnds, Holds
  <2>2. PICK q \in Call : ~Holds(q) /\ q.pc # "sleep" /\ caller' = [caller EXCEPT ![c] = q]
    <3>1. CASE caller[c].tries < MaxRetries
      <4> DEFINE q == [caller[c] EXCEPT !.pc = "sem", !.tries = @ + 1]
      <4>1. caller[c].tries + 1 \in 0..MaxRetries
        BY <1>0, <3>1, CallConstants DEF Call
      <4>2. q \in Call /\ ~Holds(q) /\ q.pc # "sleep"
        BY <1>0, <4>1 DEF Call, Holds
      <4>3. caller' = [caller EXCEPT ![c] = q]
        BY <1>9, <3>1 DEF TV!BackoffEnds
      <4> QED
        BY <4>2, <4>3
    <3>2. CASE ~(caller[c].tries < MaxRetries)
      BY <1>2, <1>9, <3>2 DEF TV!BackoffEnds
    <3> QED
      BY <3>1, <3>2
  <2>3. SleepsOut'
    BY <2>1, <2>2, SleepersSleepOn
  <2> QED
    BY <1>0, <2>1, <2>2, <2>3, CallKeepsInv
<1> QED
  BY <1>3, <1>4, <1>5, <1>6, <1>7, <1>8, <1>9 DEF TV!Steps

LEMMA CallsInvNext == CallsInv /\ [Next]_vars => CallsInv'
<1> SUFFICES ASSUME CallsInv, [Next]_vars PROVE CallsInv'
  OBVIOUS
<1>1. ASSUME NEW c \in Callers,
             \/ \E k \in CallKeys : TV!GetAnalysis(c, k)
             \/ TV!TakePermit(c) \/ TV!Steps(c)
      PROVE  CallsInv'
  BY <1>1, CallsInvCaller
<1>2. CASE TV!Tick
  <2>1. /\ since' \in 0..Spacing /\ age' \in [CallKeys -> 0..(Ttl + 1)]
        /\ wait' \in [Callers -> 0..Spacing]
    BY <1>2, CallConstants DEF TV!Tick, CallsInv, TV!TypeOK
  <2>2. SleepsOut'
    <3>1. \A c \in Callers : wait[c] + since >= Spacing => wait'[c] + since' >= Spacing
      BY <1>2, CallConstants DEF TV!Tick, CallsInv, TV!TypeOK
    <3> QED
      BY <1>2, <3>1 DEF TV!Tick, CallsInv, SleepsOut
  <2> QED
    BY <1>2, <2>1, <2>2 DEF TV!Tick, CallsInv, TV!TypeOK, TV!PermitsAddUp
<1>3. CASE TV!ClearCache
  BY <1>3, CallBounds DEF TV!ClearCache, CallsInv, TV!TypeOK, TV!PermitsAddUp, SleepsOut
<1>4. CASE UNCHANGED calls
  BY <1>4 DEF calls, CallsInv, TV!TypeOK, TV!PermitsAddUp, SleepsOut
<1> QED
  BY <1>1, <1>2, <1>3, <1>4, StepOfEach DEF TV!Next

(* However callers cross, fail and retry, the permits of the throttle add  *)
(* up: none is lost, none is made, and no more than Permits calls are out. *)
THEOREM PermitsInvariant == Spec => []CallsInv
<1>1. Init => CallsInv
  BY CallsInvInit DEF Init
<1> QED
  BY <1>1, CallsInvNext, PTL DEF Spec

(* Only a caller that has slept its wait begins a call, and it had the     *)
(* lock from the moment the wait was computed.                             *)
LEMMA CallStartsSpaced ==
  ASSUME CallsInv, [Next]_vars, NEW c \in Callers, caller[c].pc # "call", caller'[c].pc = "call"
  PROVE  since = Spacing
<1>0. caller \in [Callers -> Call] /\ since \in 0..Spacing
  BY DEF CallsInv, TV!TypeOK, Call
<1>1. PICK d \in Callers : (\E k \in CallKeys : TV!GetAnalysis(d, k)) \/ TV!TakePermit(d) \/ TV!Steps(d)
  BY StepOfEach DEF TV!Next, TV!Tick, TV!ClearCache, calls
<1>2. CASE TV!LeaveAcquire(d)
  <2>1. d = c
    BY <1>0, <1>2 DEF TV!LeaveAcquire, TV!Goes, Call
  <2>2. wait[c] + since >= Spacing /\ wait[c] = 0
    BY <1>2, <2>1 DEF TV!LeaveAcquire, CallsInv, SleepsOut
  <2> QED
    BY <1>0, <2>2, CallConstants
<1>3. CASE \E k \in CallKeys : TV!GetAnalysis(d, k)
  BY <1>0, <1>3 DEF TV!GetAnalysis
<1>4. CASE TV!TakePermit(d) \/ TV!TakeLock(d) \/ TV!CallRaises(d)
  BY <1>0, <1>4 DEF TV!TakePermit, TV!TakeLock, TV!CallRaises, TV!Goes, Call
<1>5. CASE TV!CallSucceeds(d) \/ TV!BackoffEnds(d)
  BY <1>0, <1>5 DEF TV!CallSucceeds, TV!BackoffEnds, TV!Away, Call
<1> QED
  BY <1>1, <1>2, <1>3, <1>4, <1>5 DEF TV!Steps

(* Two calls to TradingView start at least Spacing apart, for any number   *)
(* of callers and of retries, although each sleeps a wait it computed      *)
(* once: the lock keeps every other caller from calling meanwhile.         *)
THEOREM CallsKeepTheirDistance == Spec => CallsAreSpaced
<1>1. CallsInv /\ [Next]_vars =>
        [\A c \in Callers :
           (caller[c].pc # "call" /\ caller'[c].pc = "call") => since = Spacing]_calls
  BY CallStartsSpaced
<1> QED
  BY <1>1, PermitsInvariant, PTL DEF Spec, CallsAreSpaced, TV!CallsAreSpaced, TV!vars, calls

-----------------------------------------------------------------------------
(* RiskGate: the sizes that are sent.                                      *)

LEMMA RiskConstants ==
  /\ Equities \subseteq Int /\ DefaultEquity \in Int
  /\ StopDistances \subseteq Nat /\ RiskPcts \subseteq Nat
  /\ MaxRiskPct \in Nat /\ MinLot \in Nat /\ MaxRealized \in Nat
BY TradingParameters DEF TradingParameters, Risk!Parameters

(* What an oms reports is what the broker holds: without it the counter of *)
(* a symbol could be taken below nothing.                                  *)
RiskInv ==
  /\ Risk!TypeOK
  /\ reporter = "oms" => counted = held
  /\ OrderRiskIsCapped

(* Rounding down never risks more than the amount it starts from, and only *)
(* the smallest lot is more than the amount allows.                        *)
LEMMA RoundedDown ==
  ASSUME NEW amount \in Int, NEW perLot \in Nat \ {0}
  PROVE  LET lot == Risk!RoundToStep(amount, perLot)
         IN  lot \in Nat /\ (lot > MinLot => lot * perLot <= amount)
<1>1. amount \div perLot \in Int /\ (amount \div perLot) * perLot <= amount
  OBVIOUS
<1> QED
  BY <1>1, RiskConstants DEF Risk!RoundToStep

LEMMA SizeIsNat ==
  ASSUME RiskInv, NEW pct \in RiskPcts, NEW stop \in StopDistances
  PROVE  Risk!Size(pct, stop) \in Nat
<1>0. equity \in Int /\ pct \in Nat /\ stop \in Nat /\ MinLot \in Nat
  BY RiskConstants DEF RiskInv, Risk!TypeOK
<1>1. CASE equity <= 0 \/ pct = 0 \/ stop = 0
  BY <1>0, <1>1 DEF Risk!Size
<1>2. CASE ~(equity <= 0 \/ pct = 0 \/ stop = 0)
  <2>1. equity * pct \in Int /\ 100 * stop \in Nat \ {0}
    BY <1>0, <1>2
  <2> QED
    BY <1>2, <2>1, RoundedDown DEF Risk!Size
<1> QED
  BY <1>1, <1>2

(* What evaluate lets through, as it is or trimmed, is within the cap.     *)
LEMMA ApprovedIsCapped ==
  ASSUME RiskInv, NEW s \in Symbols, NEW size \in Nat, NEW stop \in StopDistances,
         NEW lot \in Risk!ApprovedLots(s, size, stop)
  PROVE  lot \in Nat /\ (lot > MinLot => lot * stop * 100 <= equity * MaxRiskPct)
<1>0. /\ equity \in Int /\ stop \in Nat /\ MaxRiskPct \in Nat
      /\ equity * MaxRiskPct \in Int /\ size * stop * 100 \in Int
  BY RiskConstants DEF RiskInv, Risk!TypeOK
<1>1. CASE Risk!OverTradeCap(size, stop)
  <2>1. stop # 0 /\ lot = Risk!RoundToStep(equity * MaxRiskPct, 100 * stop)
    BY <1>1 DEF Risk!ApprovedLots
  <2>2. 100 * stop \in Nat \ {0}
    BY <1>0, <2>1
  <2>3. lot \in Nat /\ (lot > MinLot => lot * (100 * stop) <= equity * MaxRiskPct)
    BY <1>0, <2>1, <2>2, RoundedDown
  <2> QED
    BY <1>0, <2>3
<1>2. CASE ~Risk!OverTradeCap(size, stop)
  <2>1. lot = size
    BY <1>2 DEF Risk!ApprovedLots
  <2> QED
    BY <1>0, <1>2, <2>1 DEF Risk!OverTradeCap
<1> QED
  BY <1>1, <1>2

LEMMA RiskInvInit == Risk!Init => RiskInv
<1> SUFFICES ASSUME Risk!Init PROVE RiskInv
  OBVIOUS
<1>1. Risk!TypeOK
  <2>1. equity \in Int /\ peak \in Int
    BY RiskConstants DEF Risk!Init, Risk!Larger
  <2>2. disabled = FALSE /\ reporter \in {"engine", "oms"} /\ realized = 0
    BY DEF Risk!Init
  <2>3. counted \in [Symbols -> Nat] /\ held \in [Symbols -> Nat]
    BY DEF Risk!Init
  <2>4. order \in [lot : Nat, stop : Nat, equity : Int]
    BY DEF Risk!Init, Risk!NoOrder
  <2>5. disabled \in BOOLEAN
    BY <2>2
  <2> QED
    BY <2>1, <2>2, <2>3, <2>4, <2>5 DEF Risk!TypeOK
<1>2. order.lot = 0 /\ counted = held
  BY DEF Risk!Init, Risk!NoOrder
<1> QED
  BY <1>1, <1>2, RiskConstants DEF RiskInv, OrderRiskIsCapped, Risk!OrderRiskIsCapped

LEMMA PlaceOrderIsCapped ==
  ASSUME RiskInv, NEW s \in Symbols, NEW pct \in RiskPcts, NEW stop \in StopDistances,
         Risk!PlaceOrder(s, pct, stop)
  PROVE  RiskInv'
<1>0. /\ reporter \in {"engine", "oms"} /\ equity \in Int
      /\ counted \in [Symbols -> Nat] /\ held \in [Symbols -> Nat]
  BY DEF RiskInv, Risk!TypeOK
<1>1. PICK lot \in Risk!ApprovedLots(s, Risk!Size(pct, stop), stop) :
        order' = [lot |-> lot, stop |-> stop, equity |-> equity]
  BY DEF Risk!PlaceOrder
<1>2. lot \in Nat /\ (lot > MinLot => lot * stop * 100 <= equity * MaxRiskPct)
  BY SizeIsNat, ApprovedIsCapped
<1>3. \/ held' = held /\ counted' = counted
      \/ /\ held' = [held EXCEPT ![s] = @ + 1]
         /\ counted' = IF reporter = "oms" THEN [counted EXCEPT ![s] = @ + 1] ELSE counted
  BY DEF Risk!PlaceOrder
<1>4. /\ held' \in [Symbols -> Nat] /\ counted' \in [Symbols -> Nat]
      /\ reporter = "oms" => counted' = held'
  BY <1>0, <1>3 DEF RiskInv
<1>5. order' \in [lot : Nat, stop : Nat, equity : Int] /\ OrderRiskIsCapped'
  BY <1>0, <1>1, <1>2, RiskConstants DEF OrderRiskIsCapped, Risk!OrderRiskIsCapped
<1>6. UNCHANGED <<reporter, equity, peak, realized, disabled>>
  BY DEF Risk!PlaceOrder
<1> QED
  BY <1>4, <1>5, <1>6 DEF RiskInv, Risk!TypeOK

LEMMA RiskInvNext == RiskInv /\ [Next]_vars => RiskInv'
<1> SUFFICES ASSUME RiskInv, [Next]_vars PROVE RiskInv'
  OBVIOUS
<1> USE DEF RiskInv, Risk!TypeOK, OrderRiskIsCapped, Risk!OrderRiskIsCapped
<1>1. ASSUME NEW s \in Symbols, NEW pct \in RiskPcts, NEW stop \in StopDistances,
             Risk!PlaceOrder(s, pct, stop)
      PROVE  RiskInv'
  BY <1>1, PlaceOrderIsCapped
<1>2. ASSUME NEW e \in Equities, Risk!OnEquityUpdate(e) PROVE RiskInv'
  BY <1>2, RiskConstants DEF Risk!OnEquityUpdate, Risk!Breaker, Risk!Larger
<1>3. ASSUME NEW s \in Symbols, NEW pnl \in Profits, Risk!PositionCloses(s, pnl)
      PROVE  RiskInv'
  <2>1. realized' \in Int
    BY <1>3, RiskConstants DEF Risk!PositionCloses
  <2>2. held[s] > 0 /\ held' = [held EXCEPT ![s] = @ - 1]
    BY <1>3 DEF Risk!PositionCloses
  <2>3. \/ reporter = "oms" /\ counted' = [counted EXCEPT ![s] = @ - 1]
        \/ reporter = "engine" /\ counted' = counted
    BY <1>3 DEF Risk!PositionCloses
  <2>4. UNCHANGED <<reporter, equity, peak, disabled, order>>
    BY <1>3 DEF Risk!PositionCloses
  <2>5. /\ held' \in [Symbols -> Nat] /\ counted' \in [Symbols -> Nat]
        /\ reporter' = "oms" => counted' = held'
    BY <2>2, <2>3, <2>4
  <2> QED
    BY <2>1, <2>4, <2>5
<1>4. CASE Risk!DayRolls
  BY <1>4 DEF Risk!DayRolls
<1>5. CASE UNCHANGED risk
  BY <1>5 DEF risk
<1> QED
  BY <1>1, <1>2, <1>3, <1>4, <1>5, StepOfEach DEF Risk!Next

(* An oms that reports all it does has counted what the broker holds; an   *)
(* order is capped as it was decided.                                      *)
THEOREM RiskInvariant == Spec => []RiskInv
<1>1. Init => RiskInv
  BY RiskInvInit DEF Init
<1> QED
  BY <1>1, RiskInvNext, PTL DEF Spec

(* Through sizing, rounding, trimming and rounding again no order risks    *)
(* more than the cap of the equity it was decided on, whatever the limits, *)
(* the account and the distances are: only the smallest lot can.           *)
THEOREM SentOrdersAreCapped == Spec => []OrderRiskIsCapped
<1>1. RiskInv => OrderRiskIsCapped
  BY DEF RiskInv
<1> QED
  BY <1>1, RiskInvariant, PTL

(* After the breaker no order is sent and no position is added.            *)
LEMMA DisabledSendsNothing ==
  ASSUME RiskInv, [Next]_vars, disabled
  PROVE  disabled' /\ order' = order /\ \A s \in Symbols : held'[s] <= held[s]
<1>0. held \in [Symbols -> Nat]
  BY DEF RiskInv, Risk!TypeOK
<1>1. ASSUME NEW s \in Symbols, NEW pct \in RiskPcts, NEW stop \in StopDistances,
             Risk!PlaceOrder(s, pct, stop)
      PROVE  FALSE
  <2>1. Risk!ApprovedLots(s, Risk!Size(pct, stop), stop) = {}
    BY DEF Risk!ApprovedLots
  <2> QED
    BY <1>1, <2>1 DEF Risk!PlaceOrder
<1>2. ASSUME NEW e \in Equities, Risk!OnEquityUpdate(e)
      PROVE  disabled' /\ order' = order /\ held' = held
  BY <1>2 DEF Risk!OnEquityUpdate, Risk!Breaker
<1>3. ASSUME NEW s \in Symbols, NEW pnl \in Profits, Risk!PositionCloses(s, pnl)
      PROVE  disabled' /\ order' = order /\ \A t \in Symbols : held'[t] <= held[t]
  BY <1>0, <1>3 DEF Risk!PositionCloses
<1>4. CASE Risk!DayRolls \/ UNCHANGED risk
  <2>1. disabled' = disabled /\ order' = order /\ held' = held
    BY <1>4 DEF Risk!DayRolls, risk
  <2>2. \A s \in Symbols : held[s] <= held[s]
    BY <1>0
  <2> QED
    BY <2>1, <2>2
<1> QED
  BY <1>0, <1>1, <1>2, <1>3, <1>4, StepOfEach DEF Risk!Next

(* A drawdown at the limit is the end of trading for good.                 *)
THEOREM DisabledStaysDisabled == Spec => DisabledIsFinal
<1>1. RiskInv /\ [Next]_vars =>
        [disabled => /\ disabled' /\ order' = order
                     /\ \A s \in Symbols : held'[s] <= held[s]]_risk
  BY DisabledSendsNothing
<1> QED
  BY <1>1, RiskInvariant, PTL DEF Spec, DisabledIsFinal, Risk!DisabledIsFinal, Risk!vars, risk
=============================================================================
