-------------------------- MODULE SupervisorProofs --------------------------
(***************************************************************************)
(* Proofs about Supervisor, for any set of client order ids and any bounds *)
(* on messages and repetitions.                                            *)
(*                                                                         *)
(* SentOnceARun is not inductive: that an id is not sent again rests on    *)
(* the cache, which is written after the call.  CallInv accounts for every *)
(* call in between: its id is in the cache, or the one the command loop    *)
(* works on, or the loop has raised and the process is about to end.       *)
(***************************************************************************)
EXTENDS Supervisor, TLAPS

(* Tasks live only in a connected process, and the heartbeat returns only  *)
(* on the stop event: a process that dials has sent no order yet.          *)
TaskInv ==
  /\ proc # "up" => hb = "off" /\ cmd = "off"
  /\ hb = "returned" => stop
  /\ cmd \in {"order", "answered"} => cur \in Ids
  /\ cmd = "order" => atTerminal[cur] > 0

(* Where the calls of this run are recorded.                               *)
CallInv ==
  \A i \in Ids :
    /\ calls[i] <= 1
    /\ proc \in {"starting", "dialing", "backoff"} => calls[i] = 0
    /\ proc = "up" /\ calls[i] = 1 =>
         \/ cache[i] # "none"
         \/ cmd \in {"order", "answered"} /\ cur = i
         \/ cmd = "raised"
    /\ cmd \in {"order", "answered"} /\ cur = i => cache[i] = "none"

(* What the cache and the pending response say of the replies.             *)
ReplyInv ==
  \A i \in Ids :
    /\ told[i] \subseteq {cache[i]}
    /\ cmd = "reply" /\ cur = i => answer = cache[i]
    /\ cache[i] = "ok" => deals[i] > 0
    /\ cmd = "answered" /\ cur = i /\ answer = "ok" => deals[i] > 0

IInv == TypeOK /\ TaskInv /\ CallInv /\ ReplyInv

-----------------------------------------------------------------------------
LEMMA InitIInv == Init => IInv
<1> SUFFICES ASSUME Init
             PROVE  IInv
  OBVIOUS
<1>1. Query \in Messages /\ << >> \in Seq(Messages)
  BY DEF Messages
<1>2. TypeOK
  BY <1>1 DEF Init, TypeOK
<1>3. TaskInv /\ CallInv /\ ReplyInv
  BY DEF Init, TaskInv, CallInv, ReplyInv
<1> QED
  BY <1>2, <1>3 DEF IInv

(* Tail and Append keep a queue of messages one.                           *)
LEMMA QueueOps ==
  ASSUME NEW m \in Messages, inbox \in Seq(Messages)
  PROVE  /\ Append(inbox, m) \in Seq(Messages)
         /\ inbox # << >> => Tail(inbox) \in Seq(Messages)
         /\ << >> \in Seq(Messages)
  OBVIOUS

(* The steps of the process: each drops the session or keeps it, and only  *)
(* Start forgets the cache, together with the calls it stands for.         *)
LEMMA RunSteps ==
  ASSUME IInv, Start \/ RunStep \/ Crash \/ Signal
  PROVE  IInv'
<1> USE DEF IInv, TypeOK, TaskInv, CallInv, ReplyInv, session, memory, broker
<1> Query \in Messages /\ << >> \in Seq(Messages)
  BY DEF Messages
<1>1. CASE Start
  <2>1. TypeOK'
    BY <1>1 DEF Start, NoMemory
  <2>2. TaskInv' /\ CallInv' /\ ReplyInv'
    BY <1>1 DEF Start, NoMemory
  <2> QED
    BY <2>1, <2>2
<1>2. CASE InitTerminal
  BY <1>2 DEF InitTerminal, LoopHead
<1>3. CASE Connects
  BY <1>3 DEF Connects
<1>4. CASE DialFails
  BY <1>4 DEF DialFails
<1>5. CASE BackoffEnds
  BY <1>5 DEF BackoffEnds, LoopHead
<1>6. CASE GroupFails
  BY <1>6 DEF GroupFails, NoSession, AfterGroup
<1>7. CASE GroupReturns
  BY <1>7 DEF GroupReturns, NoSession, LoopHead
<1>8. CASE Exits
  BY <1>8 DEF Exits
<1>9. CASE Crash
  BY <1>9 DEF Crash, NoSession
<1>10. CASE Signal
  BY <1>10 DEF Signal
<1> QED
  BY <1>1, <1>2, <1>3, <1>4, <1>5, <1>6, <1>7, <1>8, <1>9, <1>10 DEF RunStep

(* The network and the heartbeat touch neither orders nor the cache.       *)
LEMMA OtherSteps ==
  ASSUME IInv, (\E m \in Messages : Deliver(m)) \/ LinkEnds \/ HeartbeatStep
  PROVE  IInv'
<1> USE DEF IInv, TypeOK, TaskInv, CallInv, ReplyInv, memory, broker
<1>1. CASE \E m \in Messages : Deliver(m)
  BY <1>1, QueueOps DEF Deliver
<1>2. CASE LinkEnds
  BY <1>2 DEF LinkEnds
<1>3. CASE Probed
  BY <1>3 DEF Probed
<1>4. CASE Heartbeat
  BY <1>4 DEF Heartbeat, SentHeartbeat
<1>5. CASE HeartbeatWakes
  BY <1>5 DEF HeartbeatWakes
<1> QED
  BY <1>1, <1>2, <1>3, <1>4, <1>5 DEF HeartbeatStep

(* The command loop.  An order is sent only for an id that is not in the   *)
(* cache while the loop works on no other: by CallInv it has no call yet.  *)
LEMMA CommandSteps ==
  ASSUME IInv, CommandStep
  PROVE  IInv'
<1> USE DEF IInv, TypeOK, TaskInv, CallInv, ReplyInv, broker
<1>0. Ids \subseteq Messages /\ Query \in Messages
  BY DEF Messages
<1>1. CASE TakeQuery
  BY <1>0, <1>1, QueueOps, QueryAssumption DEF TakeQuery, Reads, memory
<1>2. CASE Reply
  <2>1. \A i \in Ids : cur = i => answer \in Results
    BY <1>2, QueryAssumption DEF Reply
  <2>2. told' \in [Ids -> SUBSET Results]
    BY <1>2, <2>1 DEF Reply
  <2>3. TypeOK' /\ TaskInv' /\ CallInv'
    BY <1>0, <1>2, <2>2 DEF Reply
  <2>4. ReplyInv'
    BY <1>2 DEF Reply
  <2> QED
    BY <2>3, <2>4
<1>3. CASE ReadEnds
  BY <1>3 DEF ReadEnds, memory
<1>4. ASSUME NEW i \in Ids, Replay(i)
      PROVE  IInv'
  BY <1>0, <1>4, QueueOps, QueryAssumption DEF Replay, Reads, memory
<1>5. ASSUME NEW i \in Ids, SendOrder(i)
      PROVE  IInv'
  <2>1. calls[i] = 0
    BY <1>5 DEF SendOrder, Reads
  <2> QED
    BY <1>0, <1>5, <2>1, QueueOps, QueryAssumption DEF SendOrder, Reads
<1>6. ASSUME NEW i \in Ids, SendRaises(i)
      PROVE  IInv'
  <2>1. calls[i] = 0
    BY <1>6 DEF SendRaises, Reads
  <2> QED
    BY <1>0, <1>6, <2>1, QueueOps, QueryAssumption DEF SendRaises, Reads
<1>7. ASSUME NEW i \in Ids, Record(i)
      PROVE  IInv'
  <2>1. told[i] = {}
    BY <1>7, ZenonT(40) DEF Record, Results
  <2> QED
    BY <1>7, <2>1, QueryAssumption DEF Record, Remember, Results
<1> QED
  BY <1>1, <1>2, <1>3, <1>4, <1>5, <1>6, <1>7 DEF CommandStep

(* An outcome that is reported as "ok" is a deal.                          *)
LEMMA OkOutcome ==
  ASSUME NEW o \in Outcomes
  PROVE  /\ o[1] \in BOOLEAN /\ o[2] \in Results
         /\ o[2] = "ok" => o[1]
<1>1. CASE o = <<TRUE, "ok">>
  BY <1>1 DEF Results
<1>2. CASE o = <<TRUE, "rejected">>
  BY <1>2 DEF Results
<1>3. CASE o = <<FALSE, "rejected">>
  BY <1>3 DEF Results
<1> QED
  BY <1>1, <1>2, <1>3 DEF Outcomes

(* The terminal: an "ok" comes with a deal, and deals are never taken back.*)
LEMMA TerminalSteps ==
  ASSUME IInv, Answers \/ Orphans
  PROVE  IInv'
<1> USE DEF IInv, TypeOK, TaskInv, CallInv, ReplyInv
<1>1. ASSUME NEW i \in Ids, NEW o \in Outcomes, TerminalAnswers(i, o)
      PROVE  IInv'
  <2>1. cmd = "order" /\ cur = i /\ cur # Query
    BY <1>1, QueryAssumption DEF TerminalAnswers, Awaited
  <2> QED
    BY <1>1, <2>1, OkOutcome DEF TerminalAnswers, memory, Results
<1>2. ASSUME NEW i \in Ids, NEW o \in Outcomes, OrphanEnds(i, o)
      PROVE  IInv'
  <2>1. atTerminal[i] > 0 /\ (cmd = "order" /\ cur = i => atTerminal[i] > 1)
    BY <1>2 DEF OrphanEnds, Awaited
  <2> QED
    BY <1>2, <2>1 DEF OrphanEnds, session, memory
<1> QED
  BY <1>1, <1>2 DEF Answers, Orphans

(* Every step keeps the invariant.                                         *)
LEMMA StepIInv == IInv /\ [Next]_vars => IInv'
<1> SUFFICES ASSUME IInv, [Next]_vars
             PROVE  IInv'
  OBVIOUS
<1>1. CASE Next
  BY <1>1, RunSteps, OtherSteps, CommandSteps, TerminalSteps DEF Next
<1>2. CASE UNCHANGED vars
  BY <1>2 DEF vars, session, memory, broker, IInv, TypeOK, TaskInv, CallInv, ReplyInv
<1> QED
  BY <1>1, <1>2

(* The invariant holds in every behaviour.                                 *)
THEOREM SupervisorInvariant == Spec => []IInv
  BY InitIInv, StepIInv, PTL DEF Spec

(* The types are right, and _command_loop holds a response exactly from    *)
(* the answer or the cache to the reply.                                   *)
THEOREM TypesAreRight == Spec => []TypeOK
<1>1. IInv => TypeOK
  BY DEF IInv
<1> QED
  BY <1>1, SupervisorInvariant, PTL

(* However often an intent is repeated, one run of the process hands it    *)
(* to mt5_send_order at most once.                                         *)
THEOREM OneCallARun == Spec => []SentOnceARun
<1>1. IInv => SentOnceARun
  BY DEF IInv, CallInv, SentOnceARun
<1> QED
  BY <1>1, SupervisorInvariant, PTL

(* Every reply of a run for an id carries the result it remembers.         *)
THEOREM ReplaysAgree == Spec => []RepliesAgree
<1>1. IInv => RepliesAgree
  BY DEF IInv, ReplyInv, RepliesAgree
<1> QED
  BY <1>1, SupervisorInvariant, PTL

(* The backend is told of success only when the order was executed.        *)
THEOREM SuccessIsReal == Spec => []OkIsExecuted
<1>1. IInv => OkIsExecuted
  BY DEF IInv, ReplyInv, OkIsExecuted
<1> QED
  BY <1>1, SupervisorInvariant, PTL
=============================================================================
