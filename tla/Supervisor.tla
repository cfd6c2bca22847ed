----------------------------- MODULE Supervisor -----------------------------
(***************************************************************************)
(* The MT5 supervisor (infra/scripts/mt5-supervisor.py): one asyncio       *)
(* process beside the terminal.  Over one connection it sends heartbeats   *)
(* and works on order intents, one at a time, each with a client order id  *)
(* whose response it remembers so that a repeated intent is answered and   *)
(* not sent to the broker again.                                           *)
(*                                                                         *)
(* The backend repeats an intent whenever it likes.  The connection closes *)
(* or breaks, the process crashes, and the service manager starts it       *)
(* again.  An order handed to the terminal does not depend on the process  *)
(* that handed it over.                                                    *)
(***************************************************************************)
EXTENDS Naturals, Sequences

CONSTANTS
  Ids,       \* the client order ids
  Query,     \* a message that asks for a ping or a positions snapshot
  MaxInbox,  \* bound: unread messages of a connection
  MaxFires   \* bound: an intent is repeated only while it fired less often

ASSUME QueryAssumption  == Query \notin Ids
ASSUME BoundsAssumption == MaxInbox \in Nat /\ MaxFires \in Nat

VARIABLES
  proc,        \* how far the process is: what run() is doing
  stop,        \* stop_event
  hb,          \* the task _heartbeat_loop
  cmd,         \* the task _command_loop
  cur,         \* the message _command_loop works on
  answer,      \* its local variable response
  link,        \* the connection
  inbox,       \* messages received on it and not yet read
  cache,       \* order_cache
  calls,       \* how often this run has called mt5_send_order for an id
  told,        \* the results this run has sent to the backend for an id
  atTerminal,  \* orders of an id the terminal is working on
  deals        \* orders of an id the broker has executed

session == <<hb, cmd, cur, answer, link, inbox>>
memory  == <<cache, calls, told>>
broker  == <<atTerminal, deals>>
vars    == <<proc, stop, session, memory, broker>>

Results  == {"ok", "rejected"}
Messages == Ids \cup {Query}

(* The types, and the response: _command_loop holds one from the           *)
(* terminal's answer or the cache until the reply (307-324).               *)
TypeOK ==
  /\ proc \in {"down", "starting", "dialing", "backoff", "up", "exiting"}
  /\ stop \in BOOLEAN
  /\ hb \in {"off", "probe", "send", "sleep", "returned", "raised"}
  /\ cmd \in {"off", "read", "order", "answered", "reply", "returned", "raised"}
  /\ cur \in Messages
  /\ answer \in Results \cup {"none"}
  /\ link \in {"open", "closed", "broken"}
  /\ inbox \in Seq(Messages)
  /\ cache \in [Ids -> Results \cup {"none"}]
  /\ calls \in [Ids -> Nat]
  /\ told \in [Ids -> SUBSET Results]
  /\ atTerminal \in [Ids -> Nat]
  /\ deals \in [Ids -> Nat]
  /\ answer # "none" <=> cmd \in {"answered", "reply"} /\ cur # Query

-----------------------------------------------------------------------------
(* The process.                                                            *)

(* What a connection that is not there leaves of the session.              *)
NoSession ==
  /\ hb' = "off" /\ cmd' = "off"
  /\ cur' = Query /\ answer' = "none"
  /\ link' = "closed" /\ inbox' = << >>

NoMemory ==
  /\ cache' = [i \in Ids |-> "none"]
  /\ calls' = [i \in Ids |-> 0]
  /\ told' = [i \in Ids |-> {}]

Init ==
  /\ proc = "down" /\ stop = FALSE
  /\ hb = "off" /\ cmd = "off" /\ cur = Query /\ answer = "none"
  /\ link = "closed" /\ inbox = << >>
  /\ cache = [i \in Ids |-> "none"]
  /\ calls = [i \in Ids |-> 0]
  /\ told = [i \in Ids |-> {}]
  /\ atTerminal = [i \in Ids |-> 0]
  /\ deals = [i \in Ids |-> 0]

(* The service manager starts the process: a new SupervisorState.          *)
Start ==
  /\ proc = "down"
  /\ proc' = "starting" /\ stop' = FALSE
  /\ NoMemory
  /\ UNCHANGED <<session, broker>>

(* The head of the loop of run(): dial, unless the stop event is set.      *)
LoopHead == IF stop THEN "exiting" ELSE "dialing"

(* mt5_initialize at the start of run(); a failure is sys.exit(2).         *)
InitTerminal ==
  /\ proc = "starting"
  /\ proc' \in {LoopHead, "exiting"}
  /\ UNCHANGED <<stop, session, memory, broker>>

(* _run_once connects and passes the handshake; both tasks start.  The     *)
(* heartbeat loop tests the stop event before its first pass.              *)
Connects ==
  /\ proc = "dialing"
  /\ proc' = "up"
  /\ link' = "open" /\ inbox' = << >>
  /\ hb' = IF stop THEN "returned" ELSE "probe"
  /\ cmd' = "read" /\ cur' = Query /\ answer' = "none"
  /\ UNCHANGED <<stop, memory, broker>>

(* The connection or its handshake fails: OSError, ConnectionClosed or     *)
(* RuntimeError, outside the task group, which run() catches.              *)
DialFails ==
  /\ proc = "dialing"
  /\ proc' = "backoff"
  /\ UNCHANGED <<stop, session, memory, broker>>

(* The wait for the stop event or the backoff ends.                        *)
BackoffEnds ==
  /\ proc = "backoff"
  /\ proc' = LoopHead
  /\ UNCHANGED <<stop, session, memory, broker>>

(* Slip: run() takes the task group's exception for a lost connection, and *)
(* dials again.                                                            *)
AfterGroupReconnects == "backoff"

(* Where an exception of the task group leads: it is an ExceptionGroup,    *)
(* which the except clause of run() does not match.                        *)
AfterGroup == "exiting"

(* A task has raised: the group cancels the other one at its await and     *)
(* raises.  A call already in the executor goes on, its result is dropped. *)
GroupFails ==
  /\ proc = "up"
  /\ "raised" \in {hb, cmd}
  /\ proc' = AfterGroup
  /\ NoSession
  /\ UNCHANGED <<stop, memory, broker>>

(* Both tasks have returned: _run_once returns.                            *)
GroupReturns ==
  /\ proc = "up"
  /\ hb = "returned" /\ cmd = "returned"
  /\ proc' = LoopHead
  /\ NoSession
  /\ UNCHANGED <<stop, memory, broker>>

(* main() shuts the terminal's pipe and the process ends.                  *)
Exits ==
  /\ proc = "exiting"
  /\ proc' = "down"
  /\ UNCHANGED <<stop, session, memory, broker>>

(* The process is killed, or the machine fails.                            *)
Crash ==
  /\ proc # "down"
  /\ proc' = "down"
  /\ NoSession
  /\ UNCHANGED <<stop, memory, broker>>

(* SIGINT or SIGTERM.                                                      *)
Signal ==
  /\ proc \notin {"down", "exiting"} /\ ~stop
  /\ stop' = TRUE
  /\ UNCHANGED <<proc, session, memory, broker>>

-----------------------------------------------------------------------------
(* The backend and the network.                                            *)

Deliver(m) ==
  /\ proc = "up" /\ link = "open"
  /\ Len(inbox) < MaxInbox
  /\ m \in Ids => atTerminal[m] + deals[m] < MaxFires
  /\ inbox' = Append(inbox, m)
  /\ UNCHANGED <<proc, stop, hb, cmd, cur, answer, link, memory, broker>>

(* The connection ends, with a close frame ("closed") or without one.      *)
LinkEnds ==
  /\ proc = "up" /\ link = "open"
  /\ link' \in {"closed", "broken"}
  /\ UNCHANGED <<proc, stop, hb, cmd, cur, answer, inbox, memory, broker>>

-----------------------------------------------------------------------------
(* _heartbeat_loop: probe the terminal, send, sleep.                       *)

(* The executor returns terminal_info and account_info; both report a      *)
(* failure by None, not by an exception.                                   *)
Probed ==
  /\ proc = "up" /\ hb = "probe"
  /\ hb' = "send"
  /\ UNCHANGED <<proc, stop, cmd, cur, answer, link, inbox, memory, broker>>

(* Slip: the clause for transient errors catches ConnectionClosed as well. *)
SentHeartbeatSwallows == "sleep"

(* Where ws.send leaves the heartbeat: on a connection that has ended it   *)
(* raises ConnectionClosed, which the loop passes on.                      *)
SentHeartbeat == IF link = "open" THEN "sleep" ELSE "raised"

Heartbeat ==
  /\ proc = "up" /\ hb = "send"
  /\ hb' = SentHeartbeat
  /\ UNCHANGED <<proc, stop, cmd, cur, answer, link, inbox, memory, broker>>

HeartbeatWakes ==
  /\ proc = "up" /\ hb = "sleep"
  /\ hb' = IF stop THEN "returned" ELSE "probe"
  /\ UNCHANGED <<proc, stop, cmd, cur, answer, link, inbox, memory, broker>>

HeartbeatStep == Probed \/ Heartbeat \/ HeartbeatWakes

-----------------------------------------------------------------------------
(* _command_loop.  What was received before the connection ended is still  *)
(* read.                                                                   *)

Reads(m) ==
  /\ proc = "up" /\ cmd = "read"
  /\ inbox # << >> /\ m = Head(inbox)
  /\ inbox' = Tail(inbox)
  /\ cur' = m
  /\ UNCHANGED <<proc, stop, hb, link>>

(* A ping, or a positions request whose snapshot the executor returns.     *)
TakeQuery ==
  /\ Reads(Query)
  /\ cmd' = "reply"
  /\ UNCHANGED <<answer, memory, broker>>

(* The id is in the cache: idempotent replay.                              *)
Replay(i) ==
  /\ Reads(i)
  /\ cache[i] # "none"
  /\ cmd' = "reply" /\ answer' = cache[i]
  /\ UNCHANGED <<memory, broker>>

(* The id is new: mt5_send_order runs in the executor and hands the order  *)
(* to the terminal.                                                        *)
SendOrder(i) ==
  /\ Reads(i)
  /\ cache[i] = "none"
  /\ cmd' = "order"
  /\ calls' = [calls EXCEPT ![i] = @ + 1]
  /\ atTerminal' = [atTerminal EXCEPT ![i] = @ + 1]
  /\ UNCHANGED <<answer, cache, told, deals>>

(* The id is new, but a field of the intent is missing or is no number:    *)
(* mt5_send_order raises before it reaches the terminal.                   *)
SendRaises(i) ==
  /\ Reads(i)
  /\ cache[i] = "none"
  /\ cmd' = "raised"
  /\ calls' = [calls EXCEPT ![i] = @ + 1]
  /\ UNCHANGED <<answer, cache, told, broker>>

(* Slip: the cache keeps fills only, so that a rejection can be retried.   *)
RememberFills(i, r) == IF r = "ok" THEN [cache EXCEPT ![i] = r] ELSE cache

(* state.order_cache[client_order_id] = response                           *)
Remember(i, r) == [cache EXCEPT ![i] = r]

(* The task resumes with the executor's result.                            *)
Record(i) ==
  /\ proc = "up" /\ cmd = "answered" /\ cur = i
  /\ cache' = Remember(i, answer)
  /\ cmd' = "reply"
  /\ UNCHANGED <<proc, stop, hb, cur, answer, link, inbox, calls, told, broker>>

(* ws.send of the reply, and back to the head of the loop.                 *)
Reply ==
  /\ proc = "up" /\ cmd = "reply"
  /\ IF link = "open"
       THEN /\ cmd' = "read"
            /\ told' = [i \in Ids |->
                          told[i] \cup (IF cur = i THEN {answer} ELSE {})]
       ELSE cmd' = "raised" /\ UNCHANGED told
  /\ cur' = Query /\ answer' = "none"
  /\ UNCHANGED <<proc, stop, hb, link, inbox, cache, calls, broker>>

(* Nothing is left to read: the iteration ends after a close frame and     *)
(* raises ConnectionClosedError otherwise.                                 *)
ReadEnds ==
  /\ proc = "up" /\ cmd = "read"
  /\ inbox = << >> /\ link # "open"
  /\ cmd' = IF link = "closed" THEN "returned" ELSE "raised"
  /\ UNCHANGED <<proc, stop, hb, cur, answer, link, inbox, memory, broker>>

CommandStep ==
  \/ TakeQuery \/ Reply \/ ReadEnds
  \/ \E i \in Ids : Replay(i) \/ SendOrder(i) \/ SendRaises(i) \/ Record(i)

-----------------------------------------------------------------------------
(* The terminal.                                                           *)

(* Slip: a call without a result returns None.                             *)
OutcomesOrNone ==
  {<<TRUE, "ok">>, <<TRUE, "rejected">>, <<FALSE, "rejected">>, <<FALSE, "none">>}

(* Slip: an answer of any kind counts as success.                          *)
OutcomesAnyAnswer ==
  {<<TRUE, "ok">>, <<TRUE, "rejected">>, <<FALSE, "ok">>, <<FALSE, "rejected">>}

(* What became of an order, and what mt5_send_order returns: "ok" for the  *)
(* return code DONE alone.  An order may be executed and not be "ok": the  *)
(* call gave no result, or another code.                                   *)
Outcomes == {<<TRUE, "ok">>, <<TRUE, "rejected">>, <<FALSE, "rejected">>}

(* The order the command loop waits for, among those of its id.           *)
Awaited(i) == IF cmd = "order" /\ cur = i THEN 1 ELSE 0

(* The terminal is done with the order of a waiting command loop.          *)
TerminalAnswers(i, o) ==
  /\ Awaited(i) = 1
  /\ atTerminal' = [atTerminal EXCEPT ![i] = @ - 1]
  /\ deals' = [deals EXCEPT ![i] = IF o[1] THEN @ + 1 ELSE @]
  /\ cmd' = "answered" /\ answer' = o[2]
  /\ UNCHANGED <<proc, stop, hb, cur, link, inbox, memory>>

(* It is done with an order whose task was cancelled or whose process is   *)
(* gone.                                                                   *)
OrphanEnds(i, o) ==
  /\ atTerminal[i] > Awaited(i)
  /\ atTerminal' = [atTerminal EXCEPT ![i] = @ - 1]
  /\ deals' = [deals EXCEPT ![i] = IF o[1] THEN @ + 1 ELSE @]
  /\ UNCHANGED <<proc, stop, session, memory>>

Answers == \E i \in Ids, o \in Outcomes : TerminalAnswers(i, o)
Orphans == \E i \in Ids, o \in Outcomes : OrphanEnds(i, o)

-----------------------------------------------------------------------------
RunStep ==
  \/ InitTerminal \/ Connects \/ DialFails \/ BackoffEnds
  \/ GroupFails \/ GroupReturns \/ Exits

Next ==
  \/ Start \/ RunStep \/ Crash \/ Signal
  \/ (\E m \in Messages : Deliver(m)) \/ LinkEnds
  \/ HeartbeatStep \/ CommandStep \/ Answers \/ Orphans

Spec == Init /\ [][Next]_vars

(* asyncio runs every task that is ready, sleeps and executor calls end.   *)
(* Nothing is assumed of the service manager, the backend or the network.  *)
Fairness ==
  /\ WF_vars(GroupFails) /\ WF_vars(GroupReturns)
  /\ WF_vars(HeartbeatStep) /\ WF_vars(CommandStep) /\ WF_vars(Answers)

FairSpec == Spec /\ Fairness

-----------------------------------------------------------------------------
(* One run of the process calls mt5_send_order at most once for a client   *)
(* order id, however often the intent is repeated and whatever happens to  *)
(* the connection (the cache is written after the await, 312-319).         *)
SentOnceARun == \A i \in Ids : calls[i] <= 1

(* Every result a run has sent for an id is the one it remembers: a        *)
(* repeated intent gets the previous result (307-309).                     *)
RepliesAgree == \A i \in Ids : told[i] \subseteq {cache[i]}

(* The backend is told "ok" only of an order that was executed, by a reply *)
(* or by a replay (237-246).                                               *)
OkIsExecuted == \A i \in Ids : "ok" \in told[i] => deals[i] > 0

(* A connection that has ended is noticed, also when the command loop has  *)
(* returned quietly after a close frame and only the heartbeat is left     *)
(* (288-289): the process leaves it and so can be started on a new one.    *)
LinkLossIsNoticed == (proc = "up" /\ link # "open") ~> (proc # "up")

(* What the header of the file says: duplicate intents never fire twice    *)
(* (16-17).  Violated: the cache dies with the process.                    *)
NeverFiresTwice == \A i \in Ids : deals[i] <= 1
=============================================================================
