----------------------------- MODULE BackendSide -----------------------------
(***************************************************************************)
(* The components of the backend besides the strategy instances, side by   *)
(* side.  They share no state: a step of the whole is a step of one of     *)
(* them, in any order.                                                     *)
(***************************************************************************)
EXTENDS Integers

CONSTANTS
  Subs, NoSub, EventWorkers, MaxEvents, MaxRows, MaxCalls,           \* Billing
  Admins, StepUp, Instances, Owner, AdminChanges,                    \* Administration
  Mails, MailWorkers, Malformed, Tries,                              \* EmailQueue
  Calls, Free, Pro, Window, Grace, Stall, MaxWindows,                \* RateLimit
  Users, Emails, Tokens, Callers, Life, AccessLife, MaxAuthTime,     \* Sessions
  GoLives, GateChanges,                                              \* GoLive
  AccountIds, Labels, Edits, Keys, MaxSealed,                        \* BrokerAccounts
  Handlers, Configs, Skew, MaxPosts, MaxCopies, MaxReportTime        \* Reports

VARIABLES
  user, rows, invoice, stripe, events, seen, applied, handler, calls,
  inOrder,                                                           \* Billing
  role, gone, inst, flag, pending, timed, redisUp, work, changes,
  asked,                                                             \* Administration
  mail, tries, queue, hand, sent, unclear,                           \* EmailQueue
  clock, plan, count, expiry, req, passed,                           \* RateLimit
  now, row, token, denied, stored, storeUp, call,                    \* Sessions
  kind, status, holds, tv, turns, gate,                              \* GoLive
  accounts, sealed, editor,                                          \* BrokerAccounts
  time, config, live, inserted, posts, worker                        \* Reports

billing    == <<user, rows, invoice, stripe, events, seen, applied, handler, calls, inOrder>>
admin      == <<role, gone, inst, flag, pending, timed, redisUp, work, changes, asked>>
email      == <<mail, tries, queue, hand, sent, unclear>>
limiter    == <<clock, plan, count, expiry, req, passed>>
sessions   == <<now, row, token, denied, stored, storeUp, call>>
golive     == <<kind, status, holds, tv, turns, gate>>
brokers    == <<accounts, sealed, editor>>
reports    == <<time, config, live, inserted, posts, worker>>
vars == <<billing, admin, email, limiter, sessions, golive, brokers, reports>>

Bill     == INSTANCE Billing WITH Workers <- EventWorkers, sent <- events, work <- handler
Admin    == INSTANCE Administration WITH MaxChanges <- AdminChanges
Mail     == INSTANCE EmailQueue WITH Workers <- MailWorkers
Limit    == INSTANCE RateLimit WITH Requests <- Calls, now <- clock
Auth     == INSTANCE Sessions WITH MaxTime <- MaxAuthTime, redisUp <- storeUp
Gate     == INSTANCE GoLive WITH
              Requests <- GoLives, MaxChanges <- GateChanges, changes <- turns, req <- gate
Accounts == INSTANCE BrokerAccounts WITH
              Accounts <- AccountIds, Requests <- Edits, rows <- accounts, req <- editor
Rep      == INSTANCE Reports WITH
              Workers <- Handlers, MaxTime <- MaxReportTime, clock <- time, row <- live,
              stored <- inserted, work <- worker

(* What the constants may be.                                              *)
ASSUME BackendParameters ==
  /\ Bill!Parameters /\ Admin!Parameters /\ Mail!Parameters /\ Limit!Parameters
  /\ Auth!Parameters /\ Gate!Parameters /\ Accounts!Parameters /\ Rep!Parameters

-----------------------------------------------------------------------------
Init ==
  /\ Bill!Init /\ Admin!Init /\ Mail!Init /\ Limit!Init
  /\ Auth!Init /\ Gate!Init /\ Accounts!Init /\ Rep!Init

Next ==
  \/ Bill!Next     /\ UNCHANGED <<admin, email, limiter, sessions,
                                 golive, brokers, reports>>
  \/ Admin!Next    /\ UNCHANGED <<billing, email, limiter, sessions,
                                 golive, brokers, reports>>
  \/ Mail!Next     /\ UNCHANGED <<billing, admin, limiter, sessions,
                                 golive, brokers, reports>>
  \/ Limit!Next    /\ UNCHANGED <<billing, admin, email, sessions,
                                 golive, brokers, reports>>
  \/ Auth!Next     /\ UNCHANGED <<billing, admin, email, limiter,
                                 golive, brokers, reports>>
  \/ Gate!Next     /\ UNCHANGED <<billing, admin, email, limiter,
                                 sessions, brokers, reports>>
  \/ Accounts!Next /\ UNCHANGED <<billing, admin, email, limiter,
                                 sessions, golive, reports>>
  \/ Rep!Next      /\ UNCHANGED <<billing, admin, email, limiter,
                                 sessions, golive, brokers>>

Spec == Init /\ [][Next]_vars

-----------------------------------------------------------------------------
(* The types of all of them.                                               *)
TypeOK ==
  /\ Bill!TypeOK /\ Admin!TypeOK /\ Mail!TypeOK /\ Limit!TypeOK
  /\ Auth!TypeOK /\ Gate!TypeOK /\ Accounts!TypeOK /\ Rep!TypeOK

(* The effect of an event is committed with its row, once (Billing).       *)
EachEventOnce == Bill!EachEventOnce

(* Events handled in order leave Stripe's status (Billing).                *)
LastEventDecides == Bill!LastEventDecides

(* What two must do nobody does alone (Administration).                    *)
TwoMustAsk == Admin!TwoMustAsk

(* A mail is sent twice only after an LPUSH without answer (EmailQueue).   *)
TwiceOnlyIfUnclear == Mail!TwiceOnlyIfUnclear

(* A window lets no more through than the limit (RateLimit).               *)
LimitIsKept == Limit!LimitIsKept

(* A token given back is refused to the end of its life (Sessions).        *)
GivenBackIsRefused == Auth!GivenBackIsRefused

(* An instance goes live only on checks that held (GoLive).                *)
EveryCheckHeld == Gate!EveryCheckHeld

(* Commits that merge leave credentials that open, deletions and kills     *)
(* (BrokerAccounts, Reports).                                              *)
CommitsKeepOthersWrites ==
  []Accounts!CredentialsOpen /\ Accounts!DeletedStaysDeleted /\ Rep!ReportsKeepKill
=============================================================================
