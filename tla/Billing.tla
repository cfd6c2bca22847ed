------------------------------- MODULE Billing -------------------------------
(***************************************************************************)
(* A user's subscription rows and the Stripe events that write them        *)
(* (billing_service.py), with the administrators' and the account page's   *)
(* writes of the same rows (admin_service.py, compliance.py) and the guard *)
(* that reads them (subscription_guard.py).                                *)
(*                                                                         *)
(* Every request is a transaction of its own session: it reads the rows,   *)
(* awaits, and its commit writes the columns that differ from what it      *)
(* read.  Stripe sends each event at least once, in any order, to any      *)
(* worker, and sends it again until it is answered with 200.               *)
(*                                                                         *)
(* Left out: customer ids, amounts, urls, the audit rows, the e-mail on a  *)
(* failed charge, and webhooks for customers the backend does not know.    *)
(* The two monthly and yearly plans are one, "pro".                        *)
(***************************************************************************)
EXTENDS Naturals, Sequences, FiniteSets

CONSTANTS
  Subs,        \* subscriptions at Stripe
  NoSub,       \* stripe_subscription_id IS NULL
  Workers,     \* requests in progress
  MaxEvents,   \* bound: events sent
  MaxRows,     \* bound: rows of the user
  MaxCalls     \* bound: calls of the account page and the administrators

(* What the constants may be.                                              *)
Parameters ==
  /\ NoSub \notin Subs
  /\ MaxEvents \in Nat /\ MaxRows \in Nat \ {0} /\ MaxCalls \in Nat

VARIABLES
  user,      \* users.deleted_at: "alive" or "deleted"
  rows,      \* subscriptions of the user, by created_at
  invoice,   \* the status of the invoice row
  stripe,    \* the subscriptions as Stripe has them (external)
  sent,      \* the events Stripe has sent, by number
  seen,      \* stripe_events: the numbers whose row is committed
  applied,   \* how often the effect of an event was committed (history)
  work,      \* what each request is doing
  calls,     \* calls made (bound only)
  inOrder    \* events were handled one at a time, none after a later one,
             \* and nobody else wrote (history)

vars == <<user, rows, invoice, stripe, sent, seen, applied, work, calls, inOrder>>

Plans     == {"trial", "pro", "lifetime"}
Statuses  == {"active", "past_due", "canceled", "trialing"}   \* the CHECK
AtStripe  == {"none", "incomplete", "active", "past_due", "canceled"}
Ends      == {"null", "future", "past"}
Row       == [plan : Plans, status : Statuses, sub : Subs \cup {NoSub}, end : Ends]

Kinds == {"upsert", "deleted", "checkout", "payment", "paid", "failed"}
Event == [kind : Kinds, sub : Subs \cup {NoSub}, status : AtStripe]
CallKinds == {"ensure", "trial", "cancel", "grant", "leave"}

Idle == [pc |-> "idle", kind |-> "none", event |-> 0, read |-> <<>>, target |-> 0]

TypeOK ==
  /\ user \in {"alive", "deleted"}
  /\ rows \in Seq(Row) /\ Len(rows) <= MaxRows
  /\ invoice \in {"none", "open", "paid"}
  /\ stripe \in [Subs -> AtStripe]
  /\ sent \in Seq(Event) /\ Len(sent) <= MaxEvents
  /\ seen \subseteq 1..MaxEvents
  /\ applied \in [1..MaxEvents -> 0..2]
  /\ \A w \in Workers :
       /\ work[w].pc \in {"idle", "read"}
       /\ work[w].kind \in Kinds \cup CallKinds \cup {"none"}
       /\ work[w].event \in 0..MaxEvents
       /\ work[w].target \in 0..MaxRows
  /\ calls \in 0..MaxCalls
  /\ inOrder \in BOOLEAN

Init ==
  /\ user = "alive" /\ rows = <<>> /\ invoice = "none"
  /\ stripe = [s \in Subs |-> "none"]
  /\ sent = <<>> /\ seen = {}
  /\ applied = [e \in 1..MaxEvents |-> 0]
  /\ work = [w \in Workers |-> Idle]
  /\ calls = 0 /\ inOrder = TRUE

-----------------------------------------------------------------------------
(* The guard reads the newest row.                                         *)
Latest(rs) == Len(rs)

IsActive(rs) ==
  /\ rs # <<>>
  /\ LET sub == rs[Latest(rs)]
     IN  sub.status \in {"active", "trialing"} /\ (sub.plan = "lifetime" \/ sub.end # "past")

IsPaid(rs) == IsActive(rs) /\ rs[Latest(rs)].plan \in {"pro", "lifetime"}

-----------------------------------------------------------------------------
(* Stripe (external).  A subscription is bought in a checkout, which the   *)
(* backend opens only after ensure_customer has made the user's first row. *)
Send(kind, s, status) ==
  /\ Len(sent) < MaxEvents
  /\ sent' = Append(sent, [kind |-> kind, sub |-> s, status |-> status])

StatusAfter(status) ==
  CASE status = "none"       -> {"incomplete", "active"}
    [] status = "incomplete" -> {"active"}
    [] status = "active"     -> {"past_due"}
    [] status = "past_due"   -> {"active"}
    [] OTHER                 -> {}

StripeUpdates(s) ==
  \E status \in StatusAfter(stripe[s]) :
    /\ rows # <<>>
    /\ stripe' = [stripe EXCEPT ![s] = status]
    /\ Send("upsert", s, status)
    /\ UNCHANGED <<user, rows, invoice, seen, applied, work, calls, inOrder>>

StripeDeletes(s) ==
  /\ stripe[s] \in {"active", "past_due"}
  /\ stripe' = [stripe EXCEPT ![s] = "canceled"]
  /\ Send("deleted", s, "canceled")
  /\ UNCHANGED <<user, rows, invoice, seen, applied, work, calls, inOrder>>

(* A completed checkout, in subscription or payment mode, and the fate of  *)
(* the invoice.                                                            *)
StripeReports(kind) ==
  /\ kind \in {"checkout", "payment", "paid", "failed"}
  /\ rows # <<>>
  /\ Send(kind, NoSub, "none")
  /\ UNCHANGED <<user, rows, invoice, stripe, seen, applied, work, calls, inOrder>>

-----------------------------------------------------------------------------
(* handle_webhook: the insert into stripe_events.                          *)

(* Another transaction holds the same number: the insert waits for it.     *)
Inserted(w, e) == \E v \in Workers \ {w} : work[v].pc = "read" /\ work[v].event = e

(* The row an event is about: of that subscription, else the newest.       *)
RowOf(rs, s) ==
  LET own == {i \in DOMAIN rs : rs[i].sub = s}
  IN  IF own # {} THEN CHOOSE i \in own : TRUE ELSE Latest(rs)

TargetOf(ev) ==
  CASE ev.kind = "upsert"  -> RowOf(rows, ev.sub)
    [] ev.kind = "deleted" -> IF \E i \in DOMAIN rows : rows[i].sub = ev.sub
                                THEN RowOf(rows, ev.sub) ELSE 0
    [] OTHER               -> Latest(rows)

(* All but the deletion need a user who is not deleted; else the event is  *)
(* taken as done without an effect.                                        *)
Resolved(ev) == ev.kind = "deleted" \/ user = "alive"

(* Slip: the number is looked up, not inserted, so two workers may pass.   *)
FirstTimeUnlocked(w, e) == e \notin seen

FirstTime(w, e) == e \notin seen /\ ~Inserted(w, e)

(* The event is inserted, the user and the rows are read.                  *)
WebhookReads(w, e) ==
  /\ work[w].pc = "idle" /\ e \in DOMAIN sent
  /\ FirstTime(w, e)
  /\ work' = [work EXCEPT ![w] =
       [pc |-> "read", kind |-> sent[e].kind, event |-> e, read |-> rows,
        target |-> IF Resolved(sent[e]) THEN TargetOf(sent[e]) ELSE 0]]
  /\ inOrder' = (inOrder /\ (\A v \in Workers : work[v].pc = "idle")
                         /\ (\A later \in seen : later < e))
  /\ UNCHANGED <<user, rows, invoice, stripe, sent, seen, applied, calls>>

-----------------------------------------------------------------------------
(* What a commit writes: the columns that differ from what was read.       *)
Merged(now, was, new) ==
  [c \in DOMAIN now |-> IF new[c] # was[c] THEN new[c] ELSE now[c]]

Store(w, new) ==
  LET i == work[w].target
  IN  rows' = [rows EXCEPT ![i] = Merged(@, work[w].read[i], new)]

(* Slip: the details are taken, the status only while a row is a trial.    *)
UpsertedOnce(row, ev) ==
  [row EXCEPT !.sub = ev.sub, !.plan = "pro", !.end = "future",
              !.status = IF row.plan = "trial" THEN ev.status ELSE row.status]

(* The row as the handler of an event leaves it in its session.            *)
Upserted(row, ev) ==
  [row EXCEPT !.sub = ev.sub, !.plan = "pro", !.status = ev.status, !.end = "future"]

Handled(row, ev) ==
  CASE ev.kind = "upsert"  -> Upserted(row, ev)
    [] ev.kind = "deleted" -> [row EXCEPT !.status = "canceled"]
    [] ev.kind = "payment" -> [row EXCEPT !.plan = "lifetime", !.status = "active",
                                          !.end = "null"]
    [] OTHER               -> row

Done(w) == work' = [work EXCEPT ![w] = Idle]

(* The database refuses a status outside the CHECK, and a second row with  *)
(* the same subscription.                                                  *)
Refused(w) ==
  LET ev == sent[work[w].event] IN
  /\ work[w].target # 0 /\ ev.kind = "upsert"
  /\ \/ ev.status \notin Statuses
     \/ \E i \in DOMAIN rows \ {work[w].target} : rows[i].sub = ev.sub

(* Whatever made the dispatch fail, everything is rolled back, the row in  *)
(* stripe_events too.                                                      *)
RolledBack(w) == seen' = seen

WebhookCommits(w) ==
  LET e == work[w].event  ev == sent[e] IN
  /\ work[w].pc = "read" /\ e # 0 /\ ~Refused(w)
  /\ IF work[w].target = 0 \/ ev.kind \in {"checkout", "paid", "failed"}
       THEN UNCHANGED rows
       ELSE Store(w, Handled(work[w].read[work[w].target], ev))
  /\ invoice' = IF ~Resolved(ev) THEN invoice
                ELSE CASE ev.kind = "paid"   -> "paid"
                       [] ev.kind = "failed" -> "open"
                       [] OTHER              -> invoice
  /\ seen' = seen \cup {e}
  /\ applied' = [applied EXCEPT ![e] = @ + 1]
  /\ Done(w)
  /\ UNCHANGED <<user, stripe, sent, calls, inOrder>>

(* The handler raised, the process died or the database refused: 5xx, and  *)
(* Stripe sends the event again.                                           *)
WebhookFails(w) ==
  /\ work[w].pc = "read" /\ work[w].event # 0
  /\ RolledBack(w)
  /\ Done(w)
  /\ UNCHANGED <<user, rows, invoice, stripe, sent, applied, calls, inOrder>>

-----------------------------------------------------------------------------
(* The account page and the administrators.                                *)
CallReads(w, kind) ==
  /\ work[w].pc = "idle" /\ calls < MaxCalls
  /\ kind \in {"grant", "cancel"} \/ user = "alive"
  /\ \E i \in (IF kind = "cancel" THEN DOMAIN rows ELSE {Latest(rows)}) :
       work' = [work EXCEPT ![w] =
         [pc |-> "read", kind |-> kind, event |-> 0, read |-> rows, target |-> i]]
  /\ calls' = calls + 1
  /\ inOrder' = (inOrder /\ kind = "ensure" /\ \A v \in Workers : work[v].pc = "idle")
  /\ UNCHANGED <<user, rows, invoice, stripe, sent, seen, applied>>

Added(plan, status, end) ==
  /\ Len(rows) < MaxRows
  /\ rows' = Append(rows, [plan |-> plan, status |-> status, sub |-> NoSub, end |-> end])

(* ensure_customer: the first row of a user, a trial without an end; a     *)
(* later call only fills in the customer.                                  *)
EnsureCommits(w) ==
  /\ work[w].pc = "read" /\ work[w].kind = "ensure"
  /\ IF work[w].target = 0 THEN Added("trial", "trialing", "null") ELSE UNCHANGED rows
  /\ Done(w)
  /\ UNCHANGED <<user, invoice, stripe, sent, seen, applied, calls, inOrder>>

(* _start_trial: nothing while a trial or a plan runs.                     *)
TrialCommits(w) ==
  LET i == work[w].target IN
  /\ work[w].pc = "read" /\ work[w].kind = "trial"
  /\ IF i = 0 THEN Added("trial", "trialing", "future")
     ELSE IF work[w].read[i].status \in {"trialing", "active"} THEN UNCHANGED rows
     ELSE Store(w, [work[w].read[i] EXCEPT !.plan = "trial", !.status = "trialing",
                                           !.end = "future"])
  /\ Done(w)
  /\ UNCHANGED <<user, invoice, stripe, sent, seen, applied, calls, inOrder>>

(* admin_cancel_subscription of a row: the row only, not Stripe.           *)
CancelCommits(w) ==
  /\ work[w].pc = "read" /\ work[w].kind = "cancel"
  /\ Store(w, [work[w].read[work[w].target] EXCEPT !.status = "canceled"])
  /\ Done(w)
  /\ UNCHANGED <<user, invoice, stripe, sent, seen, applied, calls, inOrder>>

(* grant_plan: a new row, active, for a deleted user too.                  *)
GrantCommits(w) ==
  /\ work[w].pc = "read" /\ work[w].kind = "grant"
  /\ \E plan \in {"pro", "lifetime"}, end \in {"null", "future"} : Added(plan, "active", end)
  /\ Done(w)
  /\ UNCHANGED <<user, invoice, stripe, sent, seen, applied, calls, inOrder>>

(* DELETE /me: the subscriptions Stripe knows are canceled there and here, *)
(* the user is deleted.  Stripe's answer is not waited for.                *)
LeaveCommits(w) ==
  LET paying == {i \in DOMAIN work[w].read :
                   /\ work[w].read[i].sub # NoSub
                   /\ work[w].read[i].status \in {"active", "trialing", "past_due"}} IN
  /\ work[w].pc = "read" /\ work[w].kind = "leave"
  /\ rows' = [i \in DOMAIN rows |->
       IF i \in paying THEN [rows[i] EXCEPT !.status = "canceled"] ELSE rows[i]]
  /\ user' = "deleted"
  /\ Done(w)
  /\ UNCHANGED <<invoice, stripe, sent, seen, applied, calls, inOrder>>

(* soft_delete_user: every running row, in one statement.                  *)
SoftDelete ==
  /\ user = "alive" /\ calls < MaxCalls /\ calls' = calls + 1
  /\ user' = "deleted"
  /\ rows' = [i \in DOMAIN rows |->
       IF rows[i].status \in {"active", "trialing", "past_due"}
         THEN [rows[i] EXCEPT !.status = "canceled"] ELSE rows[i]]
  /\ inOrder' = FALSE
  /\ UNCHANGED <<invoice, stripe, sent, seen, applied, work>>

PeriodEnds(i) ==
  /\ rows[i].end = "future"
  /\ rows' = [rows EXCEPT ![i].end = "past"]
  /\ UNCHANGED <<user, invoice, stripe, sent, seen, applied, work, calls, inOrder>>

-----------------------------------------------------------------------------
Next ==
  \/ \E s \in Subs : StripeUpdates(s) \/ StripeDeletes(s)
  \/ \E kind \in Kinds : StripeReports(kind)
  \/ \E w \in Workers :
       \/ \E e \in 1..MaxEvents : WebhookReads(w, e)
       \/ WebhookCommits(w) \/ WebhookFails(w)
       \/ \E kind \in CallKinds : CallReads(w, kind)
       \/ EnsureCommits(w) \/ TrialCommits(w) \/ CancelCommits(w)
       \/ GrantCommits(w) \/ LeaveCommits(w)
  \/ SoftDelete
  \/ \E i \in DOMAIN rows : PeriodEnds(i)

Spec == Init /\ [][Next]_vars

-----------------------------------------------------------------------------
(* The effect of an event is committed once at most, and exactly when its  *)
(* row in stripe_events is, whatever is repeated, raced, refused or rolled *)
(* back (billing_service.py:494-521).                                      *)
EachEventOnce ==
  \A e \in 1..MaxEvents : applied[e] = (IF e \in seen THEN 1 ELSE 0)

(* Handled in order and one at a time, repeats, refusals and retries       *)
(* included, the newest event of a subscription leaves its row with the    *)
(* status Stripe has (billing_service.py:494-521, 605-680).                *)
LastEventDecides ==
  LET n == Len(sent) IN
  (inOrder /\ n \in seen /\ sent[n].kind \in {"upsert", "deleted"}) =>
    \A i \in DOMAIN rows : rows[i].sub = sent[n].sub => rows[i].status = stripe[sent[n].sub]

(* What billing_service.py:596 says of a lifetime plan, that it never      *)
(* expires: no event of Stripe takes it away.  Violated: the plan is kept  *)
(* in the row of the subscription it replaces, and the end of that         *)
(* subscription cancels the row.                                           *)
LifetimeIsKept ==
  [][\A w \in Workers : WebhookCommits(w) =>
       (IsPaid(rows) /\ rows[Latest(rows)].plan = "lifetime" => IsPaid(rows'))]_vars
=============================================================================
