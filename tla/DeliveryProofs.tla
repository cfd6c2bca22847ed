---------------------------- MODULE DeliveryProofs ----------------------------
(***************************************************************************)
(* Proofs about what may reach the backend or a user more than once: the   *)
(* events of Stripe and the mails.                                         *)
(***************************************************************************)
EXTENDS BackendSideProofs, Sequences

-----------------------------------------------------------------------------
(* Billing: the events.                                                    *)

(* In the middle of an event.                                              *)
Handles(w, e) == handler[w].pc = "read" /\ handler[w].event = e

(* An event somebody handles is not yet committed, and nobody else handles *)
(* it: the insert of its number makes the others wait.                     *)
BillInv ==
  /\ DOMAIN handler = EventWorkers
  /\ applied \in [1..MaxEvents -> Nat]
  /\ \A w \in EventWorkers : handler[w].event \in 0..MaxEvents
  /\ \A w \in EventWorkers, e \in 1..MaxEvents : Handles(w, e) => e \notin seen
  /\ \A v, w \in EventWorkers, e \in 1..MaxEvents : Handles(v, e) /\ Handles(w, e) => v = w
  /\ EachEventOnce

LEMMA EventBounds == MaxEvents \in Nat /\ 0 \in 0..MaxEvents /\ 0 \notin 1..MaxEvents
BY BackendParameters DEF BackendParameters, Bill!Parameters

LEMMA BillInvInit == Bill!Init => BillInv
<1> SUFFICES ASSUME Bill!Init PROVE BillInv
  OBVIOUS
<1>1. /\ handler = [w \in EventWorkers |-> Bill!Idle] /\ seen = {}
      /\ applied = [e \in 1..MaxEvents |-> 0]
  BY DEF Bill!Init
<1>2. \A w \in EventWorkers : handler[w].pc = "idle" /\ handler[w].event = 0
  BY <1>1 DEF Bill!Idle
<1> QED
  BY <1>1, <1>2, EventBounds DEF BillInv, Handles, EachEventOnce, Bill!EachEventOnce

(* A worker that turns to nothing, or to a call of a user, handles no      *)
(* event.                                                                  *)
LEMMA HandlesNone ==
  ASSUME BillInv, NEW w \in EventWorkers, NEW q, handler' = [handler EXCEPT ![w] = q],
         q.event = 0, UNCHANGED <<seen, applied>>
  PROVE  BillInv'
<1>1. /\ DOMAIN handler' = EventWorkers
      /\ \A v \in EventWorkers : handler'[v] = IF v = w THEN q ELSE handler[v]
  BY DEF BillInv
<1>2. \A v \in EventWorkers, e \in 1..MaxEvents :
        Handles(v, e)' => v # w /\ Handles(v, e)
  BY <1>1, EventBounds DEF Handles
<1>3. \A v \in EventWorkers : handler'[v].event \in 0..MaxEvents
  BY <1>1, EventBounds DEF BillInv
<1> QED
  BY <1>1, <1>2, <1>3 DEF BillInv, EachEventOnce, Bill!EachEventOnce

LEMMA EventIsRead ==
  ASSUME BillInv, NEW w \in EventWorkers, NEW e \in 1..MaxEvents, Bill!WebhookReads(w, e)
  PROVE  BillInv'
<1> DEFINE q == [pc |-> "read", kind |-> events[e].kind, event |-> e, read |-> rows,
                 target |-> IF Bill!Resolved(events[e]) THEN Bill!TargetOf(events[e]) ELSE 0]
<1>1. handler' = [handler EXCEPT ![w] = q] /\ q.event = e
  BY DEF Bill!WebhookReads
<1> HIDE DEF q
<1>2. /\ DOMAIN handler' = EventWorkers
      /\ \A v \in EventWorkers : handler'[v] = IF v = w THEN q ELSE handler[v]
  BY <1>1 DEF BillInv
<1>3. /\ e \notin seen /\ UNCHANGED <<seen, applied>>
      /\ \A v \in EventWorkers \ {w} : ~Handles(v, e)
  BY DEF Bill!WebhookReads, Bill!FirstTime, Bill!Inserted, Handles
<1>4. \A v \in EventWorkers, d \in 1..MaxEvents :
        Handles(v, d)' => (v = w /\ d = e) \/ (v # w /\ Handles(v, d))
  BY <1>1, <1>2 DEF Handles
<1>5. \A v \in EventWorkers : handler'[v].event \in 0..MaxEvents
  BY <1>1, <1>2, EventBounds DEF BillInv
<1> QED
  BY <1>2, <1>3, <1>4, <1>5 DEF BillInv, EachEventOnce, Bill!EachEventOnce

LEMMA EventIsCommitted ==
  ASSUME BillInv, NEW w \in EventWorkers, Bill!WebhookCommits(w)
  PROVE  BillInv'
<1> DEFINE e == handler[w].event
<1>1. /\ handler[w].pc = "read" /\ e # 0 /\ seen' = seen \cup {e}
      /\ applied' = [applied EXCEPT ![e] = @ + 1] /\ handler' = [handler EXCEPT ![w] = Bill!Idle]
  BY DEF Bill!WebhookCommits, Bill!Done
<1>2. e \in 1..MaxEvents /\ Handles(w, e)
  BY <1>1, EventBounds DEF BillInv, Handles
<1> HIDE DEF e
<1>3. /\ DOMAIN handler' = EventWorkers
      /\ \A v \in EventWorkers : handler'[v] = IF v = w THEN Bill!Idle ELSE handler[v]
      /\ Bill!Idle.pc = "idle" /\ Bill!Idle.event = 0
  BY <1>1 DEF BillInv, Bill!Idle
<1>4. \A v \in EventWorkers, d \in 1..MaxEvents : Handles(v, d)' => v # w /\ Handles(v, d)
  BY <1>3 DEF Handles
<1>5. \A v \in EventWorkers, d \in 1..MaxEvents : Handles(v, d)' => d # e
  BY <1>2, <1>4 DEF BillInv
<1>6. applied[e] = 0 /\ applied' \in [1..MaxEvents -> Nat]
  BY <1>1, <1>2 DEF BillInv, EachEventOnce, Bill!EachEventOnce
<1>7. EachEventOnce'
  BY <1>1, <1>2, <1>6 DEF BillInv, EachEventOnce, Bill!EachEventOnce
<1>8. \A v \in EventWorkers : handler'[v].event \in 0..MaxEvents
  BY <1>3, EventBounds DEF BillInv
<1> QED
  BY <1>1, <1>3, <1>4, <1>5, <1>6, <1>7, <1>8 DEF BillInv

LEMMA BillInvNext == BillInv /\ [Next]_vars => BillInv'
<1> SUFFICES ASSUME BillInv, [Next]_vars PROVE BillInv'
  OBVIOUS
<1>1. ASSUME UNCHANGED <<handler, seen, applied>> PROVE BillInv'
  BY <1>1 DEF BillInv, Handles, EachEventOnce, Bill!EachEventOnce
<1>2. Bill!Idle.event = 0
  BY DEF Bill!Idle
<1>3. ASSUME NEW s \in Subs, Bill!StripeUpdates(s) \/ Bill!StripeDeletes(s) PROVE BillInv'
  BY <1>1, <1>3 DEF Bill!StripeUpdates, Bill!StripeDeletes
<1>4. ASSUME NEW kd \in Bill!Kinds, Bill!StripeReports(kd) PROVE BillInv'
  BY <1>1, <1>4 DEF Bill!StripeReports
<1>5. ASSUME NEW w \in EventWorkers,
             \/ Bill!WebhookFails(w) \/ Bill!EnsureCommits(w) \/ Bill!TrialCommits(w)
             \/ Bill!CancelCommits(w) \/ Bill!GrantCommits(w) \/ Bill!LeaveCommits(w)
      PROVE  BillInv'
  <2>1. handler' = [handler EXCEPT ![w] = Bill!Idle] /\ UNCHANGED <<seen, applied>>
    BY <1>5
       DEF Bill!WebhookFails, Bill!RolledBack, Bill!EnsureCommits, Bill!TrialCommits,
           Bill!CancelCommits, Bill!GrantCommits, Bill!LeaveCommits, Bill!Done
  <2> QED
    BY <1>2, <2>1, HandlesNone
<1>6. ASSUME NEW w \in EventWorkers, NEW kd \in Bill!CallKinds, Bill!CallReads(w, kd)
      PROVE  BillInv'
  <2>1. PICK i : handler' = [handler EXCEPT ![w] =
          [pc |-> "read", kind |-> kd, event |-> 0, read |-> rows, target |-> i]]
    BY <1>6 DEF Bill!CallReads
  <2> DEFINE q == [pc |-> "read", kind |-> kd, event |-> 0, read |-> rows, target |-> i]
  <2>2. handler' = [handler EXCEPT ![w] = q] /\ q.event = 0
    BY <2>1
  <2>3. UNCHANGED <<seen, applied>>
    BY <1>6 DEF Bill!CallReads
  <2> HIDE DEF q
  <2> QED
    BY <2>2, <2>3, HandlesNone
<1>7. ASSUME Bill!SoftDelete \/ \E i \in DOMAIN rows : Bill!PeriodEnds(i) PROVE BillInv'
  BY <1>1, <1>7 DEF Bill!SoftDelete, Bill!PeriodEnds
<1>8. CASE UNCHANGED billing
  BY <1>1, <1>8 DEF billing
<1> QED
  BY <1>3, <1>4, <1>5, <1>6, <1>7, <1>8, EventIsRead, EventIsCommitted, StepOfEach DEF Bill!Next

(* However often an event is sent and however its handlers race, fail and  *)
(* are rolled back: its effect is committed with its number, once.         *)
THEOREM EventsOnce == Spec => []EachEventOnce
<1>1. Init => BillInv
  BY BillInvInit DEF Init
<1>2. BillInv => EachEventOnce
  BY DEF BillInv
<1> QED
  BY <1>1, <1>2, BillInvNext, PTL DEF Spec

-----------------------------------------------------------------------------
(* Billing: the order of the events.                                       *)

(* A request, with the rows it has read.                                   *)
Turn == [pc : {"idle", "read"}, kind : Bill!Kinds \cup Bill!CallKinds \cup {"none"},
         event : 0..MaxEvents, read : Seq(Bill!Row), target : Nat]

(* Rows are never removed: a request's row is still there.                 *)
BillTypes ==
  /\ user \in {"alive", "deleted"}
  /\ rows \in Seq(Bill!Row) /\ Len(rows) <= MaxRows
  /\ invoice \in {"none", "open", "paid"}
  /\ stripe \in [Subs -> Bill!AtStripe]
  /\ events \in Seq(Bill!Event) /\ Len(events) <= MaxEvents
  /\ seen \subseteq 1..Len(events)
  /\ handler \in [EventWorkers -> Turn]
  /\ calls \in 0..MaxCalls
  /\ inOrder \in BOOLEAN
  /\ \A w \in EventWorkers :
       /\ Len(handler[w].read) <= Len(rows) /\ handler[w].target <= Len(handler[w].read)
       /\ handler[w].event <= Len(events)

LEMMA BillConstants ==
  NoSub \notin Subs /\ MaxEvents \in Nat /\ MaxRows \in Nat /\ MaxRows >= 1 /\ MaxCalls \in Nat
BY BackendParameters DEF BackendParameters, Bill!Parameters

LEMMA IdleTurn ==
  /\ Bill!Idle \in Turn /\ Bill!Idle.pc = "idle" /\ Bill!Idle.event = 0
  /\ Len(Bill!Idle.read) = 0 /\ Bill!Idle.target = 0
BY BillConstants DEF Bill!Idle, Turn

LEMMA BillTypesInit == Bill!Init => BillTypes
<1> SUFFICES ASSUME Bill!Init PROVE BillTypes
  OBVIOUS
<1>1. /\ user = "alive" /\ rows = <<>> /\ invoice = "none" /\ stripe = [s \in Subs |-> "none"]
      /\ events = <<>> /\ seen = {} /\ handler = [w \in EventWorkers |-> Bill!Idle]
      /\ calls = 0 /\ inOrder = TRUE
  BY DEF Bill!Init
<1>2. \A w \in EventWorkers : handler[w] = Bill!Idle
  BY <1>1
<1>3. Len(rows) = 0 /\ Len(events) = 0
  BY <1>1
<1>4. handler \in [EventWorkers -> Turn]
  BY <1>1, IdleTurn
<1>5. stripe \in [Subs -> Bill!AtStripe]
  BY <1>1 DEF Bill!AtStripe
<1> QED
  BY <1>1, <1>2, <1>3, <1>4, <1>5, IdleTurn, BillConstants DEF BillTypes

(* A merge of rows takes each column of one of them.                       *)
LEMMA MergedSubscription ==
  ASSUME NEW cur \in Bill!Row, NEW was \in Bill!Row, NEW new \in Bill!Row
  PROVE  LET m == Bill!Merged(cur, was, new) IN
         /\ m \in Bill!Row
         /\ m.status = IF new.status # was.status THEN new.status ELSE cur.status
         /\ m.sub = IF new.sub # was.sub THEN new.sub ELSE cur.sub
<1> DEFINE m == Bill!Merged(cur, was, new)
<1>1. DOMAIN cur = {"plan", "status", "sub", "end"}
  BY DEF Bill!Row
<1>2. /\ m = [c \in DOMAIN cur |-> m[c]]
      /\ \A c \in DOMAIN cur : m[c] = IF new[c] # was[c] THEN new[c] ELSE cur[c]
  BY DEF Bill!Merged
<1> HIDE DEF m
<1>3. m = [plan |-> m.plan, status |-> m.status, sub |-> m.sub, end |-> m.end]
  BY <1>1, <1>2
<1>4. \A c \in DOMAIN cur : m[c] = new[c] \/ m[c] = cur[c]
  BY <1>2
<1>5. m \in Bill!Row
  BY <1>1, <1>3, <1>4 DEF Bill!Row
<1> QED
  BY <1>1, <1>2, <1>5 DEF m

(* What a request stores in the row it is about.                           *)
LEMMA StoredRow ==
  ASSUME BillTypes, NEW w \in EventWorkers, NEW new, Bill!Store(w, new),
         handler[w].target # 0 => new \in Bill!Row
  PROVE  rows' \in Seq(Bill!Row) /\ Len(rows') = Len(rows)
<1> DEFINE i == handler[w].target
           m == Bill!Merged(rows[i], handler[w].read[i], new)
<1>1. rows' = [rows EXCEPT ![i] = m] /\ rows \in Seq(Bill!Row)
  BY DEF Bill!Store, BillTypes
<1>2. /\ i \in Nat /\ i <= Len(handler[w].read) /\ Len(handler[w].read) <= Len(rows)
      /\ handler[w].read \in Seq(Bill!Row)
  BY DEF BillTypes, Turn
<1> HIDE DEF m
<1>3. ASSUME i # 0 PROVE m \in Bill!Row
  <2>1. rows[i] \in Bill!Row /\ handler[w].read[i] \in Bill!Row
    BY <1>1, <1>2, <1>3
  <2> QED
    BY <1>3, <2>1, MergedSubscription DEF m
<1>4. CASE i = 0
  <2>1. rows' = rows
    <3>1. i \notin DOMAIN rows
      BY <1>1, <1>4
    <3> QED
      BY <1>1, <3>1
  <2> QED
    BY <1>1, <2>1
<1>5. CASE i # 0
  <2>1. i \in 1..Len(rows)
    BY <1>1, <1>2, <1>5
  <2> HIDE DEF i
  <2> QED
    BY <1>1, <1>3, <1>5, <2>1
<1> QED
  BY <1>4, <1>5

(* A request turns to q; rows and events are only added.                   *)
LEMMA TurnsTo ==
  ASSUME BillTypes, NEW w \in EventWorkers, NEW q \in Turn, handler' = [handler EXCEPT ![w] = q],
         Len(rows) \in Nat, Len(rows') \in Nat, Len(rows) <= Len(rows'), UNCHANGED events,
         Len(q.read) \in Nat, Len(q.read) <= Len(rows'), q.target <= Len(q.read),
         q.event <= Len(events)
  PROVE  /\ handler' \in [EventWorkers -> Turn]
         /\ \A v \in EventWorkers : handler'[v] = IF v = w THEN q ELSE handler[v]
         /\ \A v \in EventWorkers :
              /\ Len(handler'[v].read) <= Len(rows') /\ handler'[v].target <= Len(handler'[v].read)
              /\ handler'[v].event <= Len(events')
<1>1. \A v \in EventWorkers :
        /\ Len(handler[v].read) \in Nat /\ Len(handler[v].read) <= Len(rows)
        /\ handler[v].target <= Len(handler[v].read) /\ handler[v].event <= Len(events)
  BY DEF BillTypes, Turn
<1>2. /\ handler' \in [EventWorkers -> Turn]
      /\ \A v \in EventWorkers : handler'[v] = IF v = w THEN q ELSE handler[v]
  BY DEF BillTypes
<1>3. \A v \in EventWorkers : Len(handler[v].read) <= Len(rows')
  BY <1>1
<1> QED
  BY <1>1, <1>2, <1>3

(* A request is over, committed or not.                                    *)
LEMMA TurnIsOver ==
  ASSUME BillTypes, NEW w \in EventWorkers, handler' = [handler EXCEPT ![w] = Bill!Idle],
         UNCHANGED <<stripe, events, calls, inOrder>>,
         rows' \in Seq(Bill!Row), Len(rows) <= Len(rows'), Len(rows') <= MaxRows,
         user' \in {"alive", "deleted"}, invoice' \in {"none", "open", "paid"},
         seen' \subseteq 1..Len(events)
  PROVE  BillTypes'
<1>1. Len(rows) \in Nat /\ Len(rows') \in Nat /\ Len(events) \in Nat
  BY DEF BillTypes
<1>2. /\ handler' \in [EventWorkers -> Turn]
      /\ \A v \in EventWorkers :
           /\ Len(handler'[v].read) <= Len(rows') /\ handler'[v].target <= Len(handler'[v].read)
           /\ handler'[v].event <= Len(events')
  <2> DEFINE q == Bill!Idle
  <2>1. /\ q \in Turn /\ Len(q.read) \in Nat /\ Len(q.read) <= Len(rows')
        /\ q.target <= Len(q.read) /\ q.event <= Len(events)
        /\ handler' = [handler EXCEPT ![w] = q]
    BY <1>1, IdleTurn
  <2> HIDE DEF q
  <2> QED
    BY <1>1, <2>1, TurnsTo
<1> QED
  BY <1>2 DEF BillTypes

(* A request begins: it reads the rows.                                    *)
LEMMA TurnBegins ==
  ASSUME BillTypes, NEW w \in EventWorkers, NEW q \in Turn, handler' = [handler EXCEPT ![w] = q],
         UNCHANGED <<user, rows, invoice, stripe, events, seen>>, q.read = rows,
         q.target <= Len(rows), q.event <= Len(events),
         calls' \in 0..MaxCalls, inOrder' \in BOOLEAN
  PROVE  BillTypes'
<1>1. Len(rows) \in Nat /\ Len(rows') = Len(rows)
  BY DEF BillTypes
<1>2. /\ handler' \in [EventWorkers -> Turn]
      /\ \A v \in EventWorkers :
           /\ Len(handler'[v].read) <= Len(rows') /\ handler'[v].target <= Len(handler'[v].read)
           /\ handler'[v].event <= Len(events')
  <2>1. Len(q.read) \in Nat /\ Len(q.read) <= Len(rows') /\ q.target <= Len(q.read)
        /\ Len(rows) <= Len(rows') /\ Len(rows') \in Nat
    BY <1>1
  <2> QED
    BY <1>1, <2>1, TurnsTo
<1> QED
  BY <1>2 DEF BillTypes

(* Nobody's request moves.                                                 *)
LEMMA OthersMove ==
  ASSUME BillTypes, UNCHANGED handler,
         rows' \in Seq(Bill!Row), Len(rows') = Len(rows),
         events' \in Seq(Bill!Event), Len(events) <= Len(events'), Len(events') <= MaxEvents,
         stripe' \in [Subs -> Bill!AtStripe], UNCHANGED <<invoice, seen>>,
         user' \in {"alive", "deleted"}, calls' \in 0..MaxCalls, inOrder' \in BOOLEAN
  PROVE  BillTypes'
<1>1. Len(events) \in Nat /\ Len(events') \in Nat
  BY DEF BillTypes
<1>2. seen' \subseteq 1..Len(events')
  BY <1>1 DEF BillTypes
<1>3. \A w \in EventWorkers : handler[w].event \in Nat /\ handler[w].event <= Len(events')
  BY <1>1, BillConstants DEF BillTypes, Turn
<1> QED
  BY <1>2, <1>3 DEF BillTypes

(* The row an event or a call is about is one of those read, or none.      *)
LEMMA TargetIsThere ==
  ASSUME BillTypes, NEW ev \in Bill!Event
  PROVE  /\ Bill!TargetOf(ev) \in Nat /\ Bill!TargetOf(ev) <= Len(rows)
         /\ ev.kind \in {"upsert", "deleted"} => \A i \in 1..Len(rows) :
              rows[i].sub = ev.sub => Bill!TargetOf(ev) # 0 /\ rows[Bill!TargetOf(ev)].sub = ev.sub
         /\ ev.kind = "upsert" /\ Bill!TargetOf(ev) = 0 => Len(rows) = 0
<1> DEFINE own == {i \in DOMAIN rows : rows[i].sub = ev.sub}
<1>1. rows \in Seq(Bill!Row) /\ Len(rows) \in Nat /\ DOMAIN rows = 1..Len(rows)
  BY DEF BillTypes
<1>2. Bill!Latest(rows) = Len(rows)
  BY DEF Bill!Latest
<1>3. ASSUME own # {} PROVE Bill!RowOf(rows, ev.sub) \in own
  BY <1>3 DEF Bill!RowOf
<1>4. ASSUME own = {} PROVE Bill!RowOf(rows, ev.sub) = Len(rows)
  BY <1>2, <1>4 DEF Bill!RowOf
<1>5. CASE ev.kind = "upsert"
  <2>1. Bill!TargetOf(ev) = Bill!RowOf(rows, ev.sub)
    BY <1>5 DEF Bill!TargetOf
  <2>2. CASE own = {}
    <3>1. Bill!TargetOf(ev) = Len(rows)
      BY <1>4, <2>1, <2>2
    <3> QED
      BY <1>1, <2>2, <3>1
  <2>3. CASE own # {}
    <3>1. Bill!TargetOf(ev) \in own
      BY <1>3, <2>1, <2>3
    <3> QED
      BY <1>1, <3>1
  <2> QED
    BY <2>2, <2>3
<1>6. CASE ev.kind = "deleted"
  <2>2. CASE own = {}
    <3>1. Bill!TargetOf(ev) = 0
      BY <1>6, <2>2 DEF Bill!TargetOf
    <3> QED
      BY <1>1, <1>6, <2>2, <3>1
  <2>3. CASE own # {}
    <3>1. Bill!TargetOf(ev) \in own
      BY <1>3, <1>6, <2>3 DEF Bill!TargetOf
    <3> QED
      BY <1>1, <1>6, <3>1
  <2> QED
    BY <2>2, <2>3
<1>7. CASE ev.kind \notin {"upsert", "deleted"}
  BY <1>1, <1>2, <1>7 DEF Bill!TargetOf
<1> QED
  BY <1>5, <1>6, <1>7

(* Stripe sends an event.                                                  *)
LEMMA StripeSends ==
  ASSUME BillTypes, NEW kd \in Bill!Kinds, NEW s \in Subs \cup {NoSub},
         NEW st \in Bill!AtStripe, Bill!Send(kd, s, st)
  PROVE  /\ events' \in Seq(Bill!Event) /\ Len(events') = Len(events) + 1
         /\ Len(events) \in Nat /\ Len(events') <= MaxEvents
         /\ \A e \in 1..Len(events) : events'[e] = events[e]
         /\ events'[Len(events')] = [kind |-> kd, sub |-> s, status |-> st]
<1> DEFINE ev == [kind |-> kd, sub |-> s, status |-> st]
<1>1. ev \in Bill!Event
  BY DEF Bill!Event
<1>2. events' = Append(events, ev) /\ Len(events) < MaxEvents /\ events \in Seq(Bill!Event)
  BY DEF Bill!Send, BillTypes
<1> HIDE DEF ev
<1>3. /\ events' \in Seq(Bill!Event) /\ Len(events') = Len(events) + 1 /\ Len(events) \in Nat
      /\ \A e \in 1..Len(events) : events'[e] = events[e]
      /\ events'[Len(events')] = ev
  BY <1>1, <1>2
<1> QED
  BY <1>2, <1>3, BillConstants DEF ev

(* The steps of Stripe, and the event each sends.                          *)
LEMMA StripeMoves ==
  ASSUME BillTypes,
         \/ \E s \in Subs : Bill!StripeUpdates(s) \/ Bill!StripeDeletes(s)
         \/ \E kd \in Bill!Kinds : Bill!StripeReports(kd)
  PROVE  /\ BillTypes'
         /\ UNCHANGED <<user, rows, seen, handler, inOrder>>
         /\ Len(events') = Len(events) + 1
         /\ \A e \in 1..Len(events) : events'[e] = events[e]
         /\ LET ev == events'[Len(events')] IN
            /\ ev.kind \in {"upsert", "deleted"} => ev.sub \in Subs /\ stripe'[ev.sub] = ev.status
            /\ ev.kind = "deleted" => ev.status = "canceled"
<1> DEFINE Goal == /\ BillTypes'
                   /\ UNCHANGED <<user, rows, seen, handler, inOrder>>
                   /\ Len(events') = Len(events) + 1
                   /\ \A e \in 1..Len(events) : events'[e] = events[e]
                   /\ LET ev == events'[Len(events')] IN
                      /\ ev.kind \in {"upsert", "deleted"} =>
                           ev.sub \in Subs /\ stripe'[ev.sub] = ev.status
                      /\ ev.kind = "deleted" => ev.status = "canceled"
<1>0. /\ rows \in Seq(Bill!Row) /\ user \in {"alive", "deleted"} /\ calls \in 0..MaxCalls
      /\ inOrder \in BOOLEAN /\ stripe \in [Subs -> Bill!AtStripe] /\ Len(events) \in Nat
  BY DEF BillTypes
<1>1. ASSUME NEW kd \in Bill!Kinds, NEW s \in Subs \cup {NoSub}, NEW st \in Bill!AtStripe,
             Bill!Send(kd, s, st), stripe' \in [Subs -> Bill!AtStripe],
             UNCHANGED <<user, rows, invoice, seen, handler, calls, inOrder>>,
             kd \in {"upsert", "deleted"} => s \in Subs /\ stripe'[s] = st,
             kd = "deleted" => st = "canceled"
      PROVE  Goal
  <2>1. /\ events' \in Seq(Bill!Event) /\ Len(events') = Len(events) + 1
        /\ Len(events') <= MaxEvents
        /\ \A e \in 1..Len(events) : events'[e] = events[e]
        /\ events'[Len(events')] = [kind |-> kd, sub |-> s, status |-> st]
    BY <1>1, StripeSends
  <2>2. Len(events) <= Len(events') /\ Len(rows') = Len(rows) /\ rows' \in Seq(Bill!Row)
    BY <1>0, <1>1, <2>1
  <2>3. BillTypes'
    BY <1>0, <1>1, <2>1, <2>2, OthersMove
  <2> QED
    BY <1>1, <2>1, <2>3
<1> HIDE DEF Goal
<1>2. ASSUME NEW s \in Subs, Bill!StripeUpdates(s) PROVE Goal
  <2>1. PICK st \in Bill!StatusAfter(stripe[s]) :
          /\ stripe' = [stripe EXCEPT ![s] = st] /\ Bill!Send("upsert", s, st)
          /\ UNCHANGED <<user, rows, invoice, seen, handler, calls, inOrder>>
    BY <1>2 DEF Bill!StripeUpdates
  <2>2. st \in Bill!AtStripe
    BY DEF Bill!StatusAfter, Bill!AtStripe
  <2>3. "upsert" \in Bill!Kinds
    BY DEF Bill!Kinds
  <2>4. stripe' \in [Subs -> Bill!AtStripe] /\ stripe'[s] = st
    BY <1>0, <2>1, <2>2
  <2> QED
    BY <1>1, <2>1, <2>2, <2>3, <2>4
<1>3. ASSUME NEW s \in Subs, Bill!StripeDeletes(s) PROVE Goal
  <2>1. /\ stripe' = [stripe EXCEPT ![s] = "canceled"] /\ Bill!Send("deleted", s, "canceled")
        /\ UNCHANGED <<user, rows, invoice, seen, handler, calls, inOrder>>
    BY <1>3 DEF Bill!StripeDeletes
  <2>2. "canceled" \in Bill!AtStripe /\ "deleted" \in Bill!Kinds
    BY DEF Bill!AtStripe, Bill!Kinds
  <2>3. stripe' \in [Subs -> Bill!AtStripe] /\ stripe'[s] = "canceled"
    BY <1>0, <2>1, <2>2
  <2> QED
    BY <1>1, <2>1, <2>2, <2>3
<1>4. ASSUME NEW kd \in Bill!Kinds, Bill!StripeReports(kd) PROVE Goal
  <2>1. /\ kd \in {"checkout", "payment", "paid", "failed"} /\ Bill!Send(kd, NoSub, "none")
        /\ UNCHANGED <<user, rows, invoice, stripe, seen, handler, calls, inOrder>>
    BY <1>4 DEF Bill!StripeReports
  <2>2. "none" \in Bill!AtStripe /\ NoSub \in Subs \cup {NoSub} /\ kd \notin {"upsert", "deleted"}
    BY <2>1 DEF Bill!AtStripe
  <2> QED
    BY <1>0, <1>1, <2>1, <2>2
<1> QED
  BY <1>2, <1>3, <1>4 DEF Goal

(* A row the backend adds.                                                 *)
LEMMA RowIsAdded ==
  ASSUME BillTypes, NEW plan_ \in Bill!Plans, NEW st \in Bill!Statuses, NEW end \in Bill!Ends,
         Bill!Added(plan_, st, end)
  PROVE  /\ rows' \in Seq(Bill!Row) /\ Len(rows') = Len(rows) + 1 /\ Len(rows) \in Nat
         /\ Len(rows') <= MaxRows
         /\ \A i \in 1..Len(rows) : rows'[i] = rows[i]
         /\ rows'[Len(rows')].sub = NoSub
<1> DEFINE new == [plan |-> plan_, status |-> st, sub |-> NoSub, end |-> end]
<1>1. new \in Bill!Row /\ new.sub = NoSub
  BY DEF Bill!Row
<1>2. rows' = Append(rows, new) /\ Len(rows) < MaxRows /\ rows \in Seq(Bill!Row)
  BY DEF Bill!Added, BillTypes
<1> HIDE DEF new
<1>3. /\ rows' \in Seq(Bill!Row) /\ Len(rows') = Len(rows) + 1 /\ Len(rows) \in Nat
      /\ \A i \in 1..Len(rows) : rows'[i] = rows[i] /\ rows'[Len(rows')] = new
  BY <1>1, <1>2
<1>4. rows'[Len(rows')] = new
  BY <1>1, <1>2
<1> QED
  BY <1>1, <1>2, <1>3, <1>4, BillConstants

(* A request reads a row of the user's.                                    *)
LEMMA RowRead ==
  ASSUME BillTypes, NEW w \in EventWorkers, handler[w].target # 0
  PROVE  handler[w].read[handler[w].target] \in Bill!Row
<1>1. /\ handler[w].read \in Seq(Bill!Row) /\ handler[w].target \in Nat
      /\ handler[w].target <= Len(handler[w].read)
  BY DEF BillTypes, Turn
<1> QED
  BY <1>1

LEMMA FunctionIsSequence ==
  ASSUME NEW S, NEW n \in Nat, NEW f \in [1..n -> S]
  PROVE  f \in Seq(S) /\ Len(f) = n
OBVIOUS

LEMMA RowsCanceled ==
  ASSUME BillTypes, NEW S,
         rows' = [j \in DOMAIN rows |->
                    IF j \in S THEN [rows[j] EXCEPT !.status = "canceled"] ELSE rows[j]]
  PROVE  rows' \in Seq(Bill!Row) /\ Len(rows') = Len(rows)
<1>1. PICK n \in Nat : n = Len(rows)
  BY DEF BillTypes
<1>2. DOMAIN rows = 1..n /\ \A j \in 1..n : rows[j] \in Bill!Row
  BY <1>1 DEF BillTypes
<1>3. \A x \in Bill!Row : [x EXCEPT !.status = "canceled"] \in Bill!Row
  BY DEF Bill!Row, Bill!Statuses
<1>4. \A j \in 1..n : rows'[j] \in Bill!Row
  BY <1>2, <1>3
<1>5. rows' \in [1..n -> Bill!Row]
  BY <1>2, <1>4
<1> QED
  BY <1>1, <1>5, FunctionIsSequence

LEMMA CallCommits ==
  ASSUME BillTypes, NEW w \in EventWorkers,
         \/ Bill!EnsureCommits(w) \/ Bill!TrialCommits(w) \/ Bill!CancelCommits(w)
         \/ Bill!GrantCommits(w) \/ Bill!LeaveCommits(w)
  PROVE  BillTypes'
<1> DEFINE i == handler[w].target
           was == handler[w].read[i]
<1>0. /\ rows \in Seq(Bill!Row) /\ Len(rows) \in Nat /\ Len(rows) <= MaxRows
      /\ user \in {"alive", "deleted"} /\ invoice \in {"none", "open", "paid"}
      /\ seen \subseteq 1..Len(events)
  BY DEF BillTypes
<1>1. /\ handler' = [handler EXCEPT ![w] = Bill!Idle]
      /\ UNCHANGED <<stripe, events, calls, inOrder, invoice, seen>>
      /\ user' \in {user, "deleted"}
  BY DEF Bill!EnsureCommits, Bill!TrialCommits, Bill!CancelCommits, Bill!GrantCommits,
         Bill!LeaveCommits, Bill!Done
<1>2. ASSUME rows' \in Seq(Bill!Row), Len(rows) <= Len(rows'), Len(rows') <= MaxRows
      PROVE  BillTypes'
  BY <1>0, <1>1, <1>2, TurnIsOver
<1>3. ASSUME NEW plan_ \in Bill!Plans, NEW st \in Bill!Statuses, NEW end \in Bill!Ends,
             Bill!Added(plan_, st, end)
      PROVE  BillTypes'
  BY <1>0, <1>2, <1>3, RowIsAdded
<1>4. ASSUME NEW new, Bill!Store(w, new), i # 0 => new \in Bill!Row PROVE BillTypes'
  BY <1>0, <1>2, <1>4, StoredRow
<1>5. ASSUME UNCHANGED rows PROVE BillTypes'
  BY <1>0, <1>2, <1>5
<1>6. /\ {"trial", "pro", "lifetime"} \subseteq Bill!Plans
      /\ {"trialing", "active", "canceled"} \subseteq Bill!Statuses
      /\ {"null", "future"} \subseteq Bill!Ends
  BY DEF Bill!Plans, Bill!Statuses, Bill!Ends
<1>7. CASE Bill!EnsureCommits(w)
  BY <1>3, <1>5, <1>6, <1>7 DEF Bill!EnsureCommits
<1>8. CASE Bill!TrialCommits(w)
  <2>1. i # 0 => [was EXCEPT !.plan = "trial", !.status = "trialing", !.end = "future"] \in Bill!Row
    BY <1>6, RowRead DEF Bill!Row
  <2> QED
    BY <1>3, <1>4, <1>5, <1>6, <1>8, <2>1 DEF Bill!TrialCommits
<1>9. CASE Bill!CancelCommits(w)
  <2>1. i # 0 => [was EXCEPT !.status = "canceled"] \in Bill!Row
    BY <1>6, RowRead DEF Bill!Row
  <2> QED
    BY <1>4, <1>9, <2>1 DEF Bill!CancelCommits
<1>10. CASE Bill!GrantCommits(w)
  BY <1>3, <1>6, <1>10 DEF Bill!GrantCommits
<1>11. CASE Bill!LeaveCommits(w)
  <2> DEFINE paying == {j \in DOMAIN handler[w].read :
                          /\ handler[w].read[j].sub # NoSub
                          /\ handler[w].read[j].status \in {"active", "trialing", "past_due"}}
  <2>1. rows' = [j \in DOMAIN rows |->
                   IF j \in paying THEN [rows[j] EXCEPT !.status = "canceled"] ELSE rows[j]]
    BY <1>11 DEF Bill!LeaveCommits
  <2> HIDE DEF paying
  <2>3. rows' \in Seq(Bill!Row) /\ Len(rows') = Len(rows)
    BY <2>1, RowsCanceled
  <2> QED
    BY <1>0, <1>2, <2>3
<1> QED
  BY <1>7, <1>8, <1>9, <1>10, <1>11

LEMMA CallBegins ==
  ASSUME BillTypes, NEW w \in EventWorkers, NEW kd \in Bill!CallKinds, Bill!CallReads(w, kd)
  PROVE  BillTypes'
<1>1. PICK i \in (IF kd = "cancel" THEN DOMAIN rows ELSE {Bill!Latest(rows)}) :
        handler' = [handler EXCEPT ![w] =
          [pc |-> "read", kind |-> kd, event |-> 0, read |-> rows, target |-> i]]
  BY DEF Bill!CallReads
<1>2. rows \in Seq(Bill!Row) /\ Len(rows) \in Nat /\ Len(events) \in Nat /\ calls \in 0..MaxCalls
      /\ inOrder \in BOOLEAN
  BY DEF BillTypes
<1>3. i \in Nat /\ i <= Len(rows)
  BY <1>1, <1>2 DEF Bill!Latest
<1> DEFINE q == [pc |-> "read", kind |-> kd, event |-> 0, read |-> rows, target |-> i]
<1>4. q \in Turn /\ q.read = rows /\ q.target <= Len(rows) /\ q.event <= Len(events)
  BY <1>2, <1>3, BillConstants DEF Turn
<1>5. handler' = [handler EXCEPT ![w] = q]
  BY <1>1
<1>6. /\ UNCHANGED <<user, rows, invoice, stripe, events, seen>>
      /\ calls < MaxCalls /\ calls' = calls + 1
      /\ inOrder' = (inOrder /\ kd = "ensure" /\ \A v \in EventWorkers : handler[v].pc = "idle")
  BY DEF Bill!CallReads
<1>7. calls' \in 0..MaxCalls
  BY <1>2, <1>6, BillConstants
<1>8. inOrder' \in BOOLEAN
  BY <1>6
<1> HIDE DEF q
<1> QED
  BY <1>4, <1>5, <1>6, <1>7, <1>8, TurnBegins

LEMMA EventBegins ==
  ASSUME BillTypes, NEW w \in EventWorkers, NEW e \in 1..MaxEvents, Bill!WebhookReads(w, e)
  PROVE  BillTypes'
<1> DEFINE t == IF Bill!Resolved(events[e]) THEN Bill!TargetOf(events[e]) ELSE 0
           q == [pc |-> "read", kind |-> events[e].kind, event |-> e, read |-> rows, target |-> t]
<1>1. /\ e \in DOMAIN events /\ handler' = [handler EXCEPT ![w] = q]
      /\ UNCHANGED <<user, rows, invoice, stripe, events, seen, calls>>
      /\ inOrder' = (inOrder /\ (\A v \in EventWorkers : handler[v].pc = "idle")
                             /\ (\A later \in seen : later < e))
  BY DEF Bill!WebhookReads
<1>2. rows \in Seq(Bill!Row) /\ Len(rows) \in Nat /\ events \in Seq(Bill!Event) /\ calls \in 0..MaxCalls
  BY DEF BillTypes
<1>3. events[e] \in Bill!Event /\ e <= Len(events) /\ events[e].kind \in Bill!Kinds
  <2>1. events[e] \in Bill!Event /\ e <= Len(events)
    BY <1>1, <1>2
  <2> QED
    BY <2>1 DEF Bill!Event
<1>4. t \in Nat /\ t <= Len(rows)
  BY <1>2, <1>3, TargetIsThere
<1> HIDE DEF t
<1>5. q \in Turn /\ q.read = rows /\ q.target <= Len(rows) /\ q.event <= Len(events)
  BY <1>2, <1>3, <1>4, EventBounds DEF Turn
<1>6. inOrder' \in BOOLEAN
  BY <1>1
<1> HIDE DEF q
<1> QED
  BY <1>1, <1>2, <1>5, <1>6, TurnBegins

(* What the commit of an event makes of a row.                             *)
LEMMA EventIsStored ==
  ASSUME BillTypes, NEW w \in EventWorkers, Bill!WebhookCommits(w)
  PROVE  LET i == handler[w].target
             ev == events[handler[w].event]
             was == handler[w].read[i] IN
         /\ BillTypes'
         /\ ev \in Bill!Event
         /\ \/ rows' = rows /\ (i = 0 \/ ev.kind \in {"checkout", "paid", "failed"})
            \/ /\ i # 0 /\ i \in 1..Len(rows) /\ rows[i] \in Bill!Row /\ was \in Bill!Row
               /\ Bill!Handled(was, ev) \in Bill!Row
               /\ ev.kind \notin {"checkout", "paid", "failed"}
               /\ rows' = [rows EXCEPT ![i] = Bill!Merged(rows[i], was, Bill!Handled(was, ev))]
<1> DEFINE i == handler[w].target
           ev == events[handler[w].event]
           was == handler[w].read[i]
           new == Bill!Handled(was, ev)
<1>0. /\ rows \in Seq(Bill!Row) /\ Len(rows) \in Nat /\ Len(rows) <= MaxRows
      /\ user \in {"alive", "deleted"} /\ invoice \in {"none", "open", "paid"}
      /\ seen \subseteq 1..Len(events) /\ events \in Seq(Bill!Event)
  BY DEF BillTypes
<1>1. /\ handler[w].event # 0 /\ ~Bill!Refused(w)
      /\ UNCHANGED <<user, stripe, events, calls, inOrder>>
      /\ handler' = [handler EXCEPT ![w] = Bill!Idle]
      /\ seen' = seen \cup {handler[w].event} /\ invoice' \in {invoice, "paid", "open"}
  BY DEF Bill!WebhookCommits, Bill!Done
<1>2. handler[w].event \in 1..Len(events) /\ ev \in Bill!Event
  <2>1. handler[w].event \in Nat /\ handler[w].event <= Len(events)
    BY BillConstants DEF BillTypes, Turn
  <2> QED
    BY <1>0, <1>1, <2>1
<1>3. \/ rows' = rows /\ (i = 0 \/ ev.kind \in {"checkout", "paid", "failed"})
      \/ i # 0 /\ ev.kind \notin {"checkout", "paid", "failed"} /\ Bill!Store(w, new)
  BY DEF Bill!WebhookCommits
<1>4. ASSUME i # 0 PROVE i \in 1..Len(rows) /\ rows[i] \in Bill!Row /\ was \in Bill!Row
  <2>1. i \in Nat /\ i <= Len(handler[w].read) /\ Len(handler[w].read) <= Len(rows)
        /\ Len(handler[w].read) \in Nat
    BY DEF BillTypes, Turn
  <2>2. i \in 1..Len(rows)
    BY <1>0, <1>4, <2>1
  <2> QED
    BY <1>0, <1>4, <2>2, RowRead
<1>5. ASSUME i # 0 PROVE new \in Bill!Row
  <2>1. was \in Bill!Row
    BY <1>4, <1>5
  <2>2. ev.kind = "upsert" => ev.status \in Bill!Statuses
    BY <1>1, <1>5 DEF Bill!Refused
  <2> HIDE DEF was, ev
  <2>3. CASE ev.kind = "upsert"
    BY <1>2, <2>1, <2>2, <2>3 DEF Bill!Handled, Bill!Upserted, Bill!Row, Bill!Event, Bill!Plans, Bill!Ends
  <2>4. CASE ev.kind = "deleted"
    BY <2>1, <2>4 DEF Bill!Handled, Bill!Row, Bill!Statuses
  <2>5. CASE ev.kind = "payment"
    BY <2>1, <2>5 DEF Bill!Handled, Bill!Row, Bill!Plans, Bill!Statuses, Bill!Ends
  <2>6. CASE ev.kind \notin {"upsert", "deleted", "payment"}
    BY <2>1, <2>6 DEF Bill!Handled
  <2> QED
    BY <2>3, <2>4, <2>5, <2>6
<1>6. rows' \in Seq(Bill!Row) /\ Len(rows') = Len(rows)
  BY <1>0, <1>3, <1>5, StoredRow
<1>7. BillTypes'
  <2>1. seen' \subseteq 1..Len(events)
    BY <1>0, <1>1, <1>2
  <2>2. Len(rows) <= Len(rows') /\ Len(rows') <= MaxRows
    BY <1>0, <1>6
  <2> QED
    BY <1>0, <1>1, <1>6, <2>1, <2>2, TurnIsOver
<1> QED
  BY <1>2, <1>3, <1>4, <1>5, <1>7 DEF Bill!Store

LEMMA PeriodEndsOf ==
  ASSUME BillTypes, NEW i \in DOMAIN rows, Bill!PeriodEnds(i)
  PROVE  /\ BillTypes' /\ UNCHANGED <<user, stripe, events, seen, handler, inOrder>>
         /\ Len(rows') = Len(rows)
         /\ \A j \in 1..Len(rows) : rows'[j].sub = rows[j].sub /\ rows'[j].status = rows[j].status
<1>1. PICK n \in Nat : n = Len(rows)
  BY DEF BillTypes
<1>2. /\ DOMAIN rows = 1..n /\ (\A j \in 1..n : rows[j] \in Bill!Row) /\ rows \in [1..n -> Bill!Row]
  BY <1>1 DEF BillTypes
<1>3. /\ rows' = [rows EXCEPT ![i].end = "past"]
      /\ UNCHANGED <<user, invoice, stripe, events, seen, applied, handler, calls, inOrder>>
  BY DEF Bill!PeriodEnds
<1>4. \A x \in Bill!Row : LET y == [x EXCEPT !.end = "past"] IN
        y \in Bill!Row /\ y.sub = x.sub /\ y.status = x.status
  BY DEF Bill!Row, Bill!Ends
<1>5. \A j \in 1..n : rows'[j] = IF j = i THEN [rows[j] EXCEPT !.end = "past"] ELSE rows[j]
  BY <1>2, <1>3
<1>6. \A j \in 1..n : rows'[j] \in Bill!Row /\ rows'[j].sub = rows[j].sub /\ rows'[j].status = rows[j].status
  BY <1>2, <1>4, <1>5
<1>7. rows' \in [1..n -> Bill!Row]
  BY <1>2, <1>3, <1>6
<1>8. rows' \in Seq(Bill!Row) /\ Len(rows') = n
  BY <1>7, FunctionIsSequence
<1>9. Len(events) <= Len(events') /\ events \in Seq(Bill!Event)
  BY <1>3 DEF BillTypes
<1>10. BillTypes'
  BY <1>1, <1>3, <1>8, <1>9, OthersMove DEF BillTypes
<1> QED
  BY <1>1, <1>3, <1>6, <1>8, <1>10

LEMMA UserIsDeleted ==
  ASSUME BillTypes, Bill!SoftDelete
  PROVE  BillTypes'
<1> DEFINE S == {i \in DOMAIN rows : rows[i].status \in {"active", "trialing", "past_due"}}
<1>1. /\ user' = "deleted" /\ calls < MaxCalls /\ calls' = calls + 1 /\ inOrder' = FALSE
      /\ UNCHANGED <<invoice, stripe, events, seen, applied, handler>>
  BY DEF Bill!SoftDelete
<1>2. rows' = [i \in DOMAIN rows |->
                 IF i \in S THEN [rows[i] EXCEPT !.status = "canceled"] ELSE rows[i]]
  BY DEF Bill!SoftDelete
<1> HIDE DEF S
<1>3. rows' \in Seq(Bill!Row) /\ Len(rows') = Len(rows)
  BY <1>2, RowsCanceled
<1>4. calls' \in 0..MaxCalls
  BY <1>1, BillConstants DEF BillTypes
<1>5. Len(events) <= Len(events') /\ events \in Seq(Bill!Event)
  BY <1>1 DEF BillTypes
<1> QED
  BY <1>1, <1>3, <1>4, <1>5, OthersMove DEF BillTypes

(* The steps of Billing keep its types.                                    *)
LEMMA BillTypesNext == BillTypes /\ [Next]_vars => BillTypes'
<1> SUFFICES ASSUME BillTypes, [Next]_vars PROVE BillTypes'
  OBVIOUS
<1>1. CASE Bill!Next
  <2>1. ASSUME \/ \E s \in Subs : Bill!StripeUpdates(s) \/ Bill!StripeDeletes(s)
               \/ \E kd \in Bill!Kinds : Bill!StripeReports(kd)
        PROVE  BillTypes'
    BY <2>1, StripeMoves
  <2>2. ASSUME NEW w \in EventWorkers, Bill!WebhookFails(w) PROVE BillTypes'
    <3>1. /\ handler' = [handler EXCEPT ![w] = Bill!Idle]
          /\ UNCHANGED <<user, rows, invoice, stripe, events, seen, calls, inOrder>>
      BY <2>2 DEF Bill!WebhookFails, Bill!RolledBack, Bill!Done
    <3>2. /\ rows' \in Seq(Bill!Row) /\ Len(rows) <= Len(rows') /\ Len(rows') <= MaxRows
          /\ user' \in {"alive", "deleted"} /\ invoice' \in {"none", "open", "paid"}
          /\ seen' \subseteq 1..Len(events)
      BY <3>1 DEF BillTypes
    <3> QED
      BY <3>1, <3>2, TurnIsOver
  <2> QED
    BY <1>1, <2>1, <2>2, EventBegins, EventIsStored, CallBegins, CallCommits, UserIsDeleted,
       PeriodEndsOf DEF Bill!Next
<1>2. CASE UNCHANGED billing
  BY <1>2 DEF billing, BillTypes
<1> QED
  BY <1>1, <1>2, StepOfEach

(* What a request that nobody disturbs knows: the rows it has read have    *)
(* kept their subscription and status, its event is later than every       *)
(* committed one, and it is about the row of the event's subscription.     *)
TurnInOrder(t) ==
  /\ Len(t.read) = Len(rows)
  /\ \A i \in 1..Len(rows) : t.read[i].sub = rows[i].sub /\ t.read[i].status = rows[i].status
  /\ t.event = 0 => t.kind = "ensure" /\ t.target = Len(rows)
  /\ t.event # 0 =>
       LET ev == events[t.event] IN
       /\ t.kind \in Bill!Kinds
       /\ \A earlier \in seen : earlier < t.event
       /\ ev.kind \in {"upsert", "deleted"} => \A i \in 1..Len(rows) :
            rows[i].sub = ev.sub => t.target # 0 /\ rows[t.target].sub = ev.sub
       /\ ev.kind = "upsert" /\ t.target = 0 => Len(rows) = 0

RowsAreApart ==
  \A i, j \in 1..Len(rows) : rows[i].sub = rows[j].sub /\ rows[i].sub # NoSub => i = j

NewestIsStripes ==
  LET n == Len(events) IN
  n # 0 /\ events[n].kind \in {"upsert", "deleted"} =>
    /\ events[n].sub \in Subs /\ stripe[events[n].sub] = events[n].status
    /\ events[n].kind = "deleted" => events[n].status = "canceled"

InOrder ==
  /\ user = "alive"
  /\ \A v, w \in EventWorkers : handler[v].pc = "read" /\ handler[w].pc = "read" => v = w
  /\ \A w \in EventWorkers : handler[w].pc = "read" => TurnInOrder(handler[w])
  /\ RowsAreApart

OrderInv == BillTypes /\ NewestIsStripes /\ (inOrder => InOrder) /\ LastEventDecides

LEMMA OrderInvInit == Bill!Init => OrderInv
<1> SUFFICES ASSUME Bill!Init PROVE OrderInv
  OBVIOUS
<1>1. /\ user = "alive" /\ Len(rows) = 0 /\ Len(events) = 0 /\ seen = {}
      /\ \A w \in EventWorkers : handler[w] = Bill!Idle
  BY DEF Bill!Init
<1>2. \A w \in EventWorkers : handler[w].pc = "idle"
  BY <1>1, IdleTurn
<1>3. InOrder
  BY <1>1, <1>2 DEF InOrder, RowsAreApart
<1>4. NewestIsStripes /\ LastEventDecides
  BY <1>1 DEF NewestIsStripes, LastEventDecides, Bill!LastEventDecides
<1> QED
  BY <1>3, <1>4, BillTypesInit DEF OrderInv

(* No event, no commit, and the rows keep their subscriptions and states.  *)
LEMMA OrderStays ==
  ASSUME OrderInv, BillTypes', UNCHANGED <<user, stripe, events, seen, inOrder>>,
         \/ UNCHANGED handler
         \/ \E w \in EventWorkers : handler' = [handler EXCEPT ![w] = Bill!Idle],
         Len(rows') = Len(rows),
         \A j \in 1..Len(rows) : rows'[j].sub = rows[j].sub /\ rows'[j].status = rows[j].status
  PROVE  OrderInv'
<1>1. \A w \in EventWorkers : handler'[w].pc = "read" => handler'[w] = handler[w]
  BY IdleTurn DEF OrderInv, BillTypes
<1>2. DOMAIN rows = 1..Len(rows) /\ DOMAIN rows' = 1..Len(rows)
  BY DEF OrderInv, BillTypes
<1>3. LastEventDecides'
  BY <1>2 DEF OrderInv, LastEventDecides, Bill!LastEventDecides
<1>4. NewestIsStripes'
  BY DEF OrderInv, NewestIsStripes
<1>5. ASSUME inOrder' PROVE InOrder'
  <2>1. InOrder
    BY <1>5 DEF OrderInv
  <2>2. ASSUME NEW w \in EventWorkers, handler'[w].pc = "read" PROVE TurnInOrder(handler[w])'
    <3>1. TurnInOrder(handler[w]) /\ handler'[w] = handler[w]
      BY <1>1, <2>1, <2>2 DEF InOrder
    <3> DEFINE t == handler[w]
    <3>2. t.target # 0 /\ t.event # 0 => t.target \in 1..Len(rows)
      BY DEF OrderInv, BillTypes, Turn
    <3> QED
      BY <3>1, <3>2 DEF TurnInOrder
  <2>3. RowsAreApart'
    BY <2>1 DEF InOrder, RowsAreApart
  <2> QED
    BY <1>1, <2>1, <2>2, <2>3 DEF InOrder
<1> QED
  BY <1>3, <1>4, <1>5 DEF OrderInv

LEMMA OrderAfterStripe ==
  ASSUME OrderInv,
         \/ \E s \in Subs : Bill!StripeUpdates(s) \/ Bill!StripeDeletes(s)
         \/ \E kd \in Bill!Kinds : Bill!StripeReports(kd)
  PROVE  OrderInv'
<1>1. /\ BillTypes'
      /\ UNCHANGED <<user, rows, seen, handler, inOrder>>
      /\ Len(events') = Len(events) + 1
      /\ \A e \in 1..Len(events) : events'[e] = events[e]
      /\ LET ev == events'[Len(events')] IN
         /\ ev.kind \in {"upsert", "deleted"} => ev.sub \in Subs /\ stripe'[ev.sub] = ev.status
         /\ ev.kind = "deleted" => ev.status = "canceled"
  BY StripeMoves DEF OrderInv
<1>2. Len(events) \in Nat /\ seen \subseteq 1..Len(events)
  BY DEF OrderInv, BillTypes
<1>3. NewestIsStripes'
  BY <1>1 DEF NewestIsStripes
<1>4. LastEventDecides'
  BY <1>1, <1>2 DEF LastEventDecides, Bill!LastEventDecides
<1>5. ASSUME inOrder' PROVE InOrder'
  <2>1. InOrder
    BY <1>1, <1>5 DEF OrderInv
  <2>2. ASSUME NEW w \in EventWorkers, handler'[w].pc = "read" PROVE TurnInOrder(handler[w])'
    <3>1. TurnInOrder(handler[w])
      BY <1>1, <2>1, <2>2 DEF InOrder
    <3>2. handler[w].event \in Nat /\ handler[w].event <= Len(events)
      BY EventBounds DEF OrderInv, BillTypes, Turn
    <3>3. handler[w].event # 0 => events'[handler[w].event] = events[handler[w].event]
      BY <1>1, <1>2, <3>2
    <3> QED
      BY <1>1, <3>1, <3>3 DEF TurnInOrder
  <2>3. RowsAreApart'
    BY <1>1, <2>1 DEF InOrder, RowsAreApart
  <2> QED
    BY <1>1, <2>1, <2>2, <2>3 DEF InOrder
<1> QED
  BY <1>1, <1>3, <1>4, <1>5 DEF OrderInv

(* A request begins, and if still in order, while no other is in progress. *)
LEMMA OrderBegins ==
  ASSUME OrderInv, BillTypes', NEW w \in EventWorkers, NEW q,
         handler' = [handler EXCEPT ![w] = q],
         UNCHANGED <<user, rows, stripe, events, seen>>,
         inOrder' => inOrder /\ (\A v \in EventWorkers : handler[v].pc = "idle") /\ TurnInOrder(q)
  PROVE  OrderInv'
<1>1. NewestIsStripes' /\ LastEventDecides'
  BY DEF OrderInv, NewestIsStripes, LastEventDecides, Bill!LastEventDecides
<1>2. ASSUME inOrder' PROVE InOrder'
  <2>1. InOrder /\ (\A v \in EventWorkers : handler[v].pc = "idle") /\ TurnInOrder(q)
    BY <1>2 DEF OrderInv
  <2>2. \A v \in EventWorkers : handler'[v] = IF v = w THEN q ELSE handler[v]
    BY DEF OrderInv, BillTypes
  <2>3. ASSUME NEW v \in EventWorkers, handler'[v].pc = "read" PROVE v = w /\ TurnInOrder(handler[v])'
    <3>1. v = w /\ handler'[v] = q
      BY <2>1, <2>2, <2>3
    <3> QED
      BY <2>1, <3>1 DEF TurnInOrder
  <2>4. RowsAreApart'
    BY <2>1 DEF InOrder, RowsAreApart
  <2> QED
    BY <2>1, <2>3, <2>4 DEF InOrder
<1> QED
  BY <1>1, <1>2 DEF OrderInv

LEMMA OrderWhenEventBegins ==
  ASSUME OrderInv, NEW w \in EventWorkers, NEW e \in 1..MaxEvents, Bill!WebhookReads(w, e)
  PROVE  OrderInv'
<1> DEFINE t == IF Bill!Resolved(events[e]) THEN Bill!TargetOf(events[e]) ELSE 0
           q == [pc |-> "read", kind |-> events[e].kind, event |-> e, read |-> rows, target |-> t]
<1>1. /\ e \in DOMAIN events /\ handler' = [handler EXCEPT ![w] = q]
      /\ UNCHANGED <<user, rows, stripe, events, seen>>
      /\ inOrder' = (inOrder /\ (\A v \in EventWorkers : handler[v].pc = "idle")
                             /\ (\A later \in seen : later < e))
  BY DEF Bill!WebhookReads
<1>2. events[e] \in Bill!Event /\ events[e].kind \in Bill!Kinds /\ Len(rows) \in Nat
  <2>1. events[e] \in Bill!Event /\ Len(rows) \in Nat
    BY <1>1 DEF OrderInv, BillTypes
  <2> QED
    BY <2>1 DEF Bill!Event
<1>3. ASSUME inOrder' PROVE inOrder /\ (\A v \in EventWorkers : handler[v].pc = "idle") /\ TurnInOrder(q)
  <2>1. inOrder /\ (\A v \in EventWorkers : handler[v].pc = "idle") /\ (\A later \in seen : later < e)
    BY <1>1, <1>3
  <2>2. t = Bill!TargetOf(events[e])
    BY <2>1 DEF OrderInv, InOrder, Bill!Resolved
  <2>3. /\ events[e].kind \in {"upsert", "deleted"} => \A i \in 1..Len(rows) :
             rows[i].sub = events[e].sub => t # 0 /\ rows[t].sub = events[e].sub
        /\ events[e].kind = "upsert" /\ t = 0 => Len(rows) = 0
    BY <1>2, <2>2, TargetIsThere DEF OrderInv
  <2>4. q.event = e /\ e # 0 /\ q.read = rows /\ q.kind = events[e].kind /\ q.target = t
    BY EventBounds
  <2> HIDE DEF q, t
  <2>5. TurnInOrder(q)
    BY <1>2, <2>1, <2>3, <2>4 DEF TurnInOrder
  <2> QED
    BY <2>1, <2>5
<1>4. BillTypes'
  BY EventBegins DEF OrderInv
<1> HIDE DEF q
<1> QED
  BY <1>1, <1>3, <1>4, OrderBegins

LEMMA OrderWhenCallBegins ==
  ASSUME OrderInv, NEW w \in EventWorkers, NEW kd \in Bill!CallKinds, Bill!CallReads(w, kd)
  PROVE  OrderInv'
<1>1. PICK i \in (IF kd = "cancel" THEN DOMAIN rows ELSE {Bill!Latest(rows)}) :
        handler' = [handler EXCEPT ![w] =
          [pc |-> "read", kind |-> kd, event |-> 0, read |-> rows, target |-> i]]
  BY DEF Bill!CallReads
<1> DEFINE q == [pc |-> "read", kind |-> kd, event |-> 0, read |-> rows, target |-> i]
<1>2. /\ UNCHANGED <<user, rows, stripe, events, seen>> /\ handler' = [handler EXCEPT ![w] = q]
      /\ inOrder' = (inOrder /\ kd = "ensure" /\ \A v \in EventWorkers : handler[v].pc = "idle")
  BY <1>1 DEF Bill!CallReads
<1>3. kd = "ensure" => TurnInOrder(q)
  BY <1>1 DEF TurnInOrder, Bill!Latest
<1>4. BillTypes'
  BY CallBegins DEF OrderInv
<1> HIDE DEF q
<1> QED
  BY <1>2, <1>3, <1>4, OrderBegins

(* What is over leaves nobody's request in progress, if all is in order.   *)
LEMMA OrderWhenOver ==
  ASSUME OrderInv, BillTypes', NEW w \in EventWorkers, handler[w].pc = "read",
         handler' = [handler EXCEPT ![w] = Bill!Idle], UNCHANGED <<stripe, events, inOrder>>,
         inOrder => user' = "alive" /\ RowsAreApart' /\ LastEventDecides'
  PROVE  OrderInv'
<1>1. NewestIsStripes'
  BY DEF OrderInv, NewestIsStripes
<1>2. LastEventDecides'
  BY DEF LastEventDecides, Bill!LastEventDecides
<1>3. ASSUME inOrder PROVE InOrder'
  <2>1. \A v \in EventWorkers : handler'[v].pc # "read"
    BY <1>3, IdleTurn DEF OrderInv, InOrder, BillTypes
  <2> QED
    BY <1>3, <2>1 DEF InOrder
<1> QED
  BY <1>1, <1>2, <1>3 DEF OrderInv

(* Of the calls only the first, that makes the user's row, is in order.    *)
LEMMA OrderWhenCallCommits ==
  ASSUME OrderInv, NEW w \in EventWorkers,
         \/ Bill!EnsureCommits(w) \/ Bill!TrialCommits(w) \/ Bill!CancelCommits(w)
         \/ Bill!GrantCommits(w) \/ Bill!LeaveCommits(w)
  PROVE  OrderInv'
<1>1. /\ handler[w].pc = "read" /\ handler' = [handler EXCEPT ![w] = Bill!Idle]
      /\ UNCHANGED <<stripe, events, seen, inOrder>>
      /\ handler[w].kind \in Bill!CallKinds
      /\ handler[w].kind = "ensure" => Bill!EnsureCommits(w)
  BY DEF Bill!EnsureCommits, Bill!TrialCommits, Bill!CancelCommits, Bill!GrantCommits,
         Bill!LeaveCommits, Bill!Done, Bill!CallKinds
<1>2. BillTypes /\ BillTypes'
  BY CallCommits DEF OrderInv
<1>3. ASSUME inOrder PROVE user' = "alive" /\ RowsAreApart' /\ LastEventDecides'
  <2>1. InOrder /\ NewestIsStripes /\ LastEventDecides
    BY <1>3 DEF OrderInv
  <2>2. TurnInOrder(handler[w])
    BY <1>1, <2>1 DEF InOrder
  <2>3. handler[w].event = 0 /\ handler[w].target = Len(rows)
    BY <1>1, <2>2 DEF TurnInOrder, Bill!Kinds, Bill!CallKinds
  <2>4. Bill!EnsureCommits(w)
    BY <1>1, <2>2, <2>3 DEF TurnInOrder
  <2>5. user' = "alive"
    BY <2>1, <2>4 DEF InOrder, Bill!EnsureCommits
  <2>6. CASE Len(rows) = 0
    <3>1. Bill!Added("trial", "trialing", "null")
      BY <2>3, <2>4, <2>6 DEF Bill!EnsureCommits
    <3>2. Len(rows') = 1 /\ rows'[1].sub = NoSub
      <4>1. "trial" \in Bill!Plans /\ "trialing" \in Bill!Statuses /\ "null" \in Bill!Ends
        BY DEF Bill!Plans, Bill!Statuses, Bill!Ends
      <4> QED
        BY <1>2, <2>6, <3>1, <4>1, RowIsAdded
    <3>3. DOMAIN rows' = 1..Len(rows')
      BY <1>2 DEF BillTypes
    <3>4. \A n \in seen : n # 0
      BY <1>2 DEF BillTypes
    <3>5. LastEventDecides'
      BY <1>1, <2>1, <3>2, <3>3, <3>4, BillConstants
         DEF NewestIsStripes, LastEventDecides, Bill!LastEventDecides
    <3> QED
      BY <2>5, <3>2, <3>5 DEF RowsAreApart
  <2>7. CASE Len(rows) # 0
    <3>1. rows' = rows
      BY <2>3, <2>4, <2>7 DEF Bill!EnsureCommits
    <3> QED
      BY <1>1, <2>1, <2>5, <3>1
         DEF InOrder, RowsAreApart, LastEventDecides, Bill!LastEventDecides
  <2> QED
    BY <2>5, <2>6, <2>7
<1> HIDE DEF Bill!Idle
<1> QED
  BY <1>1, <1>2, <1>3, OrderWhenOver

(* The commit of an event in order: its row takes the status of the event, *)
(* every other row stays.                                                  *)
LEMMA RowsOfEvent ==
  ASSUME OrderInv, inOrder, NEW w \in EventWorkers, Bill!WebhookCommits(w)
  PROVE  LET i == handler[w].target
             ev == events[handler[w].event] IN
         /\ Len(rows') = Len(rows)
         /\ \A j \in 1..Len(rows) : j # i => rows'[j] = rows[j]
         /\ i \in 1..Len(rows) =>
              /\ ev.kind = "upsert" => rows'[i].sub = ev.sub /\ rows'[i].status = ev.status
              /\ ev.kind = "deleted" => rows'[i].sub = rows[i].sub /\ rows'[i].status = "canceled"
              /\ ev.kind \notin {"upsert", "deleted"} => rows'[i].sub = rows[i].sub
<1> DEFINE i == handler[w].target
           ev == events[handler[w].event]
           was == handler[w].read[i]
           new == Bill!Handled(was, ev)
           m == Bill!Merged(rows[i], was, new)
           Goal == /\ Len(rows') = Len(rows)
                   /\ \A j \in 1..Len(rows) : j # i => rows'[j] = rows[j]
                   /\ i \in 1..Len(rows) =>
                        /\ ev.kind = "upsert" =>
                             rows'[i].sub = ev.sub /\ rows'[i].status = ev.status
                        /\ ev.kind = "deleted" =>
                             rows'[i].sub = rows[i].sub /\ rows'[i].status = "canceled"
                        /\ ev.kind \notin {"upsert", "deleted"} => rows'[i].sub = rows[i].sub
<1> SUFFICES Goal
  OBVIOUS
<1>0. rows \in Seq(Bill!Row) /\ DOMAIN rows = 1..Len(rows)
  BY DEF OrderInv, BillTypes
<1>1. /\ ev \in Bill!Event
      /\ \/ rows' = rows /\ (i = 0 \/ ev.kind \in {"checkout", "paid", "failed"})
         \/ /\ i # 0 /\ i \in 1..Len(rows) /\ rows[i] \in Bill!Row /\ was \in Bill!Row
            /\ new \in Bill!Row /\ ev.kind \notin {"checkout", "paid", "failed"}
            /\ rows' = [rows EXCEPT ![i] = m]
  BY EventIsStored DEF OrderInv
<1>2. CASE rows' = rows /\ (i = 0 \/ ev.kind \in {"checkout", "paid", "failed"})
  <2> HIDE DEF ev
  <2>1. i \in 1..Len(rows) => i # 0
    OBVIOUS
  <2> HIDE DEF i
  <2> QED
    BY <1>2, <2>1
<1>3. CASE /\ i # 0 /\ i \in 1..Len(rows) /\ rows[i] \in Bill!Row /\ was \in Bill!Row
           /\ new \in Bill!Row /\ ev.kind \notin {"checkout", "paid", "failed"}
           /\ rows' = [rows EXCEPT ![i] = m]
  <2>1. TurnInOrder(handler[w])
    BY DEF OrderInv, InOrder, Bill!WebhookCommits
  <2>2. was.sub = rows[i].sub /\ was.status = rows[i].status
    BY <1>3, <2>1 DEF TurnInOrder
  <2>3. /\ ev.kind = "upsert" => new.sub = ev.sub /\ new.status = ev.status
        /\ ev.kind = "deleted" => new.sub = was.sub /\ new.status = "canceled"
        /\ ev.kind \notin {"upsert", "deleted"} => new.sub = was.sub
    <3> HIDE DEF was, ev
    <3>1. CASE ev.kind = "upsert"
      BY <1>3, <3>1 DEF Bill!Handled, Bill!Upserted, Bill!Row
    <3>2. CASE ev.kind = "deleted"
      BY <1>3, <3>2 DEF Bill!Handled, Bill!Row
    <3>3. CASE ev.kind = "payment"
      BY <1>3, <3>3 DEF Bill!Handled, Bill!Row
    <3>4. CASE ev.kind \notin {"upsert", "deleted", "payment"}
      BY <3>4 DEF Bill!Handled
    <3> QED
      BY <3>1, <3>2, <3>3, <3>4
  <2> HIDE DEF new, was
  <2>4. /\ m.status = IF new.status # was.status THEN new.status ELSE rows[i].status
        /\ m.sub = IF new.sub # was.sub THEN new.sub ELSE rows[i].sub
    BY <1>3, MergedSubscription
  <2> HIDE DEF m
  <2>5. m.status = new.status /\ m.sub = new.sub
    BY <2>2, <2>4
  <2> HIDE DEF i, ev
  <2>6. Len(rows') = Len(rows) /\ \A j \in 1..Len(rows) : rows'[j] = IF j = i THEN m ELSE rows[j]
    BY <1>0, <1>3
  <2> QED
    BY <1>3, <2>2, <2>3, <2>5, <2>6
<1> QED
  BY <1>1, <1>2, <1>3

LEMMA OrderWhenEventCommits ==
  ASSUME OrderInv, NEW w \in EventWorkers, Bill!WebhookCommits(w)
  PROVE  OrderInv'
<1> DEFINE i == handler[w].target
           e == handler[w].event
           ev == events[e]
           n == Len(events)
<1>1. /\ handler[w].pc = "read" /\ e # 0 /\ ~Bill!Refused(w)
      /\ handler' = [handler EXCEPT ![w] = Bill!Idle] /\ seen' = seen \cup {e}
      /\ UNCHANGED <<user, stripe, events, inOrder>>
  BY DEF Bill!WebhookCommits, Bill!Done
<1>2. BillTypes /\ BillTypes'
  BY EventIsStored DEF OrderInv
<1>3. /\ e \in Nat /\ e <= n /\ n \in Nat /\ i \in Nat /\ i <= Len(rows) /\ Len(rows) \in Nat
      /\ DOMAIN rows = 1..Len(rows) /\ DOMAIN rows' = 1..Len(rows')
  <2>1. Len(handler[w].read) \in Nat /\ Len(handler[w].read) <= Len(rows)
    BY <1>2 DEF BillTypes, Turn
  <2> QED
    BY <1>2, <2>1, EventBounds DEF BillTypes, Turn
<1>4. ASSUME inOrder PROVE RowsAreApart' /\ LastEventDecides'
  <2>1. InOrder /\ NewestIsStripes /\ TurnInOrder(handler[w])
    BY <1>1, <1>4 DEF OrderInv, InOrder
  <2>2. /\ Len(rows') = Len(rows)
        /\ \A j \in 1..Len(rows) : j # i => rows'[j] = rows[j]
        /\ i \in 1..Len(rows) =>
             /\ ev.kind = "upsert" => rows'[i].sub = ev.sub /\ rows'[i].status = ev.status
             /\ ev.kind = "deleted" => rows'[i].sub = rows[i].sub /\ rows'[i].status = "canceled"
             /\ ev.kind \notin {"upsert", "deleted"} => rows'[i].sub = rows[i].sub
    BY <1>4, RowsOfEvent
  <2>3. /\ \A earlier \in seen : earlier < e
        /\ ev.kind \in {"upsert", "deleted"} => \A j \in 1..Len(rows) :
             rows[j].sub = ev.sub => i # 0 /\ rows[i].sub = ev.sub
        /\ ev.kind = "upsert" /\ i = 0 => Len(rows) = 0
    BY <1>1, <2>1 DEF TurnInOrder
  <2>4. ev.kind = "upsert" /\ i # 0 => \A j \in 1..Len(rows) : j # i => rows[j].sub # ev.sub
    BY <1>1, <1>3 DEF Bill!Refused
  <2>5. RowsAreApart'
    <3> HIDE DEF i, ev
    <3>1. CASE ev.kind = "upsert" /\ i # 0
      BY <1>3, <2>1, <2>2, <2>4, <3>1 DEF InOrder, RowsAreApart
    <3>2. CASE ~(ev.kind = "upsert" /\ i # 0)
      <4>1. \A j \in 1..Len(rows) : rows'[j].sub = rows[j].sub
        BY <1>3, <2>2, <2>3, <3>2
      <4> QED
        BY <2>1, <2>2, <4>1 DEF InOrder, RowsAreApart
    <3> QED
      BY <3>1, <3>2
  <2>6. ASSUME n \in seen', ev.kind \in {"upsert", "deleted"}, NEW j \in 1..Len(rows), e = n,
               rows'[j].sub = ev.sub
        PROVE  rows'[j].status = stripe[ev.sub]
    <3>1. ev.sub \in Subs /\ stripe[ev.sub] = ev.status /\ (ev.kind = "deleted" => ev.status = "canceled")
      BY <1>1, <2>1, <2>6 DEF NewestIsStripes
    <3> HIDE DEF i, ev
    <3>2. j = i
      <4>1. CASE ev.kind = "upsert"
        BY <1>3, <2>2, <2>3, <2>4, <2>6, <4>1
      <4>2. CASE ev.kind = "deleted"
        <5>1. rows[j].sub = ev.sub
          BY <2>2, <2>6, <4>2
        <5>2. i \in 1..Len(rows) /\ rows[i].sub = ev.sub
          BY <1>3, <2>3, <4>2, <5>1
        <5> QED
          BY <2>1, <3>1, <5>1, <5>2, BillConstants DEF InOrder, RowsAreApart
      <4> QED
        BY <2>6, <4>1, <4>2
    <3> QED
      BY <2>2, <2>6, <3>1, <3>2
  <2>7. n \in seen' => e = n
    BY <1>1, <1>3, <2>3
  <2> QED
    BY <1>1, <1>3, <2>2, <2>5, <2>6, <2>7 DEF LastEventDecides, Bill!LastEventDecides
<1>5. inOrder => user' = "alive"
  BY <1>1 DEF OrderInv, InOrder
<1> HIDE DEF Bill!Idle
<1> QED
  BY <1>1, <1>2, <1>4, <1>5, OrderWhenOver

LEMMA OrderInvNext == OrderInv /\ [Next]_vars => OrderInv'
<1> SUFFICES ASSUME OrderInv, [Next]_vars PROVE OrderInv'
  OBVIOUS
<1>0. BillTypes /\ BillTypes'
  BY BillTypesNext DEF OrderInv
<1>1. CASE Bill!Next
  <2>1. ASSUME NEW w \in EventWorkers, Bill!WebhookFails(w) PROVE OrderInv'
    <3>1. /\ handler' = [handler EXCEPT ![w] = Bill!Idle]
          /\ UNCHANGED <<user, rows, stripe, events, seen, inOrder>>
      BY <2>1 DEF Bill!WebhookFails, Bill!RolledBack, Bill!Done
    <3> QED
      BY <1>0, <3>1, OrderStays
  <2>2. ASSUME Bill!SoftDelete PROVE OrderInv'
    <3>1. inOrder' = FALSE /\ UNCHANGED <<stripe, events>>
      BY <2>2 DEF Bill!SoftDelete
    <3> QED
      BY <1>0, <3>1 DEF OrderInv, NewestIsStripes, LastEventDecides, Bill!LastEventDecides
  <2>3. ASSUME NEW i \in DOMAIN rows, Bill!PeriodEnds(i) PROVE OrderInv'
    BY <1>0, <2>3, PeriodEndsOf, OrderStays
  <2> QED
    BY <1>1, <2>1, <2>2, <2>3, OrderAfterStripe, OrderWhenEventBegins, OrderWhenEventCommits,
       OrderWhenCallBegins, OrderWhenCallCommits DEF Bill!Next
<1>2. CASE UNCHANGED billing
  <2>1. UNCHANGED <<user, rows, stripe, events, seen, inOrder, handler>>
    BY <1>2 DEF billing
  <2> QED
    BY <1>0, <2>1, OrderStays
<1> QED
  BY <1>1, <1>2, StepOfEach

(* In whatever state the billing is: types, the newest event and Stripe,   *)
(* and, as long as all is in order, what the request in progress knows.    *)
THEOREM OrderInvariant == Spec => []OrderInv
<1>1. Init => OrderInv
  BY OrderInvInit DEF Init
<1> QED
  BY <1>1, OrderInvNext, PTL DEF Spec

(* Events handled one at a time, none after a later one, with repeats,     *)
(* refusals and retries: when the newest is committed, the row of its      *)
(* subscription has the status that Stripe has.                            *)
THEOREM NewestEventDecides == Spec => []LastEventDecides
<1>1. OrderInv => LastEventDecides
  BY DEF OrderInv
<1> QED
  BY <1>1, OrderInvariant, PTL

-----------------------------------------------------------------------------
(* EmailQueue: the jobs of a mail.                                         *)

LEMMA MailConstants ==
  /\ Mail!Jobs = Mails \X (0..Tries) /\ Tries \in Nat \ {0}
  /\ Mail!NoJob \notin Mail!Jobs /\ Mail!Off \notin Mail!Jobs
BY BackendParameters
   DEF BackendParameters, Mail!Parameters, Mail!Jobs, Mail!NoJob, Mail!Off

(* A job is in the list, or in the hands of a worker.                      *)
Waits(j) == \E i \in 1..Len(queue) : queue[i] = j
InHand(j) == \E w \in MailWorkers : hand[w] = j
Out(j) == Waits(j) \/ InHand(j)

(* A push has put the job in the list, and it is still there or delivered. *)
Pushed(j) == Out(j) \/ (sent[j] > 0 /\ j[2] # 0)

(* What is known of one job: it is delivered once and from then on nowhere *)
(* else, it was made by an attempt, the last one if that was answered, and *)
(* the service sends a mail itself only without an answer.                 *)
JobIsSound(j) ==
  /\ sent[j] <= 1
  /\ Out(j) => sent[j] = 0
  /\ Pushed(j) \/ j \in unclear => j[2] \in 1..tries[j[1]]
  /\ Pushed(j) /\ j \notin unclear => mail[j[1]] = "queued" /\ j[2] = tries[j[1]]
  /\ j[2] = 0 /\ sent[j] > 0 => mail[j[1]] = "done"

(* Each job is in one place, and sound.                                    *)
MailInv ==
  /\ Mail!TypeOK
  /\ \A i, j \in 1..Len(queue) : queue[i] = queue[j] => i = j
  /\ \A v, w \in MailWorkers : hand[v] \in Mail!Jobs /\ hand[v] = hand[w] => v = w
  /\ \A j \in Mail!Jobs : ~(Waits(j) /\ InHand(j))
  /\ \A m \in Mails : mail[m] = "new" => tries[m] < Tries
  /\ \A j \in Mail!Jobs : JobIsSound(j)

LEMMA MailTypes ==
  ASSUME MailInv
  PROVE  /\ mail \in [Mails -> {"new", "queued", "direct", "done"}]
         /\ tries \in [Mails -> 0..Tries]
         /\ queue \in Seq(Mail!Jobs)
         /\ hand \in [MailWorkers -> Mail!Jobs \cup {Mail!NoJob, Mail!Off}]
         /\ sent \in [Mail!Jobs -> Nat]
         /\ unclear \subseteq Mail!Jobs
BY DEF MailInv, Mail!TypeOK

LEMMA MailInvInit == Mail!Init => MailInv
<1> SUFFICES ASSUME Mail!Init PROVE MailInv
  OBVIOUS
<1>1. /\ mail = [m \in Mails |-> "new"] /\ tries = [m \in Mails |-> 0] /\ queue = <<>>
      /\ unclear = {} /\ hand = [w \in MailWorkers |-> Mail!NoJob]
      /\ sent = [j \in Mail!Jobs |-> 0]
  BY DEF Mail!Init
<1>2. Mail!TypeOK
  BY <1>1, MailConstants DEF Mail!TypeOK
<1>3. Len(queue) = 0
  BY <1>1
<1>4. \A v \in MailWorkers : hand[v] \notin Mail!Jobs
  BY <1>1, MailConstants
<1>5. \A j \in Mail!Jobs : ~Waits(j) /\ ~InHand(j)
  BY <1>3, <1>4 DEF Waits, InHand
<1>6. \A j \in Mail!Jobs : JobIsSound(j)
  BY <1>1, <1>5 DEF JobIsSound, Pushed, Out
<1>7. \A m \in Mails : tries[m] < Tries
  BY <1>1, MailConstants
<1> QED
  BY <1>2, <1>3, <1>4, <1>5, <1>6, <1>7 DEF MailInv

(* A job that an action does not touch, or only takes away, stays sound,   *)
(* whatever becomes of others of its mail, while the mail is not queued.   *)
LEMMA StaysSound ==
  ASSUME MailInv, NEW j \in Mail!Jobs,
         Out(j)' => Out(j), sent'[j] = sent[j], j \in unclear' <=> j \in unclear,
         \/ mail'[j[1]] = mail[j[1]] /\ tries'[j[1]] = tries[j[1]]
         \/ /\ mail[j[1]] \in {"new", "direct"}
            /\ tries[j[1]] \in Nat /\ tries'[j[1]] \in Nat /\ tries[j[1]] <= tries'[j[1]]
  PROVE  JobIsSound(j)'
<1>1. JobIsSound(j) /\ (Pushed(j)' => Pushed(j))
  BY DEF MailInv, Pushed
<1>2. CASE mail'[j[1]] = mail[j[1]] /\ tries'[j[1]] = tries[j[1]]
  BY <1>1, <1>2 DEF JobIsSound
<1>3. CASE /\ mail[j[1]] \in {"new", "direct"}
           /\ tries[j[1]] \in Nat /\ tries'[j[1]] \in Nat /\ tries[j[1]] <= tries'[j[1]]
  <2>1. ~(Pushed(j) /\ j \notin unclear) /\ ~(j[2] = 0 /\ sent[j] > 0)
    BY <1>1, <1>3 DEF JobIsSound
  <2>2. Pushed(j)' \/ j \in unclear' => j[2] \in 1..tries'[j[1]]
    BY <1>1, <1>3 DEF JobIsSound
  <2> QED
    BY <1>1, <2>1, <2>2 DEF JobIsSound
<1> QED
  BY <1>2, <1>3

(* An attempt of a push: its job was nowhere before.                       *)
LEMMA NewJob ==
  ASSUME MailInv, NEW m \in Mails, Mail!Attempt(m)
  PROVE  /\ Mail!Job(m) \in Mail!Jobs /\ Mail!Job(m) = <<m, tries[m] + 1>>
         /\ ~Out(Mail!Job(m)) /\ sent[Mail!Job(m)] = 0 /\ Mail!Job(m) \notin unclear
         /\ tries' \in [Mails -> 0..Tries] /\ tries'[m] = tries[m] + 1
         /\ \A n \in Mails \ {m} : tries'[n] = tries[n]
         /\ mail[m] = "new" /\ tries[m] \in Nat /\ tries[m] < Tries
<1> DEFINE j == Mail!Job(m)
<1>1. /\ tries \in [Mails -> 0..Tries] /\ mail[m] = "new" /\ tries[m] < Tries
      /\ tries' = [tries EXCEPT ![m] = @ + 1]
  BY MailTypes DEF MailInv, Mail!Attempt
<1>2. tries[m] \in Nat /\ tries[m] + 1 \in 0..Tries
  BY <1>1, MailConstants
<1>3. j = <<m, tries[m] + 1>> /\ j[1] = m /\ j[2] = tries[m] + 1
  BY DEF Mail!Job
<1>4. j \in Mail!Jobs
  BY <1>2, <1>3, MailConstants
<1> HIDE DEF j
<1>5. JobIsSound(j) /\ sent[j] \in Nat
  BY <1>4, MailTypes DEF MailInv
<1>6. j[2] \notin 1..tries[j[1]] /\ j[2] # 0
  BY <1>2, <1>3
<1>7. ~Pushed(j) /\ j \notin unclear
  BY <1>5, <1>6 DEF JobIsSound
<1>8. ~Out(j) /\ sent[j] = 0
  BY <1>5, <1>6, <1>7 DEF Pushed
<1> QED
  BY <1>1, <1>2, <1>3, <1>4, <1>7, <1>8 DEF j

(* What the end of the list takes in.                                      *)
LEMMA JobAppended ==
  ASSUME MailInv, NEW j \in Mail!Jobs, ~Out(j), queue' = Append(queue, j), hand' = hand
  PROVE  /\ queue' \in Seq(Mail!Jobs)
         /\ \A i, k \in 1..Len(queue') : queue'[i] = queue'[k] => i = k
         /\ \A n \in Mail!Jobs : ~(Waits(n)' /\ InHand(n)')
         /\ \A n \in Mail!Jobs \ {j} : Out(n)' <=> Out(n)
<1>1. /\ queue \in Seq(Mail!Jobs) /\ queue' \in Seq(Mail!Jobs)
      /\ Len(queue') = Len(queue) + 1 /\ queue'[Len(queue) + 1] = j
      /\ \A i \in 1..Len(queue) : queue'[i] = queue[i]
  BY MailTypes
<1>2. \A i \in 1..Len(queue) : queue[i] # j
  BY DEF Out, Waits
<1>3. 1..Len(queue') = 1..Len(queue) \cup {Len(queue) + 1} /\ Len(queue) \in Nat
  BY <1>1
<1>4. \A i, k \in 1..Len(queue') : queue'[i] = queue'[k] => i = k
  BY <1>1, <1>2, <1>3 DEF MailInv
<1>5. \A n \in Mail!Jobs : Waits(n)' <=> Waits(n) \/ n = j
  BY <1>1, <1>3 DEF Waits
<1>6. \A n \in Mail!Jobs : InHand(n)' <=> InHand(n)
  BY DEF InHand
<1> QED
  BY <1>1, <1>4, <1>5, <1>6 DEF MailInv, Out

LEMMA PushKeeps ==
  ASSUME MailInv, NEW m \in Mails, Mail!Push(m)
  PROVE  MailInv'
<1> SUFFICES ASSUME NEW j \in Mail!Jobs, j = Mail!Job(m)
             PROVE  MailInv'
  BY NewJob DEF Mail!Push
<1>1. /\ Mail!Attempt(m) /\ queue' = Append(queue, j) /\ mail' = [mail EXCEPT ![m] = "queued"]
      /\ UNCHANGED <<hand, sent, unclear>>
  BY DEF Mail!Push
<1>2. /\ j \in Mail!Jobs /\ j[1] = m /\ j[2] = tries'[m] /\ ~Out(j) /\ sent[j] = 0
      /\ j \notin unclear /\ mail[m] = "new" /\ tries[m] \in Nat /\ tries'[m] = tries[m] + 1
      /\ tries' \in [Mails -> 0..Tries] /\ \A n \in Mails \ {m} : tries'[n] = tries[n]
  BY <1>1, NewJob
<1>3. /\ queue' \in Seq(Mail!Jobs)
      /\ \A i, k \in 1..Len(queue') : queue'[i] = queue'[k] => i = k
      /\ \A n \in Mail!Jobs : ~(Waits(n)' /\ InHand(n)')
      /\ \A n \in Mail!Jobs \ {j} : Out(n)' <=> Out(n)
  BY <1>1, <1>2, JobAppended
<1>4. /\ mail' \in [Mails -> {"new", "queued", "direct", "done"}] /\ mail'[m] = "queued"
      /\ \A n \in Mails \ {m} : mail'[n] = mail[n]
  BY <1>1, MailTypes
<1>5. \A n \in Mail!Jobs \ {j} : JobIsSound(n)'
  <2> SUFFICES ASSUME NEW n \in Mail!Jobs \ {j} PROVE JobIsSound(n)'
    OBVIOUS
  <2>1. n[1] \in Mails /\ sent'[n] = sent[n] /\ (n \in unclear' <=> n \in unclear) /\ (Out(n)' => Out(n))
    BY <1>1, <1>3, MailConstants
  <2>2. CASE n[1] # m
    BY <1>2, <1>4, <2>1, <2>2, StaysSound
  <2>3. CASE n[1] = m
    BY <1>2, <2>1, <2>3, StaysSound
  <2> QED
    BY <2>2, <2>3
<1>6. JobIsSound(j)'
  BY <1>1, <1>2, <1>4 DEF JobIsSound
<1>7. \A n \in Mails : mail'[n] = "new" => tries'[n] < Tries
  BY <1>2, <1>4 DEF MailInv
<1>8. /\ sent' \in [Mail!Jobs -> Nat] /\ unclear' \subseteq Mail!Jobs
      /\ hand' \in [MailWorkers -> Mail!Jobs \cup {Mail!NoJob, Mail!Off}]
      /\ \A v, w \in MailWorkers : hand'[v] \in Mail!Jobs /\ hand'[v] = hand'[w] => v = w
  BY <1>1, MailTypes DEF MailInv
<1>9. Mail!TypeOK'
  BY <1>2, <1>3, <1>4, <1>8 DEF Mail!TypeOK
<1> QED
  BY <1>3, <1>5, <1>6, <1>7, <1>8, <1>9 DEF MailInv

LEMMA PushFailsKeeps ==
  ASSUME MailInv, NEW m \in Mails, Mail!PushFails(m)
  PROVE  MailInv'
<1> SUFFICES ASSUME NEW j \in Mail!Jobs, j = Mail!Job(m)
             PROVE  MailInv'
  BY NewJob DEF Mail!PushFails
<1>1. /\ Mail!Attempt(m) /\ UNCHANGED <<hand, sent>>
      /\ \/ tries[m] + 1 < Tries /\ UNCHANGED mail
         \/ mail' = [mail EXCEPT ![m] = "direct"]
      /\ \/ UNCHANGED <<queue, unclear>>
         \/ queue' = Append(queue, j) /\ unclear' = unclear \cup {j}
  BY DEF Mail!PushFails, Mail!MayRepeat
<1>2. /\ j \in Mail!Jobs /\ j[1] = m /\ j[2] = tries'[m] /\ ~Out(j) /\ sent[j] = 0
      /\ j \notin unclear /\ mail[m] = "new" /\ tries[m] \in Nat /\ tries'[m] = tries[m] + 1
      /\ tries' \in [Mails -> 0..Tries] /\ \A n \in Mails \ {m} : tries'[n] = tries[n]
  BY <1>1, NewJob
<1>3. /\ queue' \in Seq(Mail!Jobs)
      /\ \A i, k \in 1..Len(queue') : queue'[i] = queue'[k] => i = k
      /\ \A n \in Mail!Jobs : ~(Waits(n)' /\ InHand(n)')
      /\ \A n \in Mail!Jobs \ {j} : Out(n)' <=> Out(n)
  <2>1. CASE queue' = Append(queue, j)
    BY <1>1, <1>2, <2>1, JobAppended
  <2>2. CASE UNCHANGED queue
    BY <1>1, <2>2, MailTypes DEF MailInv, Waits, InHand, Out
  <2> QED
    BY <1>1, <2>1, <2>2
<1>4. /\ mail' \in [Mails -> {"new", "queued", "direct", "done"}]
      /\ mail'[m] = "new" => tries'[m] < Tries
      /\ \A n \in Mails \ {m} : mail'[n] = mail[n]
  <2>1. CASE tries[m] + 1 < Tries /\ UNCHANGED mail
    BY <1>2, <2>1, MailTypes
  <2>2. CASE mail' = [mail EXCEPT ![m] = "direct"]
    BY <2>2, MailTypes
  <2> QED
    BY <1>1, <2>1, <2>2
<1>5. \A n \in Mail!Jobs \ {j} : JobIsSound(n)'
  <2> SUFFICES ASSUME NEW n \in Mail!Jobs \ {j} PROVE JobIsSound(n)'
    OBVIOUS
  <2>1. n[1] \in Mails /\ sent'[n] = sent[n] /\ (n \in unclear' <=> n \in unclear) /\ (Out(n)' => Out(n))
    BY <1>1, <1>3, MailConstants
  <2>2. CASE n[1] # m
    BY <1>2, <1>4, <2>1, <2>2, StaysSound
  <2>3. CASE n[1] = m
    BY <1>2, <2>1, <2>3, StaysSound
  <2> QED
    BY <2>2, <2>3
<1>6. JobIsSound(j)'
  <2>1. sent'[j] = 0
    BY <1>1, <1>2
  <2>2. j \in unclear' \/ ~Pushed(j)'
    <3>1. CASE UNCHANGED <<queue, unclear>>
      BY <1>1, <1>2, <2>1, <3>1 DEF Pushed, Out, Waits, InHand
    <3>2. CASE unclear' = unclear \cup {j}
      BY <3>2
    <3> QED
      BY <1>1, <3>1, <3>2
  <2>3. j[2] \in 1..tries'[j[1]]
    BY <1>2
  <2> QED
    BY <2>1, <2>2, <2>3 DEF JobIsSound
<1>7. \A n \in Mails : mail'[n] = "new" => tries'[n] < Tries
  BY <1>2, <1>4 DEF MailInv
<1>8. /\ sent' \in [Mail!Jobs -> Nat] /\ unclear' \subseteq Mail!Jobs
      /\ hand' \in [MailWorkers -> Mail!Jobs \cup {Mail!NoJob, Mail!Off}]
      /\ \A v, w \in MailWorkers : hand'[v] \in Mail!Jobs /\ hand'[v] = hand'[w] => v = w
  BY <1>1, <1>2, MailTypes DEF MailInv
<1>9. Mail!TypeOK'
  BY <1>2, <1>3, <1>4, <1>8 DEF Mail!TypeOK
<1> QED
  BY <1>3, <1>5, <1>6, <1>7, <1>8, <1>9 DEF MailInv

(* The list without its first job.                                         *)
LEMMA FirstTaken ==
  ASSUME MailInv, queue # <<>>, queue' = Tail(queue)
  PROVE  /\ queue' \in Seq(Mail!Jobs) /\ queue[1] \in Mail!Jobs
         /\ \A i, k \in 1..Len(queue') : queue'[i] = queue'[k] => i = k
         /\ \A n \in Mail!Jobs : Waits(n)' <=> Waits(n) /\ n # queue[1]
         /\ Waits(queue[1]) /\ ~InHand(queue[1])
<1>1. /\ queue' \in Seq(Mail!Jobs) /\ queue[1] \in Mail!Jobs /\ 1 \in 1..Len(queue)
      /\ Len(queue) \in Nat /\ Len(queue') = Len(queue) - 1
      /\ \A i \in 1..Len(queue') : queue'[i] = queue[i + 1] /\ i + 1 \in 1..Len(queue)
  BY MailTypes
<1>2. \A i, j \in 1..Len(queue') : queue'[i] = queue'[j] => i = j
  <2> SUFFICES ASSUME NEW i \in 1..Len(queue'), NEW j \in 1..Len(queue'), queue'[i] = queue'[j]
               PROVE  i = j
    OBVIOUS
  <2>1. i + 1 = j + 1
    BY <1>1 DEF MailInv
  <2> QED
    BY <2>1
<1>3. \A n \in Mail!Jobs : Waits(n)' <=> Waits(n) /\ n # queue[1]
  <2> SUFFICES ASSUME NEW n \in Mail!Jobs PROVE Waits(n)' <=> Waits(n) /\ n # queue[1]
    OBVIOUS
  <2>1. ASSUME Waits(n)' PROVE Waits(n) /\ n # queue[1]
    <3>1. PICK i \in 1..Len(queue') : queue'[i] = n
      BY <2>1 DEF Waits
    <3>2. i + 1 \in 1..Len(queue) /\ queue[i + 1] = n /\ i + 1 # 1
      BY <1>1, <3>1
    <3> QED
      BY <1>1, <3>2 DEF Waits, MailInv
  <2>2. ASSUME Waits(n), n # queue[1] PROVE Waits(n)'
    <3>1. PICK i \in 1..Len(queue) : queue[i] = n
      BY <2>2 DEF Waits
    <3>2. i # 1
      BY <2>2, <3>1
    <3>3. i - 1 \in 1..Len(queue') /\ queue'[i - 1] = n
      BY <1>1, <3>1, <3>2
    <3> QED
      BY <3>3 DEF Waits
  <2> QED
    BY <2>1, <2>2
<1>4. Waits(queue[1]) /\ ~InHand(queue[1])
  BY <1>1 DEF MailInv, Waits
<1> QED
  BY <1>1, <1>2, <1>3, <1>4

LEMMA PopKeeps ==
  ASSUME MailInv, NEW w \in MailWorkers, Mail!Pop(w) \/ Mail!PopFails(w)
  PROVE  MailInv'
<1>1. /\ queue # <<>> /\ hand[w] = Mail!NoJob /\ queue' = Tail(queue)
      /\ hand' = [hand EXCEPT ![w] = queue[1]] \/ UNCHANGED hand
      /\ UNCHANGED <<mail, tries, sent, unclear>>
  BY DEF Mail!Pop, Mail!PopFails, Mail!Popped
<1>2. /\ queue' \in Seq(Mail!Jobs) /\ queue[1] \in Mail!Jobs
      /\ \A i, k \in 1..Len(queue') : queue'[i] = queue'[k] => i = k
      /\ \A n \in Mail!Jobs : Waits(n)' <=> Waits(n) /\ n # queue[1]
      /\ Waits(queue[1]) /\ ~InHand(queue[1])
  BY <1>1, FirstTaken
<1>3. /\ hand' \in [MailWorkers -> Mail!Jobs \cup {Mail!NoJob, Mail!Off}]
      /\ \A v \in MailWorkers : hand'[v] = hand[v] \/ (v = w /\ hand'[v] = queue[1])
  BY <1>1, <1>2, MailTypes
<1>4. \A n \in Mail!Jobs : InHand(n)' => InHand(n) \/ n = queue[1]
  BY <1>3 DEF InHand
<1>5. \A v, u \in MailWorkers : hand'[v] \in Mail!Jobs /\ hand'[v] = hand'[u] => v = u
  BY <1>2, <1>3 DEF MailInv, InHand
<1>6. \A n \in Mail!Jobs : (Out(n)' => Out(n)) /\ ~(Waits(n)' /\ InHand(n)')
  BY <1>2, <1>4 DEF MailInv, Out
<1>7. \A n \in Mail!Jobs : JobIsSound(n)'
  BY <1>1, <1>6, StaysSound
<1> QED
  BY <1>1, <1>2, <1>3, <1>5, <1>6, <1>7 DEF MailInv, Mail!TypeOK

(* A worker is rid of its job: the mail was sent, or it was not.           *)
LEMMA HandKeeps ==
  ASSUME MailInv, NEW w \in MailWorkers, NEW l \in {Mail!NoJob, Mail!Off},
         hand' = [hand EXCEPT ![w] = l], UNCHANGED <<mail, tries, queue, unclear>>,
         \/ UNCHANGED sent
         \/ hand[w] \in Mail!Jobs /\ sent' = [sent EXCEPT ![hand[w]] = @ + 1]
  PROVE  MailInv'
<1>0. /\ sent \in [Mail!Jobs -> Nat] /\ l \notin Mail!Jobs
      /\ hand \in [MailWorkers -> Mail!Jobs \cup {Mail!NoJob, Mail!Off}]
  BY MailConstants, MailTypes
<1>1. /\ hand' \in [MailWorkers -> Mail!Jobs \cup {Mail!NoJob, Mail!Off}]
      /\ \A v \in MailWorkers : hand'[v] = IF v = w THEN l ELSE hand[v]
  BY <1>0
<1>2. /\ \A v, u \in MailWorkers : hand'[v] \in Mail!Jobs /\ hand'[v] = hand'[u] => v = u
      /\ \A n \in Mail!Jobs : InHand(n)' => InHand(n) /\ hand[w] # n
  BY <1>0, <1>1 DEF MailInv, InHand
<1>3. \A n \in Mail!Jobs : /\ Waits(n)' <=> Waits(n)
                           /\ Out(n)' => Out(n)
                           /\ ~(Waits(n)' /\ InHand(n)')
  BY <1>2 DEF MailInv, Waits, Out
<1>4. sent' \in [Mail!Jobs -> Nat] /\ \A n \in Mail!Jobs : JobIsSound(n)'
  <2>1. CASE UNCHANGED sent
    BY <1>0, <1>3, <2>1, StaysSound
  <2>2. CASE hand[w] \in Mail!Jobs /\ sent' = [sent EXCEPT ![hand[w]] = @ + 1]
    <3>1. PICK j \in Mail!Jobs : j = hand[w]
      BY <2>2
    <3>2. sent' \in [Mail!Jobs -> Nat] /\ sent'[j] = sent[j] + 1
      BY <1>0, <2>2, <3>1
    <3>3. \A n \in Mail!Jobs \ {j} : sent'[n] = sent[n]
      BY <1>0, <2>2, <3>1
    <3>4. Out(j) /\ ~Out(j)'
      BY <1>2, <1>3, <3>1 DEF MailInv, Out, InHand
    <3>5. JobIsSound(j) /\ sent[j] = 0 /\ Pushed(j)
      BY <3>4 DEF MailInv, JobIsSound, Pushed
    <3>6. sent'[j] = 1 /\ (j[2] = 0 => FALSE)
      <4>1. j[2] \in 1..tries[j[1]] /\ tries[j[1]] \in Nat
        BY <3>5, MailTypes, MailConstants DEF JobIsSound
      <4> QED
        BY <3>2, <3>5, <4>1
    <3>7. JobIsSound(j)'
      BY <3>4, <3>5, <3>6 DEF JobIsSound
    <3>8. \A n \in Mail!Jobs \ {j} : JobIsSound(n)'
      BY <1>3, <3>3, StaysSound
    <3> QED
      BY <3>2, <3>7, <3>8
  <2> QED
    BY <2>1, <2>2
<1> QED
  BY <1>1, <1>2, <1>3, <1>4 DEF MailInv, Mail!TypeOK

LEMMA SendDirectKeeps ==
  ASSUME MailInv, NEW m \in Mails, Mail!SendDirect(m)
  PROVE  MailInv'
<1> DEFINE j == <<m, 0>>
<1>1. /\ mail[m] = "direct" /\ mail' = [mail EXCEPT ![m] = "done"]
      /\ UNCHANGED <<tries, queue, hand, unclear>>
      /\ UNCHANGED sent \/ sent' = [sent EXCEPT ![j] = @ + 1]
  BY DEF Mail!SendDirect
<1>2. j \in Mail!Jobs /\ j[1] = m /\ j[2] = 0
  BY MailConstants
<1> HIDE DEF j
<1>3. \A n \in Mail!Jobs : (Waits(n)' <=> Waits(n)) /\ (InHand(n)' <=> InHand(n)) /\ (Out(n)' <=> Out(n))
  BY <1>1 DEF Waits, InHand, Out
<1>4. /\ mail' \in [Mails -> {"new", "queued", "direct", "done"}] /\ mail'[m] = "done"
      /\ \A n \in Mails \ {m} : mail'[n] = mail[n]
  BY <1>1, MailTypes
<1>5. /\ sent' \in [Mail!Jobs -> Nat] /\ sent'[j] \in {sent[j], sent[j] + 1}
      /\ \A n \in Mail!Jobs \ {j} : sent'[n] = sent[n]
  BY <1>1, <1>2, MailTypes
<1>6. \A n \in Mail!Jobs \ {j} : JobIsSound(n)'
  <2> SUFFICES ASSUME NEW n \in Mail!Jobs \ {j} PROVE JobIsSound(n)'
    OBVIOUS
  <2>1. n[1] \in Mails /\ tries[n[1]] \in Nat
    BY MailConstants, MailTypes
  <2>2. CASE n[1] = m
    BY <1>1, <1>3, <1>5, <2>1, <2>2, StaysSound
  <2>3. CASE n[1] # m
    BY <1>1, <1>3, <1>4, <1>5, <2>1, <2>3, StaysSound
  <2> QED
    BY <2>2, <2>3
<1>7. JobIsSound(j)'
  <2>1. JobIsSound(j) /\ sent[j] \in Nat
    BY <1>2, MailTypes DEF MailInv
  <2>2. sent[j] = 0
    BY <1>1, <1>2, <2>1 DEF JobIsSound
  <2>3. ~Pushed(j) /\ j \notin unclear
    BY <1>1, <1>2, <2>1 DEF JobIsSound
  <2>4. ~Out(j)' /\ ~Pushed(j)' /\ j \notin unclear'
    BY <1>1, <1>2, <1>3, <2>3 DEF Pushed
  <2> QED
    BY <1>2, <1>4, <1>5, <2>2, <2>4 DEF JobIsSound
<1>8. \A n \in Mails : mail'[n] = "new" => tries'[n] < Tries
  BY <1>1, <1>4 DEF MailInv
<1>9. /\ \A i, k \in 1..Len(queue') : queue'[i] = queue'[k] => i = k
      /\ \A v, w \in MailWorkers : hand'[v] \in Mail!Jobs /\ hand'[v] = hand'[w] => v = w
      /\ \A n \in Mail!Jobs : ~(Waits(n)' /\ InHand(n)')
  BY <1>1, <1>3 DEF MailInv
<1> QED
  BY <1>1, <1>4, <1>5, <1>6, <1>7, <1>8, <1>9, MailTypes DEF MailInv, Mail!TypeOK

LEMMA MailInvNext == MailInv /\ [Next]_vars => MailInv'
<1> SUFFICES ASSUME MailInv, [Next]_vars PROVE MailInv'
  OBVIOUS
<1>1. ASSUME NEW w \in MailWorkers,
             \/ Mail!Skip(w) \/ Mail!Deliver(w) \/ Mail!DeliverFails(w)
             \/ Mail!Dies(w) \/ Mail!Restart(w)
      PROVE  MailInv'
  BY <1>1, HandKeeps
     DEF Mail!Skip, Mail!Deliver, Mail!DeliverFails, Mail!AfterFailure, Mail!Dies,
         Mail!Restart, Mail!Readable
<1>2. CASE UNCHANGED email
  BY <1>2 DEF email, MailInv, Mail!TypeOK, Waits, InHand, Out, Pushed, JobIsSound
<1> QED
  BY <1>1, <1>2, PushKeeps, PushFailsKeeps, SendDirectKeeps, PopKeeps, StepOfEach DEF Mail!Next

(* Each job is in one place, waiting, in a worker's hands or delivered,    *)
(* however workers die and restart and however often the client pushes.    *)
THEOREM MailInvariant == Spec => []MailInv
<1>1. Init => MailInv
  BY MailInvInit DEF Init
<1> QED
  BY <1>1, MailInvNext, PTL DEF Spec

(* Nobody gets a mail twice, whatever the provider, any number of workers  *)
(* and Redis do, but for LPUSHs that were done and not answered: of the    *)
(* others, the mail that a service sends itself included, one is delivered.*)
THEOREM MailsOnce == Spec => []TwiceOnlyIfUnclear
<1>1. MailInv => TwiceOnlyIfUnclear
  <2> SUFFICES ASSUME MailInv PROVE TwiceOnlyIfUnclear
    OBVIOUS
  <2>1. \A j \in Mail!Jobs : sent[j] <= 1
    BY DEF MailInv, JobIsSound
  <2>2. ASSUME NEW i \in Mail!Jobs \ unclear, NEW j \in Mail!Jobs \ unclear,
               i[1] = j[1], sent[i] > 0, sent[j] > 0
        PROVE  i = j
    <3>1. JobIsSound(i) /\ JobIsSound(j)
      BY DEF MailInv
    <3>2. i[2] = j[2]
      BY <2>2, <3>1 DEF JobIsSound, Pushed
    <3> QED
      BY <2>2, <3>2, MailConstants
  <2> QED
    BY <2>1, <2>2 DEF TwiceOnlyIfUnclear, Mail!TwiceOnlyIfUnclear
<1> QED
  BY <1>1, MailInvariant, PTL
=============================================================================
