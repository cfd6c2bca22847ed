-------------------------------- MODULE Reports --------------------------------
(***************************************************************************)
(* What the trading engine reports to the backend: the client that signs   *)
(* and posts (trading-engine/live/internal_client.py), the network, and    *)
(* the handlers that verify and store (backend/app/api/internal.py,        *)
(* services/oms_client.py, schemas/internal.py), next to a user who kills  *)
(* the instance that the reports are about.                                *)
(*                                                                         *)
(* A post may be lost, delayed, overtaken and delivered again.  A handler  *)
(* verifies it, reads the instance's row, changes columns of it and        *)
(* commits; the commit writes the columns that differ from what was read.  *)
(* Trades and signals are only ever inserted.                              *)
(*                                                                         *)
(* Besides the engine, as its client is written, there are peers that post *)
(* what the backend asks for, signed in the canonical or the legacy way.   *)
(* Left out: prices and reasons, posts about instances there are not, and  *)
(* the list of trusted addresses, which only logs.                         *)
(***************************************************************************)
EXTENDS Naturals, FiniteSets

CONSTANTS Workers,   \* handlers at a time
          Configs,   \* [base, secret]: the path at the end of BACKEND_INTERNAL_URL, and
                     \* whether INTERNAL_API_SECRET is set
          Skew,      \* max_skew_sec
          MaxPosts, MaxCopies, MaxTime   \* bounds: posts, rows of one post, the clock

Parameters ==
  /\ \A c \in Configs : c.base \in STRING /\ c.secret \in BOOLEAN
  /\ {Skew, MaxPosts, MaxCopies, MaxTime} \subseteq Nat
  /\ IsFiniteSet(Workers)

Kinds == {"signal", "trade", "health"}
Peers == {"engine", "canonical", "legacy"}
Times == 0 .. MaxTime

\* The columns that reports and kills write; last_signal_at is also the last heartbeat.
Row == [status : {"live", "killed"}, kill_switch_armed : BOOLEAN,
        daily_loss_today_cents : 0 .. 1, last_signal_at : Times]

\* loss is of a health report, open of a trade; the engine sends neither.
Post == [n : 1 .. MaxPosts, kind : Kinds, from : Peers, ts : Times,
         loss : 0 .. 1, open : BOOLEAN]

Idle == [n |-> 0]
Handler == [n : 0 .. MaxPosts, read : Row, object : Row]

VARIABLES
  clock,   \* of all processes
  config,  \* the one of Configs that was deployed
  row,     \* the instance's row, as committed
  stored,  \* [1 .. MaxPosts -> the rows of signals or trades a post has left]
  posts,   \* what was ever posted; what is lost is not delivered any more
  work     \* [Workers -> what a handler has read and changed, or Idle]

vars == <<clock, config, row, stored, posts, work>>

TypeOK ==
  /\ clock \in Times /\ config \in Configs /\ row \in Row
  /\ stored \in [1 .. MaxPosts -> 0 .. MaxCopies] /\ posts \subseteq Post
  /\ work \in [Workers -> Handler \cup {Idle}]

Init ==
  /\ clock = 0 /\ config \in Configs
  /\ row = [status |-> "live", kill_switch_armed |-> TRUE,
            daily_loss_today_cents |-> 0, last_signal_at |-> 0]
  /\ stored = [n \in 1 .. MaxPosts |-> 0] /\ posts = {}
  /\ work = [w \in Workers |-> Idle]

-----------------------------------------------------------------------------
(***************************************************************************)
(* A post                                                                  *)
(***************************************************************************)

\* Fields: those emit_signal, emit_trade and emit_health put in, and those the schemas have
\* no default for.
EngineSends(kind) ==
  CASE kind = "signal" -> {"strategy_instance_id", "symbol", "timeframe", "direction", "entry",
                           "sl", "tp", "reason", "ts"}
    [] kind = "trade"  -> {"strategy_instance_id", "broker_account_id", "ticket", "symbol",
                           "side", "lot", "fill_price", "sl", "tp", "pnl", "opened_at",
                           "closed_at", "comment"}
    [] kind = "health" -> {"strategy_instance_id", "status", "details", "ts"}

Required(kind) ==
  CASE kind = "signal" -> {"strategy_instance_id", "ts", "direction", "price"}
    [] kind = "trade"  -> {"strategy_instance_id", "broker_account_id", "symbol", "side",
                           "lot_size", "entry_price", "entry_at", "status"}
    [] kind = "health" -> {"strategy_instance_id", "status", "heartbeat_at"}

Parses(p) == Required(p.kind) \subseteq IF p.from = "engine" THEN EngineSends(p.kind)
                                                            ELSE Required(p.kind)

\* Where api_router mounts the handlers; _post puts the base before the path it has signed.
Mount == "/api/v1"
PathOf(p)   == IF p.from = "engine" THEN config.base ELSE Mount
SignedIn(p) == IF p.from = "engine" THEN "" ELSE Mount

\* verify_canonical: old posts are refused, and so is another path; verify_signature, of the
\* body alone, knows neither.
SignatureHolds(p) ==
  \/ ~config.secret
  \/ p.from = "legacy"
  \/ SignedIn(p) = PathOf(p) /\ clock - p.ts <= Skew

Accepted(p) == PathOf(p) = Mount /\ SignatureHolds(p) /\ Parses(p)

Send(kind, from, loss, open) ==
  /\ Cardinality(posts) < MaxPosts
  /\ loss # 0 => kind = "health" /\ from # "engine"
  /\ ~open => kind = "trade" /\ from # "engine"
  /\ posts' = posts \cup {[n |-> Cardinality(posts) + 1, kind |-> kind, from |-> from,
                           ts |-> clock, loss |-> loss, open |-> open]}
  /\ UNCHANGED <<clock, config, row, stored, work>>

-----------------------------------------------------------------------------
(***************************************************************************)
(* The handlers                                                            *)
(***************************************************************************)

\* What internal_signal, internal_trade and internal_health make of the row they read.
Touched(p, r) ==
  CASE p.kind = "signal" -> [r EXCEPT !.last_signal_at = p.ts]
    [] p.kind = "trade"  -> r
    [] p.kind = "health" -> [r EXCEPT !.daily_loss_today_cents = p.loss,
                                      !.kill_switch_armed = TRUE,   \* the schema's default
                                      !.last_signal_at = p.ts]

\* Rows of a post, stored or about to be.
Copies(n) == stored[n] + Cardinality({w \in Workers : work[w].n = n})

\* A post arrives, for the first time or again, and passes the checks.
Receive(w, p) ==
  /\ work[w] = Idle /\ Accepted(p) /\ Copies(p.n) < MaxCopies
  /\ work' = [work EXCEPT ![w] = [n |-> p.n, read |-> row, object |-> Touched(p, row)]]
  /\ UNCHANGED <<clock, config, row, stored, posts>>

\* kill_instance.
BeginKill(w) ==
  /\ work[w] = Idle
  /\ work' = [work EXCEPT ![w] = [n |-> 0, read |-> row,
                object |-> [row EXCEPT !.status = "killed", !.kill_switch_armed = FALSE]]]
  /\ UNCHANGED <<clock, config, row, stored, posts>>

\* Slip: a commit writes the row as the session has it.
MergedWhole(current, read, object) == object

\* The flush: a column that does not differ from what was read is not written.
Merged(current, read, object) ==
  [c \in DOMAIN current |-> IF object[c] = read[c] THEN current[c] ELSE object[c]]

\* Whether the post leaves a row of its own.
Inserts(n) == \E p \in posts : p.n = n /\ p.kind # "health"

Commit(w) ==
  /\ work[w] # Idle
  /\ row' = Merged(row, work[w].read, work[w].object)
  /\ stored' = [n \in DOMAIN stored |->
                  stored[n] + IF n = work[w].n /\ Inserts(n) THEN 1 ELSE 0]
  /\ work' = [work EXCEPT ![w] = Idle]
  /\ UNCHANGED <<clock, config, posts>>

\* The connection or the database fails: nothing is written, and the client only logs.
Fails(w) ==
  /\ work[w] # Idle /\ work' = [work EXCEPT ![w] = Idle]
  /\ UNCHANGED <<clock, config, row, stored, posts>>

Tick == clock < MaxTime /\ clock' = clock + 1 /\ UNCHANGED <<config, row, stored, posts, work>>

Next ==
  \/ \E kind \in Kinds, from \in Peers, loss \in 0 .. 1, open \in BOOLEAN :
       Send(kind, from, loss, open)
  \/ \E w \in Workers : \/ \E p \in posts : Receive(w, p)
                        \/ BeginKill(w) \/ Commit(w) \/ Fails(w)
  \/ Tick

Spec == Init /\ [][Next]_vars

-----------------------------------------------------------------------------
(* get_instance_health: positions shown as open are rows, not tickets.     *)
OpenPositions ==
  LET open == {p \in posts : p.kind = "trade" /\ p.open} IN
  Cardinality(UNION {{p.n} \X (1 .. stored[p.n]) : p \in open})

(* A report that was read before a kill and is committed after it leaves   *)
(* the instance killed (api/internal.py:159-178, 219-239, against          *)
(* strategy_service.py:399-420).                                           *)
ReportsKeepKill == [][row.status = "killed" => row'.status = "killed"]_vars

(* What the engine posts is accepted when it arrives in time               *)
(* (internal.py:3-6: the schemes match exactly).  Violated: the client     *)
(* signs another path than the one that is mounted, and its fields are not *)
(* those of the schemas.                                                   *)
EngineIsHeard == \A p \in posts : p.from = "engine" /\ clock = p.ts => Accepted(p)

(* A killed instance is shown as disarmed (strategy_service.py:404).       *)
(* Violated: the next heartbeat arms it again.                             *)
KilledIsDisarmed == row.status = "killed" => ~row.kill_switch_armed

(* A trade is stored once.  Violated: nonces are not kept, so a post that  *)
(* is delivered again within the skew inserts a second row.                *)
StoredOnce == \A n \in DOMAIN stored : stored[n] <= 1

(* The last heartbeat does not go back.  Violated: the handler takes what  *)
(* comes, in any order.                                                    *)
HeartbeatsAscend == [][row'.last_signal_at >= row.last_signal_at]_vars
=============================================================================
