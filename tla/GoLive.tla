-------------------------------- MODULE GoLive --------------------------------
(***************************************************************************)
(* The live gate of the backend (live_gate_service.py) and the requests    *)
(* that run it: preflight, and go-live with its OMS call and commit        *)
(* (strategy_service.py, api/strategy_instances.py).                       *)
(*                                                                         *)
(* The gate asks nine things one after the other, each in a query or on an *)
(* object read earlier, while other requests, jobs and webhooks change     *)
(* what the answers were.  A failing check does not end it: all are        *)
(* collected and the request is refused at the end.  Of each check the     *)
(* module keeps whether it would pass now; only the health of TradingView  *)
(* and the parts of the paper record are told apart further.               *)
(*                                                                         *)
(* StrategyInstance has the rows of several instances and the merging of   *)
(* commits; here there is one instance, and its status only guards what    *)
(* may run.                                                                *)
(***************************************************************************)
EXTENDS Naturals

CONSTANTS Requests,    \* requests under way at a time
          MaxChanges   \* bound: changes of what the checks read

Parameters == MaxChanges \in Nat

\* The names the gate gives its checks; the paper record is two questions.
Queried == {"active_paid_subscription", "qualifying_backtest", "paper_days", "paper_trades",
            "live_consent_signed", "broker_min_balance", "kill_switch_clear"}
OfUser  == {"email_verified", "totp_enabled"}
Checks  == OfUser \cup Queried \cup {"external_service_healthy"}

\* A strategy needs no external service, TradingView, or one that no probe was written for.
Kinds == {"plain", "tv_signal", "unwired"}

\* What is behind the engine's /tv/health: TradingView as it answers or fails, the library
\* missing or switched off, an engine that cannot be reached, or one whose proxy says 503.
Sources == {"up", "failing", "disabled", "gone", "unavailable"}

Statuses == {"paper", "live", "stopped", "killed"}
Ops == {"preflight", "go_live"}

VARIABLES
  kind,     \* the strategy
  status,   \* the committed status of the instance
  holds,    \* the checks of user and database that would pass now
  tv,       \* what is behind /tv/health now
  changes,  \* how often something changed, for the bound
  req       \* [Requests -> the request]: where it is, what it has passed and what held meanwhile

vars == <<kind, status, holds, tv, changes, req>>

\* In this order; the dependency "guard" is there for go-live only.
Places == {"idle", "guard", "instance", "broker", "paid", "backtest", "paper", "consent",
           "kills", "probe", "verdict", "oms", "commit"}

Idle == [pc |-> "idle", op |-> "preflight", loaded |-> {}, passed |-> {}, held |-> {}]

TypeOK ==
  /\ kind \in Kinds /\ status \in Statuses /\ holds \in SUBSET (OfUser \cup Queried)
  /\ tv \in Sources /\ changes \in 0 .. MaxChanges
  /\ req \in [Requests -> [pc : Places, op : Ops, loaded : SUBSET Checks,
                           passed : SUBSET Checks, held : SUBSET (Checks \cup {"signals_arrive"})]]

\* A user who lacks one thing at most, with an instance on paper.
Init ==
  /\ kind \in Kinds /\ status = "paper" /\ changes = 0 /\ tv \in Sources
  /\ kind # "tv_signal" => tv = "up"
  /\ \E lacking \in SUBSET (OfUser \cup Queried) :
       (\A c, d \in lacking : c = d) /\ holds = (OfUser \cup Queried) \ lacking
  /\ req = [r \in Requests |-> Idle]

(***************************************************************************)
(* The health of the external service                                      *)
(***************************************************************************)

\* The engine's tv_health: a probe that fails is "degraded", whatever it failed of.
Answer(source) ==
  CASE source = "up"       -> "ok"
    [] source = "failing"  -> "degraded"
    [] source = "disabled" -> "down"
    [] OTHER               -> "none"

\* The backend's get_health: TVUpstreamError is "down"; a 503 is TVDisabledError, which
\* nothing catches there.
HealthOf(source) ==
  CASE source = "gone"        -> "down"
    [] source = "unavailable" -> "raises"
    [] OTHER                  -> Answer(source)

\* Slip: an exception of the probe lets the strategy pass.
HealthyUnlessDown(k, source) == k = "tv_signal" => HealthOf(source) # "down"

\* _external_service_healthy: an exception fails, a service without a probe passes.
Healthy(k, source) == k = "tv_signal" => HealthOf(source) \in {"ok", "degraded"}

\* What is so now: the checks, the engine's health by its own answer, and whether signals
\* arrive at all.
HoldsNow ==
  holds \cup {c \in {"external_service_healthy"} :
                kind = "tv_signal" => tv \in {"up", "failing"}}
        \cup {c \in {"signals_arrive"} : kind = "tv_signal" => tv = "up"}

-----------------------------------------------------------------------------
(***************************************************************************)
(* A request                                                               *)
(***************************************************************************)

Goes(r, place) == req' = [req EXCEPT ![r].pc = place]

Stays == UNCHANGED <<kind, status, holds, tv, changes>>

\* get_current_user: the user's row, which the first two checks are put to later.
Begin(r, op) ==
  /\ req[r].pc = "idle"
  /\ req' = [req EXCEPT ![r] =
               [pc     |-> IF op = "go_live" THEN "guard" ELSE "instance",
                op     |-> op,
                loaded |-> holds \cap OfUser,
                passed |-> {},
                held   |-> HoldsNow]]
  /\ Stays

\* require_active_subscription(require_paid=True).
Guarded(r) ==
  /\ req[r].pc = "guard"
  /\ IF "active_paid_subscription" \in holds THEN Goes(r, "instance")
                                              ELSE req' = [req EXCEPT ![r] = Idle]
  /\ Stays

\* _own_instance, or the gate's own SELECT in a preflight.  started_at is read here and not
\* again.  A killed instance cannot go live; for a live one only the gate is run.
ReadsInstance(r) ==
  /\ req[r].pc = "instance"
  /\ IF req[r].op = "go_live" /\ status = "killed"
     THEN req' = [req EXCEPT ![r] = Idle]
     ELSE req' = [req EXCEPT
            ![r].pc = "broker",
            ![r].op = IF status = "live" THEN "preflight" ELSE @,
            ![r].loaded = @ \cup (holds \cap {"paper_days"})]
  /\ Stays

\* can_go_live reads the broker account's row, whose balance is judged at the end, and puts
\* the two checks of the user.
ReadsBroker(r) ==
  /\ req[r].pc = "broker"
  /\ req' = [req EXCEPT ![r].pc = "paid",
                        ![r].passed = (req[r].loaded \cap OfUser)
                                      \cup (holds \cap {"broker_min_balance"})]
  /\ Stays

\* A check that is a query of its own.
Asks(r, place, checks, next) ==
  /\ req[r].pc = place
  /\ req' = [req EXCEPT ![r].pc = next, ![r].passed = @ \cup (holds \cap checks)]
  /\ Stays

AsksPaid(r)     == Asks(r, "paid", {"active_paid_subscription"}, "backtest")
AsksBacktest(r) == Asks(r, "backtest", {"qualifying_backtest"}, "paper")
AsksConsent(r)  == Asks(r, "consent", {"live_consent_signed"}, "kills")
AsksKills(r)    == Asks(r, "kills", {"kill_switch_clear"}, "probe")

\* _has_paper_track_record: the days since started_at as it was read, the trades as they are.
AsksPaper(r) ==
  /\ req[r].pc = "paper"
  /\ req' = [req EXCEPT ![r].pc = "consent",
               ![r].passed = @ \cup (req[r].loaded \cap {"paper_days"})
                               \cup (IF "paper_days" \in req[r].loaded
                                     THEN holds \cap {"paper_trades"} ELSE {})]
  /\ Stays

\* The probe is an HTTP call; it is made for a strategy that requires it.
Probes(r) ==
  /\ req[r].pc = "probe"
  /\ req' = [req EXCEPT ![r].pc = "verdict",
               ![r].passed = @ \cup {c \in {"external_service_healthy"} : Healthy(kind, tv)}]
  /\ Stays

Passes(r) == Checks \subseteq req[r].passed

\* The verdict: a preflight is answered, a go-live refused or sent to the OMS.
Judged(r) ==
  /\ req[r].pc = "verdict"
  /\ IF req[r].op = "go_live" /\ Passes(r) THEN Goes(r, "oms")
                                           ELSE req' = [req EXCEPT ![r] = Idle]
  /\ Stays

\* start_live answers or raises.
OmsAccepts(r) == req[r].pc = "oms" /\ Goes(r, "commit") /\ Stays
OmsRefuses(r) == req[r].pc = "oms" /\ req' = [req EXCEPT ![r] = Idle] /\ Stays

\* The flip; a request that read another status than "live" always writes it.
Commit(r) ==
  /\ req[r].pc = "commit"
  /\ status' = "live"
  /\ req' = [req EXCEPT ![r] = Idle]
  /\ UNCHANGED <<kind, holds, tv, changes>>

-----------------------------------------------------------------------------
(***************************************************************************)
(* What changes meanwhile                                                  *)
(***************************************************************************)

\* What every request under way has seen hold.
Witnessed ==
  req' = [r \in Requests |->
            IF req[r].pc = "idle" THEN req[r] ELSE [req[r] EXCEPT !.held = @ \cup HoldsNow']]

Changes(now) ==
  /\ changes < MaxChanges /\ changes' = changes + 1
  /\ holds' = now
  /\ UNCHANGED <<kind, tv>>

\* verify_email, enroll_totp, a consent with the risk acknowledged, a backtest that completed
\* well, the tenth trade: what is gained for good.
Gains(c) ==
  /\ c \in OfUser \cup {"live_consent_signed", "qualifying_backtest", "paper_trades"}
  /\ Changes(holds \cup {c}) /\ UNCHANGED status /\ Witnessed

\* Subscriptions begin and end; the balance is set from outside and the account deleted.
Turns(c) ==
  /\ c \in {"active_paid_subscription", "broker_min_balance"}
  /\ \/ Changes(holds \cup {c})
     \/ Changes(holds \ {c})
  /\ UNCHANGED status /\ Witnessed

\* start_instance after a stop: started_at is now.
Restarts ==
  /\ status = "stopped"
  /\ Changes(holds \ {"paper_days"}) /\ status' = "paper" /\ Witnessed

\* stop_instance, revert_to_paper.
Stops ==
  /\ status \in {"paper", "live"}
  /\ \E s \in {"stopped", "paper"} \ {status} :
       (s = "paper" => status = "live") /\ status' = s
  /\ UNCHANGED <<kind, holds, tv, changes, req>>

\* kill_instance, of this instance or of another of the user.
Kills ==
  /\ Changes(holds \ {"kill_switch_clear"})
  /\ status' \in {status, "killed"} /\ Witnessed

\* Days pass: kills leave their cooldown, the paper record its first fortnight.
DaysPass ==
  /\ Changes(holds \cup {"kill_switch_clear"}) \/ Changes(holds \cup {"kill_switch_clear", "paper_days"})
  /\ UNCHANGED status /\ Witnessed

TradingViewTurns(source) ==
  /\ kind = "tv_signal" /\ source # tv
  /\ changes < MaxChanges /\ changes' = changes + 1
  /\ tv' = source
  /\ UNCHANGED <<kind, status, holds>> /\ Witnessed

Steps(r) ==
  \/ \E op \in Ops : Begin(r, op)
  \/ Guarded(r) \/ ReadsInstance(r) \/ ReadsBroker(r) \/ AsksPaid(r) \/ AsksBacktest(r)
  \/ AsksPaper(r) \/ AsksConsent(r) \/ AsksKills(r) \/ Probes(r) \/ Judged(r)
  \/ OmsAccepts(r) \/ OmsRefuses(r) \/ Commit(r)

Next ==
  \/ \E r \in Requests : Steps(r)
  \/ \E c \in Checks : Gains(c) \/ Turns(c)
  \/ Restarts \/ Stops \/ Kills \/ DaysPass
  \/ \E source \in Sources : TradingViewTurns(source)

Spec == Init /\ [][Next]_vars

-----------------------------------------------------------------------------
(* A gate passes, be it for a preflight or for a go-live, only if each of  *)
(* the checks held at some moment of its request, however the answers      *)
(* changed in the meantime (live_gate_service.py:52-173; for the probe,    *)
(* 271-307: fail closed).                                                  *)
EveryCheckHeld ==
  \A r \in Requests :
    req[r].pc \in {"verdict", "oms", "commit"} /\ Passes(r) => Checks \subseteq req[r].held

(* A gate that passes for tv_signal has seen TradingView up                *)
(* (tradingview_service.py:288: degraded means TV is up).  Violated: the   *)
(* engine answers "degraded" when its probe of TradingView failed.         *)
SignalsArrived ==
  \A r \in Requests : req[r].pc = "verdict" /\ Passes(r) => "signals_arrive" \in req[r].held
===============================================================================
