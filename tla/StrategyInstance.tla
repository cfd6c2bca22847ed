--------------------------- MODULE StrategyInstance ---------------------------
(***************************************************************************)
(* The strategy instances of one user, as rows of the backend's database,  *)
(* under the requests that change their status                             *)
(* (backend/app/services/strategy_service.py), the live gate's kill        *)
(* cooldown (live_gate_service.py) and the administrators' kills           *)
(* (admin_service.py).                                                     *)
(*                                                                         *)
(* A request reads its instance into the object of its session, checks the *)
(* status it read, awaits (the gate's queries, the OMS, an audit lookup)   *)
(* and commits.  Nothing locks the row in between.  SQLAlchemy keeps the   *)
(* object as it was first read, however often the row is selected again    *)
(* (db/session.py sets no refresh), and at the commit updates only the     *)
(* columns that differ from what was read, so two commits may merge.       *)
(* An administrator's kill is one UPDATE ... WHERE, whose rows stay locked *)
(* until its commit.                                                       *)
(*                                                                         *)
(* A time is kept as what the code asks of it: whether it is within the    *)
(* last 24 h.  params stands for the three HIGH_RISK_PARAM_KEYS.  Left     *)
(* out: labels, audit rows, the start times and, as free choices, the      *)
(* checks of the gate other than the cooldown and the answers of the OMS.  *)
(***************************************************************************)
EXTENDS Naturals

CONSTANTS Instances,  \* the user's strategy instances
          Requests,   \* bound: requests under way at a time
          Params      \* values of the high-risk columns

ASSUME InstancesAssumption == Instances /= {}
ASSUME ParamsAssumption == Params /= {}

Statuses == {"paper", "live", "stopped", "killed"}
Ops == {"update", "go_live", "revert", "start", "stop", "kill"}

\* stopped_at: NULL, within the last 24 h, or before.
Times == {"null", "recent", "past"}

Rows == [status : Statuses \cup {"absent"}, stopped : Times, params : Params]

\* Where a request waits: in the gate, for the OMS, or before its commit.
RequestPcs == {"idle", "gate", "oms", "commit"}
InFlight == {"gate", "oms", "commit"}

VARIABLES
  row,     \* [Instances -> Rows]: the committed rows
  pc,      \* [Requests -> RequestPcs]
  op,      \* [Requests -> Ops]
  inst,    \* [Requests -> Instances]: the instance of the request
  loaded,  \* [Requests -> Rows]: the row as the request's session read it
  wanted,  \* [Requests -> Params]: what an update asks for
  locked   \* the rows an administrator's uncommitted UPDATE has matched

requestVars == <<pc, op, inst, loaded, wanted>>
vars == <<row, pc, op, inst, loaded, wanted, locked>>

TypeOK ==
  /\ row \in [Instances -> Rows]
  /\ pc \in [Requests -> RequestPcs]
  /\ op \in [Requests -> Ops]
  /\ inst \in [Requests -> Instances]
  /\ loaded \in [Requests -> Rows]
  /\ wanted \in [Requests -> Params]
  /\ locked \in SUBSET Instances

\* What an idle request holds is arbitrary, and fixed.
AnyInstance == CHOOSE i \in Instances : TRUE
AnyParams == CHOOSE p \in Params : TRUE
AbsentRow == [status |-> "absent", stopped |-> "null", params |-> AnyParams]

Init ==
  /\ row = [i \in Instances |-> AbsentRow]
  /\ pc = [r \in Requests |-> "idle"]
  /\ op = [r \in Requests |-> "kill"]
  /\ inst = [r \in Requests |-> AnyInstance]
  /\ loaded = [r \in Requests |-> AbsentRow]
  /\ wanted = [r \in Requests |-> AnyParams]
  /\ locked = {}

Serves(r, o, i) == pc[r] \in InFlight /\ op[r] = o /\ inst[r] = i

\* The request is over, and its session with it.
Ends(r) ==
  /\ pc' = [pc EXCEPT ![r] = "idle"]
  /\ op' = [op EXCEPT ![r] = "kill"]
  /\ inst' = [inst EXCEPT ![r] = AnyInstance]
  /\ loaded' = [loaded EXCEPT ![r] = AbsentRow]
  /\ wanted' = [wanted EXCEPT ![r] = AnyParams]

(***************************************************************************)
(* The requests                                                            *)
(***************************************************************************)

\* create_instance: mode "live" is taken as it is, without the gate.
Create(i, mode, p) ==
  /\ row[i].status = "absent"
  /\ row' = [row EXCEPT ![i] = [status |-> mode, stopped |-> "null", params |-> p]]
  /\ UNCHANGED <<requestVars, locked>>

\* Slip: a killed instance can be stopped.
AcceptsStopOfKilled(o, seen) ==
  CASE o = "update"  -> seen.status \notin {"killed", "live"}
    [] o = "go_live" -> seen.status \notin {"killed", "live"}
    [] o = "revert"  -> seen.status = "live"
    [] o = "start"   -> seen.status = "stopped"
    [] o = "stop"    -> TRUE
    [] o = "kill"    -> TRUE

\* Slip: an update of a live instance is let through.
AcceptsUpdateOfLive(o, seen) ==
  CASE o = "update"  -> seen.status /= "killed"
    [] o = "go_live" -> seen.status \notin {"killed", "live"}
    [] o = "revert"  -> seen.status = "live"
    [] o = "start"   -> seen.status = "stopped"
    [] o = "stop"    -> seen.status /= "killed"
    [] o = "kill"    -> TRUE

\* The early returns and errors of each handler, on the status it read.
Accepts(o, seen) ==
  CASE o = "update"  -> seen.status \notin {"killed", "live"}
    [] o = "go_live" -> seen.status \notin {"killed", "live"}
    [] o = "revert"  -> seen.status = "live"
    [] o = "start"   -> seen.status = "stopped"
    [] o = "stop"    -> seen.status /= "killed"
    [] o = "kill"    -> TRUE

FirstWait(o) ==
  CASE o = "go_live" -> "gate"
    [] o = "revert"  -> "oms"
    [] OTHER         -> "commit"

\* _own_instance, and the checks on what it returned.
Begin(r, o, i, p) ==
  /\ pc[r] = "idle"
  /\ row[i].status /= "absent"
  /\ Accepts(o, row[i])
  /\ o /= "update" => p = AnyParams
  /\ pc' = [pc EXCEPT ![r] = FirstWait(o)]
  /\ op' = [op EXCEPT ![r] = o]
  /\ inst' = [inst EXCEPT ![r] = i]
  /\ loaded' = [loaded EXCEPT ![r] = row[i]]
  /\ wanted' = [wanted EXCEPT ![r] = p]
  /\ UNCHANGED <<row, locked>>

\* Slip: the cooldown counts the kills of this instance only.
CooldownClearOfOwn(r) ==
  ~ (row[inst[r]].status = "killed" /\ row[inst[r]].stopped = "recent")

\* _global_kill_switch_clear: a query over all the instances of the user.
CooldownClear(r) ==
  ~ \E i \in Instances : row[i].status = "killed" /\ row[i].stopped = "recent"

\* can_go_live passes; it reads the rows again, not the request's object.
GatePasses(r) ==
  /\ pc[r] = "gate"
  /\ CooldownClear(r)
  /\ pc' = [pc EXCEPT ![r] = "oms"]
  /\ UNCHANGED <<row, op, inst, loaded, wanted, locked>>

\* LiveGateFailedError, for the cooldown or any other check.
GateFails(r) ==
  /\ pc[r] = "gate"
  /\ Ends(r)
  /\ UNCHANGED <<row, locked>>

\* The OMS accepts, or is offline and skipped.
OmsAccepts(r) ==
  /\ pc[r] = "oms"
  /\ pc' = [pc EXCEPT ![r] = "commit"]
  /\ UNCHANGED <<row, op, inst, loaded, wanted, locked>>

\* It fails: a go-live is given up, a revert goes on regardless.
OmsFails(r) ==
  /\ pc[r] = "oms"
  /\ \/ op[r] = "go_live" /\ Ends(r)
     \/ /\ op[r] = "revert"
        /\ pc' = [pc EXCEPT ![r] = "commit"]
        /\ UNCHANGED <<op, inst, loaded, wanted>>
  /\ UNCHANGED <<row, locked>>

\* The object as the handler leaves it.  "now" is unlike any time read before.
Assigned(r) ==
  LET seen == loaded[r] IN
  CASE op[r] = "update"  -> [seen EXCEPT !.params = wanted[r]]
    [] op[r] = "go_live" -> [seen EXCEPT !.status = "live", !.stopped = "null"]
    [] op[r] = "revert"  -> [seen EXCEPT !.status = "paper"]
    [] op[r] = "start"   -> [seen EXCEPT !.status = "paper", !.stopped = "null"]
    [] op[r] = "stop"    -> [seen EXCEPT !.status = "stopped", !.stopped = "now"]
    [] op[r] = "kill"    -> [seen EXCEPT !.status = "killed", !.stopped = "now"]

\* Slip: the time is stored as it was computed, unlike any other.
StoredTimeRaw(t) == t

\* Slip: a kill stores no time.
StoredTimeForgotten(t) == IF t = "now" THEN "null" ELSE t

StoredTime(t) == IF t = "now" THEN "recent" ELSE t

\* The flush of a commit: the columns that differ from what was read.
Merged(current, seen, assigned) ==
  [status  |-> IF assigned.status /= seen.status
               THEN assigned.status ELSE current.status,
   stopped |-> IF assigned.stopped /= seen.stopped
               THEN StoredTime(assigned.stopped) ELSE current.stopped,
   params  |-> IF assigned.params /= seen.params
               THEN assigned.params ELSE current.params]

\* db.commit, which waits for a row an administrator holds.
Commit(r) ==
  /\ pc[r] = "commit"
  /\ inst[r] \notin locked
  /\ row' = [row EXCEPT ![inst[r]] = Merged(@, loaded[r], Assigned(r))]
  /\ Ends(r)
  /\ UNCHANGED locked

\* An error, or the end of the server: get_db rolls back.
Abort(r) ==
  /\ pc[r] \in InFlight
  /\ Ends(r)
  /\ UNCHANGED <<row, locked>>

(***************************************************************************)
(* The administrators                                                      *)
(***************************************************************************)

\* UPDATE strategy_instances ... WHERE status IN statuses, over the rows S.
AdminMatches(S, statuses) ==
  /\ locked = {}
  /\ locked' = {i \in S : row[i].status \in statuses}
  /\ locked' /= {}
  /\ UNCHANGED <<row, requestVars>>

\* kill_all_strategy_instances, for a strategy code; soft_delete_user, for all.
KillAll(S) == AdminMatches(S, {"live", "paper"})

\* engage_global_kill_switch, once its quorum is there: paper rows are left.
GlobalKill == AdminMatches(Instances, {"live"})

AdminCommits ==
  /\ locked /= {}
  /\ row' = [i \in Instances |->
               IF i \in locked
               THEN [row[i] EXCEPT !.status = "killed", !.stopped = "recent"]
               ELSE row[i]]
  /\ locked' = {}
  /\ UNCHANGED requestVars

AdminAborts ==
  /\ locked /= {}
  /\ locked' = {}
  /\ UNCHANGED <<row, requestVars>>

\* 24 h have passed since i was stopped or killed.
DayPasses(i) ==
  /\ row[i].stopped = "recent"
  /\ row' = [row EXCEPT ![i].stopped = "past"]
  /\ UNCHANGED <<requestVars, locked>>

-----------------------------------------------------------------------------
RequestStep(r) ==
  \/ GatePasses(r)
  \/ GateFails(r)
  \/ OmsAccepts(r)
  \/ OmsFails(r)
  \/ Commit(r)
  \/ Abort(r)

Next ==
  \/ \E i \in Instances, mode \in {"paper", "live"}, p \in Params : Create(i, mode, p)
  \/ \E r \in Requests, o \in Ops, i \in Instances, p \in Params : Begin(r, o, i, p)
  \/ \E r \in Requests : RequestStep(r)
  \/ \E S \in SUBSET Instances : KillAll(S)
  \/ GlobalKill
  \/ AdminCommits
  \/ AdminAborts
  \/ \E i \in Instances : DayPasses(i)

Spec == Init /\ [][Next]_vars

-----------------------------------------------------------------------------
(***************************************************************************)
(* Properties                                                              *)
(***************************************************************************)

\* The kill of i can no longer be lost: no request under way read the row
\* before the kill and will write its status.
Sealed(i) ==
  /\ row[i].status = "killed"
  /\ \A r \in Requests :
       pc[r] \in InFlight /\ inst[r] = i /\ loaded[r].status /= "killed" =>
         op[r] \in {"update", "kill"}

\* A kill is final once the requests that had read the row before it are over:
\* nothing that begins later, alone or merged with another commit, brings the
\* instance back.  (While such a request is under way a kill can be lost:
\* KilledIsFinal.)
KilledOnceQuiet == [][\A i \in Instances : Sealed(i) => Sealed(i)']_vars

\* Some sealed kill is less than 24 h old, and no go-live is past the gate.
Cooling ==
  /\ \E i \in Instances : Sealed(i) /\ row[i].stopped = "recent"
  /\ \A r \in Requests :
       op[r] = "go_live" => pc[r] \notin {"oms", "commit"}

\* live_gate_service.py:254: for 24 h after a kill no go-live of the user passes
\* the gate, on any instance, whatever else is stopped, started or killed
\* meanwhile.
CooldownOnceQuiet == [][Cooling => Cooling' \/ \E i \in Instances : DayPasses(i)]_vars

\* The cooldown counts a killed row by its stopped_at, so a killed row must have
\* one, whichever commits were merged into it.
KillHasItsTime == \A i \in Instances : row[i].status = "killed" => row[i].stopped /= "null"

\* The instance is live and no update that read it earlier is under way.
ParamsLocked(i) ==
  row[i].status = "live" /\ \A r \in Requests : ~ Serves(r, "update", i)

\* strategy_service.py:229, "block high-risk param changes": from then on its
\* parameters stay as they are for as long as it is live.
ParamsLockedWhileLive ==
  [][\A i \in Instances :
       ParamsLocked(i) =>
         /\ row'[i].params = row[i].params
         /\ ParamsLocked(i)' \/ row'[i].status /= "live"]_vars

\* docs/database/er-diagram.md:276, "killed --> [*]: archive", and
\* strategy_service.py:225, "Instance is killed and immutable.": a killed
\* instance stays killed.
KilledIsFinal ==
  [][\A i \in Instances : row[i].status = "killed" => row'[i].status = "killed"]_vars

=============================================================================
