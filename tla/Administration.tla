--------------------------- MODULE Administration ---------------------------
(***************************************************************************)
(* The administrators of the backend and the global kill switch they       *)
(* engage and disarm together (admin_service.py, api/admin.py and the      *)
(* guards in middleware/auth.py).                                          *)
(*                                                                         *)
(* A request of an administrator passes the guards, counts the             *)
(* administrators, writes its approval to a Redis set, reads the set back  *)
(* and decides on what it read.  Each of these is an await: requests of    *)
(* several administrators, a promotion or a ban come in between, and Redis *)
(* or the database may fail at each.                                       *)
(*                                                                         *)
(* Left out: the read-only pages, temporary passwords, the token minted    *)
(* for an impersonation, broadcasts, audit rows and reasons.  The rows of  *)
(* a strategy instance are those of StrategyInstance; here only what the   *)
(* kill switch and the deletion of a user do to them.                      *)
(***************************************************************************)
EXTENDS Naturals, FiniteSets

CONSTANTS
  Admins,      \* users who are administrators at first
  StepUp,      \* those whose totp_secret column holds a secret as text, the
               \* form require_step_up reads
  Instances,   \* strategy instances
  Owner,       \* Owner[i]: the user whose instance i is
  MaxChanges   \* bound: demotions, bans, deletions and outages of Redis

(* What the constants may be.                                              *)
Parameters ==
  /\ StepUp \subseteq Admins
  /\ Owner \in [Instances -> Admins]
  /\ MaxChanges \in Nat

VARIABLES
  role,       \* users.role
  gone,       \* users with deleted_at set
  inst,       \* strategy_instances.status
  flag,       \* Redis: admin:kill_switch:global exists
  pending,    \* Redis: the approvals under each key
  timed,      \* Redis: the keys that have a time to live
  redisUp,    \* Redis answers
  work,       \* the request of each administrator
  changes,    \* bound only
  asked       \* who has asked for each operation (history)

vars == <<role, gone, inst, flag, pending, timed, redisUp, work, changes, asked>>

Ops  == {"engage", "disarm"}
ApprovalKeys == Ops
Idle == [pc |-> "idle", op |-> "engage", need |-> 1, seen |-> {}]

PCs == {"idle", "counted", "added", "granted", "flagged", "applying"}

TypeOK ==
  /\ role \in [Admins -> {"admin", "user"}]
  /\ gone \subseteq Admins
  /\ inst \in [Instances -> {"paper", "live", "killed"}]
  /\ flag \in BOOLEAN
  /\ pending \in [ApprovalKeys -> SUBSET Admins]
  /\ timed \subseteq ApprovalKeys
  /\ redisUp \in BOOLEAN
  /\ work \in [Admins -> [pc : PCs, op : Ops, need : 1..2, seen : SUBSET Admins]]
  /\ changes \in 0..MaxChanges
  /\ asked \in [Ops -> SUBSET Admins]

Init ==
  /\ role = [a \in Admins |-> "admin"] /\ gone = {}
  /\ inst = [i \in Instances |-> "paper"]
  /\ flag = FALSE /\ pending = [k \in ApprovalKeys |-> {}] /\ timed = {} /\ redisUp = TRUE
  /\ work = [a \in Admins |-> Idle]
  /\ changes = 0
  /\ asked = [o \in Ops |-> {}]

-----------------------------------------------------------------------------
(* require_admin, read from the database on every request.                 *)
IsAdmin(a) == role[a] = "admin" /\ a \notin gone

CountAdmins == Cardinality({a \in Admins : IsAdmin(a)})

Required == IF CountAdmins > 1 THEN 2 ELSE 1

(* Slip: the two operations share the key of the approvals.                *)
SharedKey(op) == "engage"

KeyOf(op) == op

At(a, pc) == work[a].pc = pc

-----------------------------------------------------------------------------
(* POST /admin/system/global-kill-switch and .../disarm, up to the count.  *)
(* A single administrator does not ask Redis.                              *)
Ask(a, op) ==
  /\ At(a, "idle") /\ IsAdmin(a) /\ a \in StepUp
  /\ work' = [work EXCEPT ![a] =
       IF Required = 1 THEN [pc |-> "granted", op |-> op, need |-> 1, seen |-> {a}]
                       ELSE [pc |-> "counted", op |-> op, need |-> 2, seen |-> {}]]
  /\ asked' = [asked EXCEPT ![op] = @ \cup {a}]
  /\ UNCHANGED <<role, gone, inst, flag, pending, timed, redisUp, changes>>

(* SADD; a set that was not there has no time to live yet.                 *)
Adds(a) ==
  LET k == KeyOf(work[a].op) IN
  /\ At(a, "counted") /\ redisUp
  /\ pending' = [pending EXCEPT ![k] = @ \cup {a}]
  /\ work' = [work EXCEPT ![a].pc = "added"]
  /\ UNCHANGED <<role, gone, inst, flag, timed, redisUp, changes, asked>>

(* Enough of them: the request is granted; too few: it answers "pending".  *)
Decided(a, approvals) ==
  IF Cardinality(approvals) >= work[a].need
    THEN [work[a] EXCEPT !.pc = "granted", !.seen = approvals] ELSE Idle

(* EXPIRE, which starts the hour of the whole set again (no key, no time), *)
(* and SMEMBERS.                                                           *)
Collects(a) ==
  LET k == KeyOf(work[a].op) IN
  /\ At(a, "added") /\ redisUp
  /\ timed' = IF pending[k] = {} THEN timed ELSE timed \cup {k}
  /\ work' = [work EXCEPT ![a] = Decided(a, pending[k])]
  /\ UNCHANGED <<role, gone, inst, flag, pending, redisUp, changes, asked>>

(* One of the three commands fails, the EXPIRE may have been done: the     *)
(* request counts itself alone.                                            *)
CollectFails(a) ==
  LET k == KeyOf(work[a].op) IN
  /\ work[a].pc \in {"counted", "added"} /\ ~redisUp
  /\ \/ UNCHANGED timed
     \/ At(a, "added") /\ pending[k] # {} /\ timed' = timed \cup {k}
  /\ work' = [work EXCEPT ![a] = Decided(a, {a})]
  /\ UNCHANGED <<role, gone, inst, flag, pending, redisUp, changes, asked>>

(* SET or DEL of the flag, then DEL of the approvals; a failure of either  *)
(* is passed over, and what comes after it is not sent.                    *)
Flags(a) ==
  /\ At(a, "granted") /\ redisUp
  /\ flag' = (work[a].op = "engage")
  /\ work' = [work EXCEPT ![a].pc = "flagged"]
  /\ UNCHANGED <<role, gone, inst, pending, timed, redisUp, changes, asked>>

Clears(a) ==
  LET k == KeyOf(work[a].op) IN
  /\ At(a, "flagged") /\ redisUp
  /\ pending' = [pending EXCEPT ![k] = {}]
  /\ timed' = timed \ {k}
  /\ work' = [work EXCEPT ![a].pc = "applying"]
  /\ UNCHANGED <<role, gone, inst, flag, redisUp, changes, asked>>

FlagFails(a) ==
  /\ work[a].pc \in {"granted", "flagged"} /\ ~redisUp
  /\ work' = [work EXCEPT ![a].pc = "applying"]
  /\ UNCHANGED <<role, gone, inst, flag, pending, timed, redisUp, changes, asked>>

(* The UPDATE of every live row, with the audit row, in one transaction.   *)
Applies(a) ==
  /\ At(a, "applying")
  /\ inst' = IF work[a].op = "engage"
               THEN [i \in Instances |-> IF inst[i] = "live" THEN "killed" ELSE inst[i]]
               ELSE inst
  /\ work' = [work EXCEPT ![a] = Idle]
  /\ UNCHANGED <<role, gone, flag, pending, timed, redisUp, changes, asked>>

(* The database fails, or the process ends, wherever the request is.       *)
RequestDies(a) ==
  /\ ~At(a, "idle")
  /\ work' = [work EXCEPT ![a] = Idle]
  /\ UNCHANGED <<role, gone, inst, flag, pending, timed, redisUp, changes, asked>>

-----------------------------------------------------------------------------
(* patch_user and soft_delete_user of another user.                        *)
PatchRole(a, b, r) ==
  /\ IsAdmin(a) /\ a # b /\ role[b] # r
  /\ r = "user" => changes < MaxChanges
  /\ role' = [role EXCEPT ![b] = r]
  /\ changes' = IF r = "user" THEN changes + 1 ELSE changes
  /\ UNCHANGED <<gone, inst, flag, pending, timed, redisUp, work, asked>>

Ban(a, b) ==
  /\ IsAdmin(a) /\ a \in StepUp /\ a # b /\ b \notin gone /\ changes < MaxChanges
  /\ gone' = gone \cup {b}
  /\ changes' = changes + 1
  /\ UNCHANGED <<role, inst, flag, pending, timed, redisUp, work, asked>>

Unban(a, b) ==
  /\ IsAdmin(a) /\ b \in gone
  /\ gone' = gone \ {b}
  /\ UNCHANGED <<role, inst, flag, pending, timed, redisUp, work, changes, asked>>

SoftDelete(a, b) ==
  /\ IsAdmin(a) /\ a \in StepUp /\ a # b /\ changes < MaxChanges
  /\ gone' = gone \cup {b}
  /\ inst' = [i \in Instances |->
       IF Owner[i] = b /\ inst[i] \in {"paper", "live"} THEN "killed" ELSE inst[i]]
  /\ changes' = changes + 1
  /\ UNCHANGED <<role, flag, pending, timed, redisUp, work, asked>>

(* DELETE /me, which an administrator may call too.                        *)
Leave(a) ==
  /\ a \notin gone /\ changes < MaxChanges
  /\ gone' = gone \cup {a}
  /\ changes' = changes + 1
  /\ UNCHANGED <<role, inst, flag, pending, timed, redisUp, work, asked>>

(* An instance goes live; the flag is not asked.                           *)
GoesLive(i) ==
  /\ inst[i] = "paper" /\ Owner[i] \notin gone
  /\ inst' = [inst EXCEPT ![i] = "live"]
  /\ UNCHANGED <<role, gone, flag, pending, timed, redisUp, work, changes, asked>>

(* Redis (external): an hour without an approval, an outage.               *)
ApprovalsExpire(k) ==
  /\ k \in timed
  /\ pending' = [pending EXCEPT ![k] = {}] /\ timed' = timed \ {k}
  /\ UNCHANGED <<role, gone, inst, flag, redisUp, work, changes, asked>>

RedisFails ==
  /\ redisUp /\ changes < MaxChanges
  /\ redisUp' = FALSE /\ changes' = changes + 1
  /\ UNCHANGED <<role, gone, inst, flag, pending, timed, work, asked>>

RedisReturns ==
  /\ ~redisUp /\ redisUp' = TRUE
  /\ UNCHANGED <<role, gone, inst, flag, pending, timed, work, changes, asked>>

-----------------------------------------------------------------------------
Next ==
  \/ \E a \in Admins :
       \/ \E op \in Ops : Ask(a, op)
       \/ Adds(a) \/ Collects(a) \/ CollectFails(a)
       \/ Flags(a) \/ Clears(a) \/ FlagFails(a) \/ Applies(a) \/ RequestDies(a)
       \/ Leave(a)
  \/ \E a, b \in Admins :
       \/ \E r \in {"admin", "user"} : PatchRole(a, b, r)
       \/ Ban(a, b) \/ Unban(a, b) \/ SoftDelete(a, b)
  \/ \E i \in Instances : GoesLive(i)
  \/ \E k \in ApprovalKeys : ApprovalsExpire(k)
  \/ RedisFails \/ RedisReturns

Spec == Init /\ [][Next]_vars

-----------------------------------------------------------------------------
(* Nobody engages or disarms alone what two must: a request that found     *)
(* more than one administrator is granted when two of them have asked for  *)
(* that very operation, whatever is repeated, left over, lost with Redis   *)
(* or in progress for the other operation (admin_service.py:1123-1142,     *)
(* 1214-1230).                                                             *)
TwoMustAsk ==
  [][\A a \in Admins :
       ~At(a, "granted") /\ work'[a].pc = "granted" /\ work'[a].need = 2 =>
         Cardinality(work'[a].seen \cap asked'[work'[a].op]) >= 2]_vars
=============================================================================
