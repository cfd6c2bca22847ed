------------------------------ MODULE Sessions -------------------------------
(***************************************************************************)
(* Accounts and refresh tokens of the backend (services/auth_service.py,   *)
(* core/security.py).  A call reads, awaits and writes; several calls of   *)
(* several processes are under way at a time.  What keeps them apart is    *)
(* the unique index on the addresses of live users, and a list in Redis of *)
(* tokens that were given back, whose entries expire and whose failures    *)
(* let a call through.                                                     *)
(*                                                                         *)
(* Left out: passwords, the second factor, the mails and the audit rows,   *)
(* access tokens (nothing gives one back before its end).  A tick is much  *)
(* longer than the seconds to which the code rounds.                       *)
(***************************************************************************)
EXTENDS Integers, FiniteSets

CONSTANTS
  Users,         \* rows of the table users
  Emails,        \* addresses
  Tokens,        \* refresh tokens, each minted once
  Callers,       \* calls under way at a time
  Life,          \* life of a refresh token, in ticks
  AccessLife,    \* life of an access token
  MaxTime        \* bound: ticks

(* What the constants may be.                                              *)
Parameters ==
  /\ Life \in Nat \ {0} /\ AccessLife \in 1..Life
  /\ MaxTime \in Nat

VARIABLES
  now,       \* the clock
  row,       \* the users' rows
  token,     \* the tokens: whose, and until when
  denied,    \* until when Redis holds an entry for a token; 0: none
  stored,    \* tokens whose entry was written (history)
  redisUp,   \* whether Redis answers
  call       \* what each call is doing

vars == <<now, row, token, denied, stored, redisUp, call>>

(* The user, the token and the address of a call, as sets of at most one.  *)
Idle == [pc |-> "idle", user |-> {}, token |-> {}, email |-> {}, late |-> FALSE]

TypeOK ==
  /\ now \in 0..MaxTime
  /\ row \in [Users -> [state : {"absent", "live", "gone"}, email : SUBSET Emails]]
  /\ token \in [Tokens -> [user : SUBSET Users, until : Nat]]
  /\ denied \in [Tokens -> Nat]
  /\ stored \subseteq Tokens
  /\ redisUp \in BOOLEAN
  /\ call \in [Callers -> [pc : {"idle", "signup", "load", "revoke", "mint"},
                           user : SUBSET Users, token : SUBSET Tokens,
                           email : SUBSET Emails, late : BOOLEAN]]

Init ==
  /\ now = 0
  /\ row = [u \in Users |-> [state |-> "absent", email |-> {}]]
  /\ token = [t \in Tokens |-> [user |-> {}, until |-> 0]]
  /\ denied = [t \in Tokens |-> 0] /\ stored = {}
  /\ redisUp = TRUE
  /\ call = [c \in Callers |-> Idle]

Does(c, step) == call' = [call EXCEPT ![c] = step]
Live(u) == row[u].state = "live"
Registered(email) == \E u \in Users : Live(u) /\ row[u].email = email

-----------------------------------------------------------------------------
(* signup: the lookup of the address; later the INSERT, which the index    *)
(* on the addresses of users not deleted may refuse; then the tokens.      *)
SignupLookup(c, e) ==
  /\ call[c].pc = "idle"
  /\ ~Registered({e})
  /\ Does(c, [Idle EXCEPT !.pc = "signup", !.email = {e}])
  /\ UNCHANGED <<now, row, token, denied, stored, redisUp>>

(* users_email_uniq, partial on deleted_at IS NULL.                        *)
IndexAdmits(email) == ~Registered(email)

SignupInsert(c) ==
  /\ call[c].pc = "signup"
  /\ IF IndexAdmits(call[c].email)
     THEN \E u \in Users :
            /\ row[u].state = "absent"
            /\ row' = [row EXCEPT ![u] = [state |-> "live", email |-> call[c].email]]
            /\ Does(c, [Idle EXCEPT !.pc = "mint", !.user = {u}])
     ELSE Does(c, Idle) /\ UNCHANGED row
  /\ UNCHANGED <<now, token, denied, stored, redisUp>>

(* login, with everything it checks in order.                              *)
Login(c, u) ==
  /\ call[c].pc = "idle" /\ Live(u)
  /\ Does(c, [Idle EXCEPT !.pc = "mint", !.user = {u}])
  /\ UNCHANGED <<now, row, token, denied, stored, redisUp>>

Decodes(t) == token[t].user /= {} /\ now < token[t].until
Refused(t) == redisUp /\ denied[t] > now

(* refresh: the token and its entry, the user, the entry of the token, the *)
(* new pair.                                                               *)
RefreshCheck(c, t) ==
  /\ call[c].pc = "idle"
  /\ Decodes(t) /\ ~Refused(t)
  /\ Does(c, [Idle EXCEPT !.pc = "load", !.token = {t}, !.user = token[t].user,
                          !.late = redisUp /\ t \in stored])
  /\ UNCHANGED <<now, row, token, denied, stored, redisUp>>

RefreshLoad(c) ==
  /\ call[c].pc = "load"
  /\ IF \A u \in call[c].user : Live(u) THEN call' = [call EXCEPT ![c].pc = "revoke"] ELSE Does(c, Idle)
  /\ UNCHANGED <<now, row, token, denied, stored, redisUp>>

(* Slip: an entry lives as long as an access token.                        *)
EntryLivesShort(t) == AccessLife

(* max(exp - now, 1).                                                      *)
EntryLives(t) == IF token[t].until - now > 1 THEN token[t].until - now ELSE 1

(* _revoke_jti: a failure is logged.                                       *)
Revoke(t) ==
  IF redisUp
  THEN denied' = [denied EXCEPT ![t] = now + EntryLives(t)] /\ stored' = stored \cup {t}
  ELSE UNCHANGED <<denied, stored>>

RefreshRevoke(c) ==
  /\ call[c].pc = "revoke"
  /\ \E t \in call[c].token : Revoke(t)
  /\ call' = [call EXCEPT ![c].pc = "mint"]
  /\ UNCHANGED <<now, row, token, redisUp>>

(* _mint_pair.                                                             *)
Mint(c) ==
  /\ call[c].pc = "mint"
  /\ \E t \in Tokens :
       /\ token[t].user = {}
       /\ token' = [token EXCEPT ![t] = [user |-> call[c].user, until |-> now + Life]]
  /\ Does(c, Idle)
  /\ UNCHANGED <<now, row, denied, stored, redisUp>>

(* logout, of a token that decodes.                                        *)
Logout(t) ==
  /\ Decodes(t)
  /\ Revoke(t)
  /\ UNCHANGED <<now, row, token, redisUp, call>>

(* An exception, or the end of the process.                                *)
Fails(c) ==
  /\ call[c].pc /= "idle"
  /\ Does(c, Idle)
  /\ UNCHANGED <<now, row, token, denied, stored, redisUp>>

-----------------------------------------------------------------------------
(* DELETE /me or an administrator's deletion.                              *)
Delete(u) ==
  /\ Live(u)
  /\ row' = [row EXCEPT ![u].state = "gone"]
  /\ UNCHANGED <<now, token, denied, stored, redisUp, call>>

(* patch_user lifts a ban: deleted_at is NULL again, if the index admits.  *)
Unban(u) ==
  /\ row[u].state = "gone" /\ IndexAdmits(row[u].email)
  /\ row' = [row EXCEPT ![u].state = "live"]
  /\ UNCHANGED <<now, token, denied, stored, redisUp, call>>

RedisTurns ==
  /\ redisUp' = ~redisUp
  /\ UNCHANGED <<now, row, token, denied, stored, call>>

(* Time, and with it the entries of Redis.                                 *)
Tick ==
  /\ now < MaxTime
  /\ now' = now + 1
  /\ denied' = [t \in Tokens |-> IF denied[t] <= now + 1 THEN 0 ELSE denied[t]]
  /\ UNCHANGED <<row, token, stored, redisUp, call>>

Next ==
  \/ \E c \in Callers :
       \/ \E e \in Emails : SignupLookup(c, e)
       \/ \E u \in Users : Login(c, u)
       \/ \E t \in Tokens : RefreshCheck(c, t)
       \/ SignupInsert(c) \/ RefreshLoad(c) \/ RefreshRevoke(c) \/ Mint(c) \/ Fails(c)
  \/ \E t \in Tokens : Logout(t)
  \/ \E u \in Users : Delete(u) \/ Unban(u)
  \/ RedisTurns \/ Tick

Spec == Init /\ [][Next]_vars

-----------------------------------------------------------------------------
(* Two users who are not deleted never have one address, whatever sign-ups *)
(* run at once and whichever deleted user comes back                       *)
(* (auth_service.py:85-108, admin_service.py:290-345).                     *)
EmailIsUnique ==
  \A u, v \in Users : Live(u) /\ Live(v) /\ row[u].email = row[v].email => u = v

(* auth_service.py:6, "Refresh tokens are single-use; on use we add jti to *)
(* denylist": a call that begins, while Redis answers, after the entry of  *)
(* its token was written is refused for the whole rest of the token's      *)
(* life, outages and later entries included.  (Two calls that both looked  *)
(* before either wrote get a pair each.)                                   *)
GivenBackIsRefused == \A c \in Callers : ~call[c].late
=============================================================================
