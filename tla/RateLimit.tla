----------------------------- MODULE RateLimit ------------------------------
(***************************************************************************)
(* The rate limiter of the backend (middleware/rate_limit.py): requests of *)
(* one caller count themselves on a Redis key of the current window.  The  *)
(* window is read from the clock before the INCR is awaited, the key gets  *)
(* its time to live in a second command, and a failure of Redis lets the   *)
(* request through.  The limit of a request depends on the caller's plan.  *)
(***************************************************************************)
EXTENDS Naturals, FiniteSets

CONSTANTS
  Requests,    \* requests of one caller
  Free, Pro,   \* requests per window of the two tiers
  Window,      \* ticks of a window
  Grace,       \* ticks a key lives longer than a window
  Stall,       \* ticks the INCR of a request may take (the socket timeout)
  MaxWindows   \* bound: windows

(* What the constants may be.                                              *)
Parameters ==
  /\ Free \in Nat \ {0} /\ Pro \in Nat /\ Free <= Pro
  /\ Window \in Nat \ {0} /\ Grace \in Nat /\ Stall \in Nat /\ MaxWindows \in Nat \ {0}
  /\ Stall <= Grace
  /\ IsFiniteSet(Requests)

VARIABLES
  now,       \* the clock
  plan,      \* the caller's plan
  count,     \* the key of each window; 0: no key
  expiry,    \* when the key of each window expires; 0: never
  req,       \* what each request is doing
  passed     \* requests of a window let through on their count (history)

vars == <<now, plan, count, expiry, req, passed>>

Windows == 0..(MaxWindows - 1)
MaxTime == Window * MaxWindows - 1
Idle == [pc |-> "idle", window |-> 0, limit |-> Free, waited |-> 0, got |-> 0]

TypeOK ==
  /\ now \in 0..MaxTime
  /\ plan \in {"free", "pro"}
  /\ count \in [Windows -> Nat]
  /\ expiry \in [Windows -> Nat]
  /\ req \in [Requests -> [pc : {"idle", "called", "counted"}, window : Windows,
                           limit : {Free, Pro}, waited : 0..Stall, got : Nat]]
  /\ passed \in [Windows -> Nat]

Init ==
  /\ now = 0 /\ plan = "free"
  /\ count = [w \in Windows |-> 0] /\ expiry = [w \in Windows |-> 0]
  /\ req = [r \in Requests |-> Idle]
  /\ passed = [w \in Windows |-> 0]

-----------------------------------------------------------------------------
(* tier_rate_limit: the plan's limit, or the free one when the lookup      *)
(* fails.                                                                  *)
LimitOf == IF plan = "pro" THEN {Pro, Free} ELSE {Free}

(* check(), up to the INCR.                                                *)
Call(r) ==
  /\ req[r].pc = "idle"
  /\ \E limit \in LimitOf :
       req' = [req EXCEPT ![r] = [pc |-> "called", window |-> now \div Window,
                                  limit |-> limit, waited |-> 0, got |-> 0]]
  /\ UNCHANGED <<now, plan, count, expiry, passed>>

(* Slip: the key expires with the window.                                  *)
LivesAWindow(w) == now + Window

(* How long a new key lives.                                               *)
Lives(w) == now + Window + Grace

(* INCR, and EXPIRE of a key that is new.                                  *)
Count(r) ==
  LET w == req[r].window IN
  /\ req[r].pc = "called"
  /\ count' = [count EXCEPT ![w] = @ + 1]
  /\ expiry' = [expiry EXCEPT ![w] = IF count[w] = 0 THEN Lives(w) ELSE @]
  /\ req' = [req EXCEPT ![r] = [pc |-> "counted", window |-> w, limit |-> @.limit,
                                waited |-> 0, got |-> count[w] + 1]]
  /\ UNCHANGED <<now, plan, passed>>

(* Either fails, before or after it had its effect: the request is let     *)
(* through, and a key may stay without an end.                             *)
CountFails(r) ==
  LET w == req[r].window IN
  /\ req[r].pc = "called"
  /\ count' \in {count, [count EXCEPT ![w] = @ + 1]}
  /\ req' = [req EXCEPT ![r] = Idle]
  /\ UNCHANGED <<now, plan, expiry, passed>>

(* Above the limit: 429.                                                   *)
Decide(r) ==
  LET w == req[r].window IN
  /\ req[r].pc = "counted"
  /\ passed' = IF req[r].got > req[r].limit THEN passed
               ELSE [passed EXCEPT ![w] = @ + 1]
  /\ req' = [req EXCEPT ![r] = Idle]
  /\ UNCHANGED <<now, plan, count, expiry>>

(* Time; the keys whose time is over go with it.                           *)
Tick ==
  /\ now < MaxTime
  /\ \A r \in Requests : req[r].pc = "called" => req[r].waited < Stall
  /\ req' = [r \in Requests |->
               IF req[r].pc = "called" THEN [req[r] EXCEPT !.waited = @ + 1] ELSE req[r]]
  /\ now' = now + 1
  /\ LET over == {w \in Windows : expiry[w] # 0 /\ expiry[w] <= now + 1} IN
       /\ count' = [w \in Windows |-> IF w \in over THEN 0 ELSE count[w]]
       /\ expiry' = [w \in Windows |-> IF w \in over THEN 0 ELSE expiry[w]]
  /\ UNCHANGED <<plan, passed>>

(* The caller subscribes.                                                  *)
Upgrade ==
  /\ plan = "free" /\ plan' = "pro"
  /\ UNCHANGED <<now, count, expiry, req, passed>>

(* Enough requests have been counted for the bounds of the model.          *)
Busy(w) == count[w] > Pro + 1 \/ passed[w] > Pro

Next ==
  \/ \E r \in Requests :
       \/ ~Busy(now \div Window) /\ Call(r)
       \/ Count(r) \/ CountFails(r) \/ Decide(r)
  \/ Tick \/ Upgrade

Spec == Init /\ [][Next]_vars

-----------------------------------------------------------------------------
(* No window lets more requests through than the better of the caller's    *)
(* limits, but for those a failure of Redis lets through: requests that    *)
(* count at once, that stall over the end of the window, and a change of   *)
(* plan included (rate_limit.py:37-53, 94-126).                            *)
LimitIsKept == \A w \in Windows : passed[w] <= (IF plan = "pro" THEN Pro ELSE Free)
=============================================================================
