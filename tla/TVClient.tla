------------------------------- MODULE TVClient -------------------------------
(***************************************************************************)
(* The TradingView client (trading-engine/tradingview/client.py): every    *)
(* caller of the process shares one throttle and one cache.                *)
(*                                                                         *)
(* The throttle is a bounded semaphore and, behind it, a lock.  Under the  *)
(* lock a caller computes once how long it has to wait for Spacing to have *)
(* passed since the last call, sleeps that long and then notes its own     *)
(* call.  The cache keeps an analysis for Ttl.  A failed call is repeated, *)
(* after a sleep, MaxRetries times; each try takes the throttle anew.      *)
(*                                                                         *)
(* Time passes in ticks.  The two clocks of the code (monotonic for the    *)
(* throttle, wall clock for the cache) are one here.  What an analysis     *)
(* says is left out.                                                       *)
(***************************************************************************)
EXTENDS Naturals, FiniteSets

CONSTANTS
  Callers,     \* threads that call get_analysis
  Keys,        \* (symbol, exchange, interval)
  Permits,     \* TV_THROTTLE_CONCURRENT
  Spacing,     \* TV_THROTTLE_SPACING_SEC, in ticks
  Ttl,         \* TV_CACHE_TTL_SEC, in ticks
  MaxRetries   \* tries of one get_analysis

NoKey  == "nokey"
Nobody == "nobody"

(* What the constants may be.                                              *)
Parameters ==
  /\ IsFiniteSet(Callers) /\ Nobody \notin Callers
  /\ Permits \in Nat \ {0}
  /\ Spacing \in Nat /\ Ttl \in Nat
  /\ MaxRetries \in Nat \ {0}

VARIABLES
  caller,   \* where each caller is
  free,     \* permits left in the semaphore
  spacer,   \* who holds the spacing lock
  since,    \* ticks since _last_call_at, up to Spacing
  wait,     \* ticks each caller has still to sleep in acquire()
  age       \* age of a key's cache entry, Ttl + 1 when there is none

vars == <<caller, free, spacer, since, wait, age>>

Away == [pc |-> "idle", key |-> NoKey, tries |-> 0]

TypeOK ==
  /\ caller \in [Callers -> [pc : {"idle", "sem", "lock", "sleep", "call", "backoff"},
                             key : Keys \cup {NoKey}, tries : 0..MaxRetries]]
  /\ free \in 0..Permits
  /\ spacer \in Callers \cup {Nobody}
  /\ since \in 0..Spacing
  /\ wait \in [Callers -> 0..Spacing]
  /\ age \in [Keys -> 0..(Ttl + 1)]

Init ==
  /\ caller = [c \in Callers |-> Away]
  /\ free = Permits
  /\ spacer = Nobody
  /\ since = Spacing
  /\ wait = [c \in Callers |-> 0]
  /\ age = [k \in Keys |-> Ttl + 1]

Cached(k) == age[k] <= Ttl

Goes(c, pc) == caller' = [caller EXCEPT ![c].pc = pc]

-----------------------------------------------------------------------------
(* get_analysis.                                                           *)

(* The key is not in the cache: the first try.                             *)
GetAnalysis(c, k) ==
  /\ caller[c].pc = "idle" /\ ~Cached(k)
  /\ caller' = [caller EXCEPT ![c] = [pc |-> "sem", key |-> k, tries |-> 1]]
  /\ UNCHANGED <<free, spacer, since, wait, age>>

(* _throttle.acquire(): a permit ...                                       *)
TakePermit(c) ==
  /\ caller[c].pc = "sem" /\ free > 0
  /\ free' = free - 1
  /\ Goes(c, "lock")
  /\ UNCHANGED <<spacer, since, wait, age>>

(* Slip: the wait is computed under the lock and slept outside it.         *)
LetsGo(c) == UNCHANGED spacer

(* The lock is held over the sleep.                                        *)
Holds(c) == spacer' = c

(* ... then the spacing lock, and the wait, computed once ...              *)
TakeLock(c) ==
  /\ caller[c].pc = "lock" /\ spacer = Nobody
  /\ Holds(c)
  /\ wait' = [wait EXCEPT ![c] = Spacing - since]
  /\ Goes(c, "sleep")
  /\ UNCHANGED <<free, since, age>>

(* ... and after the sleep the time of the call, and the lock is released. *)
LeaveAcquire(c) ==
  /\ caller[c].pc = "sleep" /\ wait[c] = 0
  /\ since' = 0
  /\ spacer' = Nobody
  /\ Goes(c, "call")
  /\ UNCHANGED <<free, wait, age>>

(* The call succeeds: finally gives the permit back, the entry is stored.  *)
CallSucceeds(c) ==
  /\ caller[c].pc = "call"
  /\ free' = free + 1
  /\ age' = [age EXCEPT ![caller[c].key] = 0]
  /\ caller' = [caller EXCEPT ![c] = Away]
  /\ UNCHANGED <<spacer, since, wait>>

(* Slip: the permit is released by the handler and by finally.             *)
ReleasedTwice == free + 2

(* finally: _throttle.release()                                            *)
Release == free + 1

(* The call raises: the caller sleeps, also after its last try.            *)
CallRaises(c) ==
  /\ caller[c].pc = "call"
  /\ free' = Release
  /\ Goes(c, "backoff")
  /\ UNCHANGED <<spacer, since, wait, age>>

BackoffEnds(c) ==
  /\ caller[c].pc = "backoff"
  /\ caller' = IF caller[c].tries < MaxRetries
                  THEN [caller EXCEPT ![c].pc = "sem", ![c].tries = @ + 1]
                  ELSE [caller EXCEPT ![c] = Away]
  /\ UNCHANGED <<free, spacer, since, wait, age>>

-----------------------------------------------------------------------------
Tick ==
  /\ since' = IF since < Spacing THEN since + 1 ELSE since
  /\ wait' = [c \in Callers |-> IF wait[c] > 0 THEN wait[c] - 1 ELSE 0]
  /\ age' = [k \in Keys |-> IF age[k] <= Ttl THEN age[k] + 1 ELSE age[k]]
  /\ <<since', wait', age'>> # <<since, wait, age>>
  /\ UNCHANGED <<caller, free, spacer>>

ClearCache ==
  /\ age' = [k \in Keys |-> Ttl + 1]
  /\ age' # age
  /\ UNCHANGED <<caller, free, spacer, since, wait>>

Steps(c) ==
  \/ TakeLock(c) \/ LeaveAcquire(c) \/ CallSucceeds(c) \/ CallRaises(c) \/ BackoffEnds(c)

Next ==
  \/ \E c \in Callers : (\E k \in Keys : GetAnalysis(c, k)) \/ TakePermit(c) \/ Steps(c)
  \/ Tick \/ ClearCache

Spec == Init /\ [][Next]_vars

(* Time passes, calls return or time out, sleeps end, and neither the      *)
(* semaphore nor the lock passes a waiting caller over for ever.           *)
Fairness ==
  /\ WF_vars(Tick)
  /\ \A c \in Callers : WF_vars(LeaveAcquire(c) \/ CallSucceeds(c) \/ CallRaises(c)
                                  \/ BackoffEnds(c))
                        /\ SF_vars(TakePermit(c)) /\ SF_vars(TakeLock(c))

-----------------------------------------------------------------------------
(* Two calls to TradingView start at least Spacing apart, whoever makes    *)
(* them, retries included: nobody calls between the moment a caller        *)
(* computes its wait and the moment it has slept it (client.py:140-147).   *)
CallsAreSpaced ==
  [][\A c \in Callers :
       (caller[c].pc # "call" /\ caller'[c].pc = "call") => since = Spacing]_vars

(* Permits are neither lost nor made: what the callers hold and what is    *)
(* left are always Permits, so that a BoundedSemaphore never raises and    *)
(* callers are never locked out for good (client.py:137-150, 282-303).     *)
PermitsAddUp ==
  free + Cardinality({c \in Callers : caller[c].pc \in {"lock", "sleep", "call"}}) = Permits

(* Every get_analysis comes back, with an analysis or after its last try:  *)
(* the engine's loop that waits for it goes on (client.py:243-277).        *)
CallsComeBack == \A c \in Callers : caller[c].pc # "idle" ~> caller[c].pc = "idle"
=============================================================================
