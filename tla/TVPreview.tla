------------------------------ MODULE TVPreview ------------------------------
(***************************************************************************)
(* A TradingView preview on its way to the user: the backend's service     *)
(* with its two caches, Redis and a fallback in the process                *)
(* (backend/app/services/tradingview_service.py), the engine's endpoint    *)
(* /tv/preview (trading-engine/server.py) and the cache of the engine's    *)
(* client.  Each cache has its own time to live.                           *)
(*                                                                         *)
(* The engine answers 200 with ok = false when TradingView is switched off *)
(* or no interval could be read.  Redis comes and goes.  Time passes in    *)
(* ticks; the milliseconds between the engine's answer and the cache are   *)
(* not counted.  What a preview says is left out, but for being "real" or  *)
(* the empty one that _normalize_preview makes of a failure.               *)
(***************************************************************************)
EXTENDS Naturals

CONSTANTS
  Keys,         \* (symbol, exchange, intervals, user)
  Requests,     \* requests in flight
  PreviewTtl,   \* preview_ttl of the backend, in ticks
  EngineTtl     \* TV_CACHE_TTL_SEC of the engine's client, in ticks

(* What the constants may be.                                              *)
Parameters ==
  /\ PreviewTtl \in Nat /\ EngineTtl \in Nat

VARIABLES
  tv,       \* TradingView: "up", "failing", or "off" by TV_ENABLED of the engine
  redisUp,  \* Redis answers
  tiers,    \* the backend's caches: Redis and the process
  engine,   \* age of the engine's cached analysis, EngineTtl + 1 for none
  ask,      \* the requests
  served    \* what was last served for a key

vars == <<tv, redisUp, tiers, engine, ask, served>>

(* An entry: what it is, the age of its data and its time to live; Redis   *)
(* and the process forget it when that is over.                            *)
MaxAge == PreviewTtl + EngineTtl + 1
Kinds  == {"none", "real", "empty"}
Entries == [kind : Kinds, age : 0..MaxAge, left : 0..PreviewTtl]
NoEntry == [kind |-> "none", age |-> 0, left |-> 0]
Tiers   == {"redis", "process"}
Quiet   == [pc |-> "idle", key |-> "none", got |-> NoEntry]

TypeOK ==
  /\ tv \in {"up", "failing", "off"}
  /\ redisUp \in BOOLEAN
  /\ tiers \in [Tiers -> [Keys -> Entries]]
  /\ engine \in [Keys -> 0..(EngineTtl + 1)]
  /\ ask \in [Requests -> [pc : {"idle", "get", "call", "set"},
                           key : Keys \cup {"none"}, got : Entries]]
  /\ served \in [Keys -> [kind : Kinds \cup {"error"}, age : 0..MaxAge]]

Init ==
  /\ tv = "up" /\ redisUp = TRUE
  /\ tiers = [t \in Tiers |-> [k \in Keys |-> NoEntry]]
  /\ engine = [k \in Keys |-> EngineTtl + 1]
  /\ ask = [r \in Requests |-> Quiet]
  /\ served = [k \in Keys |-> [kind |-> "none", age |-> 0]]

-----------------------------------------------------------------------------
(* The backend.                                                            *)

GetPreview(r, k) ==
  /\ ask[r].pc = "idle"
  /\ ask' = [ask EXCEPT ![r] = [pc |-> "get", key |-> k, got |-> NoEntry]]
  /\ UNCHANGED <<tv, redisUp, tiers, engine, served>>

(* The request is answered.                                                *)
Serves(r, kind, age) ==
  /\ served' = [served EXCEPT ![ask[r].key] = [kind |-> kind, age |-> age]]
  /\ ask' = [ask EXCEPT ![r] = Quiet]

(* The tier _cache_get and _cache_set work with: the process stands in for *)
(* a Redis that raises.                                                    *)
Tier == IF redisUp THEN "redis" ELSE "process"

CacheHit(r) ==
  LET e == tiers[Tier][ask[r].key] IN
  /\ ask[r].pc = "get"
  /\ e.kind # "none"
  /\ Serves(r, e.kind, e.age)
  /\ UNCHANGED <<tv, redisUp, tiers, engine>>

CacheMiss(r) ==
  /\ ask[r].pc = "get"
  /\ tiers[Tier][ask[r].key].kind = "none"
  /\ ask' = [ask EXCEPT ![r].pc = "call"]
  /\ UNCHANGED <<tv, redisUp, tiers, engine, served>>

(* _post: the engine does not answer, or answers 4xx or 5xx: an error of   *)
(* 502, 503 or 422 and no cache entry.                                     *)
PostFails(r) ==
  /\ ask[r].pc = "call"
  /\ Serves(r, "error", 0)
  /\ UNCHANGED <<tv, redisUp, tiers, engine>>

Got(r, kind, age) ==
  ask' = [ask EXCEPT ![r].pc = "set",
                     ![r].got = [kind |-> kind, age |-> age, left |-> PreviewTtl]]

(* The engine's client has an analysis of the key.                         *)
EngineCached(k) == engine[k] <= EngineTtl

(* /tv/preview from the engine's cache.                                    *)
EngineHit(r) ==
  /\ ask[r].pc = "call" /\ tv # "off" /\ EngineCached(ask[r].key)
  /\ Got(r, "real", engine[ask[r].key])
  /\ UNCHANGED <<tv, redisUp, tiers, engine, served>>

(* /tv/preview from TradingView.                                           *)
EngineFetch(r) ==
  /\ ask[r].pc = "call" /\ tv = "up" /\ ~EngineCached(ask[r].key)
  /\ engine' = [engine EXCEPT ![ask[r].key] = 0]
  /\ Got(r, "real", 0)
  /\ UNCHANGED <<tv, redisUp, tiers, served>>

(* /tv/preview with ok = false, of which _normalize_preview makes a        *)
(* preview with score 0 and no timeframes.                                 *)
EngineNotOk(r) ==
  /\ ask[r].pc = "call"
  /\ tv = "off" \/ (tv = "failing" /\ ~EngineCached(ask[r].key))
  /\ Got(r, "empty", 0)
  /\ UNCHANGED <<tv, redisUp, tiers, engine, served>>

(* What _cache_set leaves.                                                 *)
Stored(k, e) == [tiers EXCEPT ![Tier][k] = e]

CacheSet(r) ==
  /\ ask[r].pc = "set"
  /\ tiers' = Stored(ask[r].key, ask[r].got)
  /\ Serves(r, ask[r].got.kind, ask[r].got.age)
  /\ UNCHANGED <<tv, redisUp, engine>>

-----------------------------------------------------------------------------
(* The world.                                                              *)

TVChanges ==
  /\ tv' \in {"up", "failing", "off"} \ {tv}
  /\ UNCHANGED <<redisUp, tiers, engine, ask, served>>

RedisFlips ==
  /\ redisUp' = ~redisUp
  /\ UNCHANGED <<tv, tiers, engine, ask, served>>

(* Slip: reading an entry does not look at its time to live.               *)
OlderFoundForEver(e) == [e EXCEPT !.age = IF @ < MaxAge THEN @ + 1 ELSE @]

(* An entry one tick later: gone when its time to live is over.            *)
Older(e) ==
  IF e.kind = "none" \/ e.left = 0 THEN NoEntry
                                   ELSE [e EXCEPT !.age = @ + 1, !.left = @ - 1]

Tick ==
  /\ \A r \in Requests : ask[r].pc # "set"
  /\ tiers' = [t \in Tiers |-> [k \in Keys |-> Older(tiers[t][k])]]
  /\ engine' = [k \in Keys |-> IF EngineCached(k) THEN engine[k] + 1 ELSE engine[k]]
  /\ <<tiers', engine'>> # <<tiers, engine>>
  /\ UNCHANGED <<tv, redisUp, ask, served>>

-----------------------------------------------------------------------------
Handles(r) ==
  \/ CacheHit(r) \/ CacheMiss(r) \/ PostFails(r)
  \/ EngineHit(r) \/ EngineFetch(r) \/ EngineNotOk(r) \/ CacheSet(r)

Next ==
  \/ \E r \in Requests : (\E k \in Keys : GetPreview(r, k)) \/ Handles(r)
  \/ TVChanges \/ RedisFlips \/ Tick

Spec == Init /\ [][Next]_vars

-----------------------------------------------------------------------------
(* However Redis comes and goes, what is served is no older than the two   *)
(* times to live together: the backend caches what the engine may already  *)
(* have cached, although the preview says it was generated when the        *)
(* engine answered (tradingview_service.py:341-362, client.py:161-172).    *)
StalenessIsBounded ==
  \A k \in Keys : served[k].kind = "real" => served[k].age <= PreviewTtl + EngineTtl

(* What tradingview_service.py:20-22 says: TradingView disabled is an      *)
(* error 503, an engine that fails a 502.  Violated: a failure arrives     *)
(* with status 200 and is served, and cached, as a neutral preview.        *)
FailuresAreErrors == \A k \in Keys : served[k].kind # "empty"
=============================================================================
