-------------------------- MODULE BackendSideProofs --------------------------
(***************************************************************************)
(* Proofs about the components of the backend.                             *)
(***************************************************************************)
EXTENDS BackendSide, FiniteSetTheorems, TLAPS

-----------------------------------------------------------------------------
(* A step of the whole is a step of each component or leaves it alone.     *)
LEMMA StepOfEach ==
  ASSUME [Next]_vars
  PROVE  /\ Bill!Next \/ UNCHANGED billing
         /\ Admin!Next \/ UNCHANGED admin
         /\ Mail!Next \/ UNCHANGED email
         /\ Limit!Next \/ UNCHANGED limiter
         /\ Auth!Next \/ UNCHANGED sessions
         /\ Gate!Next \/ UNCHANGED golive
         /\ Accounts!Next \/ UNCHANGED brokers
         /\ Rep!Next \/ UNCHANGED reports
BY DEF Next, vars

-----------------------------------------------------------------------------
(* GoLive: what the gate has passed, and what held meanwhile.              *)

(* A request at the gate.                                                  *)
Gating == [pc : Gate!Places, op : Gate!Ops, loaded : SUBSET Gate!Checks,
           passed : SUBSET Gate!Checks, held : SUBSET (Gate!Checks \cup {"signals_arrive"})]

(* What the request has read and passed held while it was under way, and   *)
(* so does what holds now: held only grows.                                *)
Witness(q, nowHolds) ==
  q.pc # "idle" => q.loaded \subseteq q.held /\ q.passed \subseteq q.held /\ nowHolds \subseteq q.held

GateInv ==
  /\ Gate!TypeOK
  /\ \A r \in GoLives : Witness(gate[r], Gate!HoldsNow)

LEMMA HoldsAreChecks ==
  ASSUME Gate!TypeOK
  PROVE  /\ holds \subseteq Gate!HoldsNow /\ holds \subseteq Gate!Checks
         /\ Gate!HoldsNow \subseteq Gate!Checks \cup {"signals_arrive"}
BY DEF Gate!TypeOK, Gate!HoldsNow, Gate!Checks

(* An answer other than down or an exception says that TradingView is up   *)
(* or failing: what the probe passes holds.                                *)
LEMMA HealthyHolds ==
  ASSUME Gate!TypeOK, Gate!Healthy(kind, tv)
  PROVE  "external_service_healthy" \in Gate!HoldsNow
<1>1. tv \in {"up", "failing", "disabled", "gone", "unavailable"}
  BY DEF Gate!TypeOK, Gate!Sources
<1>2. kind = "tv_signal" => tv \in {"up", "failing"}
  <2>1. CASE tv = "disabled"
    BY <2>1 DEF Gate!Healthy, Gate!HealthOf, Gate!Answer
  <2>2. CASE tv = "gone"
    BY <2>2 DEF Gate!Healthy, Gate!HealthOf
  <2>3. CASE tv = "unavailable"
    BY <2>3 DEF Gate!Healthy, Gate!HealthOf
  <2> QED
    BY <1>1, <2>1, <2>2, <2>3
<1> QED
  BY <1>2 DEF Gate!HoldsNow

LEMMA GateInvInit == Gate!Init => GateInv
<1> SUFFICES ASSUME Gate!Init PROVE GateInv
  OBVIOUS
<1>1. Gate!Idle \in Gating /\ Gate!Idle.pc = "idle"
  BY DEF Gate!Idle, Gating, Gate!Places, Gate!Ops
<1>2. gate \in [GoLives -> Gating] /\ \A r \in GoLives : gate[r].pc = "idle"
  BY <1>1 DEF Gate!Init
<1>3. turns \in 0..GateChanges
  BY BackendParameters DEF BackendParameters, Gate!Parameters, Gate!Init
<1>4. /\ kind \in Gate!Kinds /\ status \in Gate!Statuses /\ tv \in Gate!Sources
      /\ holds \in SUBSET (Gate!OfUser \cup Gate!Queried)
  BY DEF Gate!Init, Gate!Statuses
<1> QED
  BY <1>2, <1>3, <1>4 DEF GateInv, Gate!TypeOK, Gating, Witness

(* A request's own step.                                                   *)
LEMMA GateMoves ==
  ASSUME GateInv, NEW r \in GoLives, NEW q \in Gating, gate' = [gate EXCEPT ![r] = q],
         Witness(q, Gate!HoldsNow), UNCHANGED <<kind, holds, tv, turns>>,
         status' \in Gate!Statuses
  PROVE  GateInv'
<1>1. gate \in [GoLives -> Gating]
  BY DEF GateInv, Gate!TypeOK, Gating
<1>2. gate' \in [GoLives -> Gating] /\ \A s \in GoLives : gate'[s] = IF s = r THEN q ELSE gate[s]
  BY <1>1
<1>3. Gate!HoldsNow' = Gate!HoldsNow
  BY DEF Gate!HoldsNow
<1>4. \A s \in GoLives : Witness(gate'[s], Gate!HoldsNow')
  BY <1>2, <1>3 DEF GateInv
<1>5. Gate!TypeOK'
  BY <1>2 DEF GateInv, Gate!TypeOK, Gating
<1> QED
  BY <1>4, <1>5 DEF GateInv, Witness

LEMMA GateStepsKeepInv ==
  ASSUME GateInv, NEW r \in GoLives, Gate!Steps(r)
  PROVE  GateInv'
<1>0. /\ gate \in [GoLives -> Gating] /\ gate[r] \in Gating
      /\ status \in Gate!Statuses /\ Gate!TypeOK /\ Witness(gate[r], Gate!HoldsNow)
  BY DEF GateInv, Gate!TypeOK, Gating
<1>h. /\ holds \subseteq Gate!HoldsNow /\ holds \subseteq Gate!Checks
      /\ Gate!HoldsNow \subseteq Gate!Checks \cup {"signals_arrive"}
  BY <1>0, HoldsAreChecks
<1>i. Gate!Idle \in Gating /\ Witness(Gate!Idle, Gate!HoldsNow)
  BY DEF Gate!Idle, Gating, Gate!Places, Gate!Ops, Witness
(* Back to the start.                                                      *)
<1>1. ASSUME gate' = [gate EXCEPT ![r] = Gate!Idle], UNCHANGED <<kind, holds, tv, turns>>,
             status' \in Gate!Statuses
      PROVE  GateInv'
  BY <1>1, <1>i, GateMoves
(* On to a place with nothing newly read or passed.                        *)
<1>2. ASSUME NEW p \in Gate!Places, gate[r].pc # "idle", Gate!Goes(r, p), Gate!Stays
      PROVE  GateInv'
  <2> DEFINE q == [gate[r] EXCEPT !.pc = p]
  <2>1. q \in Gating /\ Witness(q, Gate!HoldsNow)
    BY <1>0, <1>2 DEF Gating, Witness
  <2>2. gate' = [gate EXCEPT ![r] = q] /\ UNCHANGED <<kind, holds, tv, turns, status>>
    BY <1>0, <1>2 DEF Gate!Goes, Gate!Stays
  <2> HIDE DEF q
  <2> QED
    BY <1>0, <2>1, <2>2, GateMoves
(* On to a place with more passed, all of which holds or was read.         *)
<1>3. ASSUME NEW p \in Gate!Places, NEW more \in SUBSET Gate!Checks,
             more \subseteq Gate!HoldsNow \cup gate[r].loaded, gate[r].pc # "idle",
             gate' = [gate EXCEPT ![r].pc = p, ![r].passed = gate[r].passed \cup more],
             Gate!Stays
      PROVE  GateInv'
  <2> DEFINE q == [gate[r] EXCEPT !.pc = p, !.passed = gate[r].passed \cup more]
  <2>1. gate' = [gate EXCEPT ![r] = q] /\ UNCHANGED <<kind, holds, tv, turns, status>>
    BY <1>0, <1>3 DEF Gate!Stays
  <2>2. q \in Gating
    BY <1>0, <1>3 DEF Gating
  <2>3. q.loaded = gate[r].loaded /\ q.held = gate[r].held /\ q.passed = gate[r].passed \cup more
    BY <1>0 DEF Gating
  <2>4. Witness(q, Gate!HoldsNow)
    BY <1>0, <1>3, <2>3 DEF Witness
  <2> HIDE DEF q
  <2> QED
    BY <1>0, <2>1, <2>2, <2>4, GateMoves
<1>4. ASSUME NEW op \in Gate!Ops, Gate!Begin(r, op) PROVE GateInv'
  <2> DEFINE q == [pc     |-> IF op = "go_live" THEN "guard" ELSE "instance",
                   op     |-> op,
                   loaded |-> holds \cap Gate!OfUser,
                   passed |-> {},
                   held   |-> Gate!HoldsNow]
  <2>1. gate' = [gate EXCEPT ![r] = q] /\ UNCHANGED <<kind, holds, tv, turns, status>>
    BY <1>4 DEF Gate!Begin, Gate!Stays
  <2>2. q.pc \in Gate!Places
    BY DEF Gate!Places
  <2>3. q \in Gating
    BY <1>h, <2>2 DEF Gating
  <2>4. Witness(q, Gate!HoldsNow)
    BY <1>h DEF Witness
  <2> HIDE DEF q
  <2> QED
    BY <1>0, <2>1, <2>3, <2>4, GateMoves
<1>5. CASE Gate!Guarded(r)
  BY <1>0, <1>1, <1>2, <1>5 DEF Gate!Guarded, Gate!Stays, Gate!Places
<1>6. CASE Gate!ReadsInstance(r)
  <2>1. CASE gate' = [gate EXCEPT ![r] = Gate!Idle]
    BY <1>0, <1>1, <1>6, <2>1 DEF Gate!ReadsInstance, Gate!Stays
  <2>2. CASE ~(gate[r].op = "go_live" /\ status = "killed")
    <3> DEFINE o == IF status = "live" THEN "preflight" ELSE gate[r].op
               l == gate[r].loaded \cup (holds \cap {"paper_days"})
               q == [gate[r] EXCEPT !.pc = "broker", !.op = o, !.loaded = l]
    <3>1. gate' = [gate EXCEPT ![r] = q] /\ gate[r].pc = "instance"
          /\ UNCHANGED <<kind, holds, tv, turns, status>>
      BY <1>0, <1>6, <2>2 DEF Gate!ReadsInstance, Gate!Stays
    <3>2. o \in Gate!Ops /\ l \subseteq Gate!Checks
      BY <1>0, <1>h DEF Gating, Gate!Ops
    <3> HIDE DEF o, l
    <3>3. q \in Gating /\ q.loaded = l /\ q.passed = gate[r].passed /\ q.held = gate[r].held
      BY <1>0, <3>2 DEF Gating, Gate!Places
    <3> HIDE DEF q
    <3>4. Witness(q, Gate!HoldsNow)
      BY <1>0, <1>h, <3>1, <3>3 DEF Witness, l
    <3> QED
      BY <1>0, <3>1, <3>3, <3>4, GateMoves
  <2> QED
    BY <1>6, <2>1, <2>2 DEF Gate!ReadsInstance
<1>7. CASE Gate!ReadsBroker(r)
  <2> DEFINE p == (gate[r].loaded \cap Gate!OfUser) \cup (holds \cap {"broker_min_balance"})
             q == [gate[r] EXCEPT !.pc = "paid", !.passed = p]
  <2>1. gate' = [gate EXCEPT ![r] = q] /\ gate[r].pc = "broker"
        /\ UNCHANGED <<kind, holds, tv, turns, status>>
    BY <1>0, <1>7 DEF Gate!ReadsBroker, Gate!Stays
  <2>2. p \subseteq Gate!Checks /\ p \subseteq gate[r].loaded \cup Gate!HoldsNow
    BY <1>0, <1>h DEF Gating
  <2> HIDE DEF p
  <2>3. q \in Gating /\ q.loaded = gate[r].loaded /\ q.passed = p /\ q.held = gate[r].held
    BY <1>0, <2>2 DEF Gating, Gate!Places
  <2> HIDE DEF q
  <2>4. Witness(q, Gate!HoldsNow)
    BY <1>0, <2>1, <2>2, <2>3 DEF Witness
  <2> QED
    BY <1>0, <2>1, <2>3, <2>4, GateMoves
<1>8. ASSUME NEW place \in Gate!Places, place # "idle", NEW checks, NEW next \in Gate!Places,
             Gate!Asks(r, place, checks, next)
      PROVE  GateInv'
  <2>1. /\ gate[r].pc # "idle" /\ Gate!Stays
        /\ gate' = [gate EXCEPT ![r].pc = next,
                                ![r].passed = gate[r].passed \cup (holds \cap checks)]
    BY <1>8 DEF Gate!Asks
  <2>2. holds \cap checks \subseteq Gate!Checks /\ holds \cap checks \subseteq Gate!HoldsNow
    BY <1>h
  <2> QED
    BY <1>3, <2>1, <2>2
<1>9. CASE Gate!AsksPaid(r) \/ Gate!AsksBacktest(r) \/ Gate!AsksConsent(r) \/ Gate!AsksKills(r)
  <2>1. {"paid", "backtest", "paper", "consent", "kills", "probe"} \subseteq Gate!Places
    BY DEF Gate!Places
  <2> QED
    BY <1>8, <1>9, <2>1 DEF Gate!AsksPaid, Gate!AsksBacktest, Gate!AsksConsent, Gate!AsksKills
<1>10. CASE Gate!AsksPaper(r)
  <2> DEFINE more == (gate[r].loaded \cap {"paper_days"})
                     \cup (IF "paper_days" \in gate[r].loaded
                           THEN holds \cap {"paper_trades"} ELSE {})
  <2>1. /\ gate[r].pc # "idle" /\ Gate!Stays
        /\ gate' = [gate EXCEPT ![r].pc = "consent", ![r].passed = gate[r].passed \cup more]
    BY <1>10 DEF Gate!AsksPaper
  <2>2. more \subseteq Gate!Checks /\ more \subseteq Gate!HoldsNow \cup gate[r].loaded
    BY <1>0, <1>h DEF Gating
  <2>3. "consent" \in Gate!Places
    BY DEF Gate!Places
  <2> HIDE DEF more
  <2> QED
    BY <1>3, <2>1, <2>2, <2>3
<1>11. CASE Gate!Probes(r)
  <2> DEFINE more == {c \in {"external_service_healthy"} : Gate!Healthy(kind, tv)}
  <2>1. /\ gate[r].pc # "idle" /\ Gate!Stays
        /\ gate' = [gate EXCEPT ![r].pc = "verdict", ![r].passed = gate[r].passed \cup more]
    BY <1>11 DEF Gate!Probes
  <2>2. more \subseteq Gate!Checks /\ more \subseteq Gate!HoldsNow
    BY <1>0, HealthyHolds DEF Gate!Checks
  <2>3. "verdict" \in Gate!Places
    BY DEF Gate!Places
  <2> HIDE DEF more
  <2> QED
    BY <1>3, <2>1, <2>2, <2>3
<1>12. CASE Gate!Judged(r)
  BY <1>0, <1>1, <1>2, <1>12 DEF Gate!Judged, Gate!Stays, Gate!Places
<1>13. CASE Gate!OmsAccepts(r) \/ Gate!OmsRefuses(r)
  BY <1>0, <1>1, <1>2, <1>13 DEF Gate!OmsAccepts, Gate!OmsRefuses, Gate!Stays, Gate!Places
<1>14. CASE Gate!Commit(r)
  BY <1>0, <1>1, <1>14 DEF Gate!Commit, Gate!Statuses
<1> QED
  BY <1>4, <1>5, <1>6, <1>7, <1>9, <1>10, <1>11, <1>12, <1>13, <1>14 DEF Gate!Steps

(* What changes meanwhile is witnessed by every request under way.         *)
LEMMA ChangesAreWitnessed ==
  ASSUME GateInv, Gate!Witnessed, kind' = kind, tv' \in Gate!Sources,
         holds' \subseteq Gate!OfUser \cup Gate!Queried, status' \in Gate!Statuses,
         turns < GateChanges, turns' = turns + 1
  PROVE  GateInv'
<1>0. gate \in [GoLives -> Gating]
  BY DEF GateInv, Gate!TypeOK, Gating
<1>1. turns' \in 0..GateChanges
  BY BackendParameters DEF BackendParameters, Gate!Parameters, GateInv, Gate!TypeOK
<1>2. Gate!HoldsNow' \subseteq Gate!Checks \cup {"signals_arrive"}
  BY DEF Gate!HoldsNow, Gate!Checks
<1>3. \A r \in GoLives : gate'[r] = IF gate[r].pc = "idle" THEN gate[r]
                                    ELSE [gate[r] EXCEPT !.held = gate[r].held \cup Gate!HoldsNow']
  BY DEF Gate!Witnessed
<1>4. ASSUME NEW r \in GoLives
      PROVE  gate'[r] \in Gating /\ Witness(gate'[r], Gate!HoldsNow')
  <2>1. CASE gate[r].pc = "idle"
    BY <1>0, <1>3, <2>1 DEF Witness
  <2>2. CASE gate[r].pc # "idle"
    <3> DEFINE h == gate[r].held \cup Gate!HoldsNow'
               q == [gate[r] EXCEPT !.held = h]
    <3>1. h \subseteq Gate!Checks \cup {"signals_arrive"} /\ gate'[r] = q
      BY <1>0, <1>2, <1>3, <2>2 DEF Gating
    <3>2. gate[r].held \subseteq h /\ Gate!HoldsNow' \subseteq h
      OBVIOUS
    <3> HIDE DEF h
    <3>3. q \in Gating /\ q.loaded = gate[r].loaded /\ q.passed = gate[r].passed /\ q.held = h
      BY <1>0, <3>1 DEF Gating
    <3>4. gate[r].loaded \subseteq gate[r].held /\ gate[r].passed \subseteq gate[r].held
      BY <2>2 DEF GateInv, Witness
    <3> QED
      BY <3>1, <3>2, <3>3, <3>4 DEF Witness
  <2> QED
    BY <2>1, <2>2
<1>5. gate' \in [GoLives -> Gating]
  BY <1>4 DEF Gate!Witnessed
<1>6. Gate!TypeOK'
  BY <1>1, <1>5 DEF GateInv, Gate!TypeOK, Gating
<1> QED
  BY <1>4, <1>6 DEF GateInv, Witness

LEMMA GateInvNext == GateInv /\ [Next]_vars => GateInv'
<1> SUFFICES ASSUME GateInv, [Next]_vars PROVE GateInv'
  OBVIOUS
<1>0. /\ holds \subseteq Gate!OfUser \cup Gate!Queried /\ tv \in Gate!Sources
      /\ status \in Gate!Statuses
  BY DEF GateInv, Gate!TypeOK
<1>1. ASSUME NEW r \in GoLives, Gate!Steps(r) PROVE GateInv'
  BY <1>1, GateStepsKeepInv
<1>2. ASSUME NEW c \in Gate!Checks, Gate!Gains(c) \/ Gate!Turns(c) PROVE GateInv'
  BY <1>0, <1>2, ChangesAreWitnessed
     DEF Gate!Gains, Gate!Turns, Gate!Changes, Gate!OfUser, Gate!Queried
<1>3. CASE Gate!Restarts \/ Gate!Kills \/ Gate!DaysPass
  BY <1>0, <1>3, ChangesAreWitnessed
     DEF Gate!Restarts, Gate!Kills, Gate!DaysPass, Gate!Changes, Gate!Statuses, Gate!OfUser,
         Gate!Queried
<1>4. CASE Gate!Stops
  <2>1. status' \in Gate!Statuses /\ UNCHANGED <<kind, holds, tv, turns, gate>>
    BY <1>4 DEF Gate!Stops, Gate!Statuses
  <2> QED
    BY <2>1 DEF GateInv, Gate!TypeOK, Gate!HoldsNow, Witness
<1>5. ASSUME NEW source \in Gate!Sources, Gate!TradingViewTurns(source) PROVE GateInv'
  BY <1>0, <1>5, ChangesAreWitnessed DEF Gate!TradingViewTurns
<1>6. CASE UNCHANGED golive
  BY <1>6 DEF golive, GateInv, Gate!TypeOK, Gate!HoldsNow, Witness
<1> QED
  BY <1>1, <1>2, <1>3, <1>4, <1>5, <1>6, StepOfEach DEF Gate!Next

(* Whatever turns while the gate asks, what a request has passed held at   *)
(* some moment since it began.                                             *)
THEOREM GateInvariant == Spec => []GateInv
<1>1. Init => GateInv
  BY GateInvInit DEF Init
<1> QED
  BY <1>1, GateInvNext, PTL DEF Spec

(* However the answers change while the gate asks, with any number of      *)
(* requests: a request that passes has seen each check hold.               *)
THEOREM PassedHeld == Spec => []EveryCheckHeld
<1>1. GateInv => EveryCheckHeld
  BY DEF GateInv, Witness, EveryCheckHeld, Gate!EveryCheckHeld, Gate!Passes
<1> QED
  BY <1>1, GateInvariant, PTL

-----------------------------------------------------------------------------
(* Sessions: what was given back.                                          *)

LEMMA AuthConstants == Life \in Nat /\ MaxAuthTime \in Nat
BY BackendParameters DEF BackendParameters, Auth!Parameters

(* A call, a token and a user's row.                                       *)
Call  == [pc : {"idle", "signup", "load", "revoke", "mint"}, user : SUBSET Users,
          token : SUBSET Tokens, email : SUBSET Emails, late : BOOLEAN]
Token == [user : SUBSET Users, until : Nat]
Row   == [state : {"absent", "live", "gone"}, email : SUBSET Emails]

AuthTyped ==
  /\ now \in 0..MaxAuthTime
  /\ row \in [Users -> Row] /\ token \in [Tokens -> Token]
  /\ denied \in [Tokens -> Nat] /\ stored \subseteq Tokens
  /\ call \in [Callers -> Call]

(* The entry of a token that was given back is there as long as the token  *)
(* would decode; only a token that was minted is given back.               *)
Buried ==
  \A t \in stored :
    token[t].user # {} /\ (now < token[t].until => denied[t] >= token[t].until)

(* The token a call is about was minted; a call that is late there is not. *)
Honest(q) == (\A t \in q.token : token[t].user # {}) /\ q.late = FALSE

AuthInv ==
  /\ AuthTyped /\ storeUp \in BOOLEAN
  /\ Buried
  /\ \A c \in Callers : Honest(call[c])
  /\ Auth!EmailIsUnique

LEMMA AuthInvTypes == AuthInv => Auth!TypeOK
BY DEF AuthInv, AuthTyped, Auth!TypeOK, Row, Token, Call

LEMMA IdleIsCall == Auth!Idle \in Call /\ Honest(Auth!Idle)
BY DEF Auth!Idle, Call, Honest

LEMMA AuthInvInit == Auth!Init => AuthInv
<1> SUFFICES ASSUME Auth!Init PROVE AuthInv
  OBVIOUS
<1>1. /\ now = 0 /\ stored = {} /\ storeUp = TRUE
      /\ row = [u \in Users |-> [state |-> "absent", email |-> {}]]
      /\ token = [t \in Tokens |-> [user |-> {}, until |-> 0]]
      /\ denied = [t \in Tokens |-> 0] /\ call = [c \in Callers |-> Auth!Idle]
  BY DEF Auth!Init
<1>2. AuthTyped
  <2>1. now \in 0..MaxAuthTime
    BY <1>1, AuthConstants
  <2>2. row \in [Users -> Row]
    BY <1>1 DEF Row
  <2>3. token \in [Tokens -> Token] /\ denied \in [Tokens -> Nat]
    BY <1>1 DEF Token
  <2>4. call \in [Callers -> Call] /\ stored \subseteq Tokens
    BY <1>1, IdleIsCall
  <2> QED
    BY <2>1, <2>2, <2>3, <2>4 DEF AuthTyped
<1>3. Buried /\ \A c \in Callers : Honest(call[c])
  BY <1>1, IdleIsCall DEF Buried
<1>4. Auth!EmailIsUnique
  BY <1>1 DEF Auth!EmailIsUnique, Auth!Live
<1>5. storeUp \in BOOLEAN
  BY <1>1
<1> QED
  BY <1>2, <1>3, <1>4, <1>5 DEF AuthInv

(* A call goes on as q, and nothing else happens.                          *)
LEMMA CallMoves ==
  ASSUME AuthInv, NEW c \in Callers, NEW q \in Call, Honest(q), call' = [call EXCEPT ![c] = q],
         UNCHANGED <<now, row, token, denied, stored, storeUp>>
  PROVE  AuthInv'
<1>1. /\ call' \in [Callers -> Call]
      /\ \A d \in Callers : call'[d] = IF d = c THEN q ELSE call[d]
  BY DEF AuthInv, AuthTyped
<1>2. \A d \in Callers : Honest(call'[d])
  BY <1>1 DEF AuthInv
<1>3. \A d \in Callers : Honest(call[d])'
  BY <1>2 DEF Honest
<1> QED
  BY <1>1, <1>3 DEF AuthInv, AuthTyped, Buried, Auth!EmailIsUnique, Auth!Live

(* A token of a call, or one that decodes, is given back.                  *)
LEMMA RevokeBuries ==
  ASSUME AuthInv, NEW t \in Tokens, token[t].user # {}, Auth!Revoke(t),
         UNCHANGED <<now, row, token, storeUp>>,
         call' \in [Callers -> Call], \A c \in Callers : Honest(call'[c])
  PROVE  AuthInv'
<1>0. /\ now \in Nat /\ token[t].until \in Nat /\ denied \in [Tokens -> Nat]
      /\ stored \subseteq Tokens /\ Buried /\ AuthTyped /\ Auth!EmailIsUnique
      /\ storeUp \in BOOLEAN
  BY AuthConstants DEF AuthInv, AuthTyped, Token
<1>1. /\ now + Auth!EntryLives(t) >= token[t].until
      /\ now + Auth!EntryLives(t) \in Nat
  BY <1>0 DEF Auth!EntryLives
<1>2. /\ denied' \in [Tokens -> Nat] /\ stored' \subseteq Tokens
      /\ \A s \in stored' :
           \/ s \in stored /\ denied'[s] = denied[s]
           \/ s = t /\ denied'[s] >= token[t].until
  <2> DEFINE until == now + Auth!EntryLives(t)
  <2>1. \/ denied' = [denied EXCEPT ![t] = until] /\ stored' = stored \cup {t}
        \/ UNCHANGED <<denied, stored>>
    BY DEF Auth!Revoke
  <2>2. until \in Nat /\ until >= token[t].until
    BY <1>1
  <2> HIDE DEF until
  <2> QED
    BY <1>0, <2>1, <2>2
<1>3. Buried'
  BY <1>0, <1>2 DEF Buried
<1>4. \A c \in Callers : Honest(call[c])'
  BY DEF Honest
<1>5. AuthTyped' /\ (storeUp \in BOOLEAN)' /\ Auth!EmailIsUnique'
  BY <1>0, <1>2 DEF AuthTyped, Auth!EmailIsUnique, Auth!Live
<1> QED
  BY <1>3, <1>4, <1>5 DEF AuthInv

LEMMA AuthSignup ==
  ASSUME AuthInv, NEW c \in Callers,
         \/ \E e \in Emails : Auth!SignupLookup(c, e)
         \/ \E u \in Users : Auth!Login(c, u)
         \/ Auth!SignupInsert(c)
  PROVE  AuthInv'
<1>0. /\ row \in [Users -> Row] /\ call[c] \in Call /\ call \in [Callers -> Call]
      /\ \A d \in Callers : Honest(call[d])
  BY DEF AuthInv, AuthTyped
<1>1. ASSUME NEW e \in Emails, Auth!SignupLookup(c, e) PROVE AuthInv'
  <2> DEFINE q == [Auth!Idle EXCEPT !.pc = "signup", !.email = {e}]
  <2>1. q \in Call /\ Honest(q)
    BY DEF Auth!Idle, Call, Honest
  <2>2. call' = [call EXCEPT ![c] = q] /\ UNCHANGED <<now, row, token, denied, stored, storeUp>>
    BY <1>1 DEF Auth!SignupLookup, Auth!Does
  <2> HIDE DEF q
  <2> QED
    BY <2>1, <2>2, CallMoves
<1>2. ASSUME NEW u \in Users
      PROVE  [Auth!Idle EXCEPT !.pc = "mint", !.user = {u}] \in Call
             /\ Honest([Auth!Idle EXCEPT !.pc = "mint", !.user = {u}])
  BY DEF Auth!Idle, Call, Honest
<1>3. ASSUME NEW u \in Users, Auth!Login(c, u) PROVE AuthInv'
  <2> DEFINE q == [Auth!Idle EXCEPT !.pc = "mint", !.user = {u}]
  <2>1. call' = [call EXCEPT ![c] = q] /\ UNCHANGED <<now, row, token, denied, stored, storeUp>>
    BY <1>3 DEF Auth!Login, Auth!Does
  <2>2. q \in Call /\ Honest(q)
    BY <1>2
  <2> HIDE DEF q
  <2> QED
    BY <2>1, <2>2, CallMoves
<1>4. ASSUME NEW u \in Users, Auth!IndexAdmits(call[c].email), Auth!SignupInsert(c),
             row' = [row EXCEPT ![u] = [state |-> "live", email |-> call[c].email]],
             Auth!Does(c, [Auth!Idle EXCEPT !.pc = "mint", !.user = {u}])
      PROVE  AuthInv'
  <2> DEFINE q == [Auth!Idle EXCEPT !.pc = "mint", !.user = {u}]
             r == [state |-> "live", email |-> call[c].email]
  <2>1. UNCHANGED <<now, token, denied, stored, storeUp>>
    BY <1>4 DEF Auth!SignupInsert
  <2>2. q \in Call /\ Honest(q) /\ call' = [call EXCEPT ![c] = q]
    BY <1>2, <1>4 DEF Auth!Does
  <2>3. r \in Row /\ r.state = "live" /\ r.email = call[c].email
    BY <1>0 DEF Row, Call
  <2> HIDE DEF q, r
  <2>4. /\ row' \in [Users -> Row]
        /\ \A v \in Users : row'[v] = IF v = u THEN r ELSE row[v]
    BY <1>0, <1>4, <2>3 DEF r
  <2>5. \A v \in Users : row[v].state = "live" => row[v].email # call[c].email
    BY <1>4 DEF Auth!IndexAdmits, Auth!Registered, Auth!Live
  <2>6. Auth!EmailIsUnique'
    BY <2>3, <2>4, <2>5 DEF AuthInv, Auth!EmailIsUnique, Auth!Live
  <2>7. /\ call' \in [Callers -> Call]
        /\ \A d \in Callers : Honest(call'[d])
    BY <1>0, <2>2
  <2>8. \A d \in Callers : Honest(call[d])'
    BY <2>1, <2>7 DEF Honest
  <2> QED
    BY <2>1, <2>4, <2>6, <2>7, <2>8 DEF AuthInv, AuthTyped, Buried
<1>5. CASE Auth!SignupInsert(c)
  BY <1>4, <1>5, IdleIsCall, CallMoves DEF Auth!SignupInsert, Auth!Does
<1> QED
  BY <1>1, <1>3, <1>5

LEMMA AuthRefresh ==
  ASSUME AuthInv, NEW c \in Callers,
         \/ \E t \in Tokens : Auth!RefreshCheck(c, t)
         \/ Auth!RefreshLoad(c) \/ Auth!RefreshRevoke(c) \/ Auth!Mint(c) \/ Auth!Fails(c)
  PROVE  AuthInv'
<1>0. /\ call \in [Callers -> Call] /\ call[c] \in Call /\ token \in [Tokens -> Token]
      /\ \A d \in Callers : Honest(call[d])
      /\ now \in Nat /\ Life \in Nat /\ denied \in [Tokens -> Nat] /\ stored \subseteq Tokens
      /\ Buried
  BY AuthConstants DEF AuthInv, AuthTyped
<1>1. ASSUME NEW p \in {"revoke", "mint"}
      PROVE  [call[c] EXCEPT !.pc = p] \in Call /\ Honest([call[c] EXCEPT !.pc = p])
  BY <1>0 DEF Call, Honest
<1>2. ASSUME NEW t \in Tokens, Auth!RefreshCheck(c, t) PROVE AuthInv'
  <2>1. token[t].user # {} /\ now < token[t].until /\ ~(storeUp /\ denied[t] > now)
    BY <1>2 DEF Auth!RefreshCheck, Auth!Decodes, Auth!Refused
  <2>2. t \in stored => denied[t] > now
    BY <1>0, <2>1 DEF Buried, Token
  <2>3. (storeUp /\ t \in stored) = FALSE
    BY <2>1, <2>2
  <2> DEFINE q == [Auth!Idle EXCEPT !.pc = "load", !.token = {t}, !.user = token[t].user,
                                    !.late = FALSE]
  <2>4. call' = [call EXCEPT ![c] = q] /\ UNCHANGED <<now, row, token, denied, stored, storeUp>>
    BY <1>2, <2>3 DEF Auth!RefreshCheck, Auth!Does
  <2>5. token[t].user \in SUBSET Users
    BY <1>0 DEF Token
  <2>6. q \in Call /\ Honest(q)
    BY <2>1, <2>5 DEF Auth!Idle, Call, Honest
  <2> HIDE DEF q
  <2> QED
    BY <2>4, <2>6, CallMoves
<1>3. CASE Auth!RefreshLoad(c)
  <2> DEFINE q == [call[c] EXCEPT !.pc = "revoke"]
  <2>1. q \in Call /\ Honest(q)
    BY <1>1
  <2>2. /\ call' = [call EXCEPT ![c] = q] \/ call' = [call EXCEPT ![c] = Auth!Idle]
        /\ UNCHANGED <<now, row, token, denied, stored, storeUp>>
    BY <1>0, <1>3 DEF Auth!RefreshLoad, Auth!Does
  <2> HIDE DEF q
  <2> QED
    BY <2>1, <2>2, IdleIsCall, CallMoves
<1>4. CASE Auth!RefreshRevoke(c)
  <2> DEFINE q == [call[c] EXCEPT !.pc = "mint"]
  <2>1. PICK t \in call[c].token : Auth!Revoke(t)
    BY <1>4 DEF Auth!RefreshRevoke
  <2>2. t \in Tokens /\ token[t].user # {}
    BY <1>0 DEF Call, Honest
  <2>3. q \in Call /\ Honest(q)
    BY <1>1
  <2>4. call' = [call EXCEPT ![c] = q] /\ UNCHANGED <<now, row, token, storeUp>>
    BY <1>0, <1>4 DEF Auth!RefreshRevoke
  <2> HIDE DEF q
  <2>5. call' \in [Callers -> Call] /\ \A d \in Callers : Honest(call'[d])
    BY <1>0, <2>3, <2>4
  <2> QED
    BY <2>1, <2>2, <2>4, <2>5, RevokeBuries
<1>5. CASE Auth!Mint(c)
  <2>1. PICK t \in Tokens :
          /\ token[t].user = {}
          /\ token' = [token EXCEPT ![t] = [user |-> call[c].user, until |-> now + Life]]
    BY <1>5 DEF Auth!Mint
  <2>2. call' = [call EXCEPT ![c] = Auth!Idle] /\ UNCHANGED <<now, row, denied, stored, storeUp>>
    BY <1>5 DEF Auth!Mint, Auth!Does
  <2>3. [user |-> call[c].user, until |-> now + Life] \in Token
    BY <1>0 DEF Call, Token
  <2>4. /\ token' \in [Tokens -> Token]
        /\ \A s \in Tokens : token[s].user # {} => token'[s] = token[s]
    BY <1>0, <2>1, <2>3
  <2>5. Buried'
    BY <1>0, <2>2, <2>4 DEF Buried
  <2>6. /\ call' \in [Callers -> Call]
        /\ \A d \in Callers : Honest(call'[d]) /\ call'[d].token \subseteq Tokens
    BY <1>0, <2>2, IdleIsCall DEF Call
  <2>7. \A d \in Callers : Honest(call[d])'
    BY <2>4, <2>6 DEF Honest
  <2> QED
    BY <2>2, <2>4, <2>5, <2>6, <2>7 DEF AuthInv, AuthTyped, Auth!EmailIsUnique, Auth!Live
<1>6. CASE Auth!Fails(c)
  BY <1>6, IdleIsCall, CallMoves DEF Auth!Fails, Auth!Does
<1> QED
  BY <1>2, <1>3, <1>4, <1>5, <1>6

LEMMA AuthInvNext == AuthInv /\ [Next]_vars => AuthInv'
<1> SUFFICES ASSUME AuthInv, [Next]_vars PROVE AuthInv'
  OBVIOUS
<1>0. /\ AuthTyped /\ Buried /\ Auth!EmailIsUnique /\ storeUp \in BOOLEAN
      /\ \A c \in Callers : Honest(call[c])
  BY DEF AuthInv
<1>1. ASSUME NEW t \in Tokens, Auth!Logout(t) PROVE AuthInv'
  BY <1>0, <1>1, RevokeBuries DEF Auth!Logout, Auth!Decodes, AuthTyped
<1>2. ASSUME UNCHANGED <<now, token, denied, stored, storeUp, call>>,
             row' \in [Users -> Row], Auth!EmailIsUnique'
      PROVE  AuthInv'
  BY <1>0, <1>2 DEF AuthInv, AuthTyped, Buried, Honest
<1>3. ASSUME NEW u \in Users, Auth!Delete(u) PROVE AuthInv'
  <2>1. /\ row' = [row EXCEPT ![u].state = "gone"]
        /\ UNCHANGED <<now, token, denied, stored, storeUp, call>>
    BY <1>3 DEF Auth!Delete
  <2>2. row' \in [Users -> Row] /\ Auth!EmailIsUnique'
    BY <1>0, <2>1 DEF AuthTyped, Row, Auth!EmailIsUnique, Auth!Live
  <2> QED
    BY <1>2, <2>1, <2>2
<1>4. ASSUME NEW u \in Users, Auth!Unban(u) PROVE AuthInv'
  <2>1. /\ row' = [row EXCEPT ![u].state = "live"]
        /\ \A v \in Users : row[v].state = "live" => row[v].email # row[u].email
        /\ UNCHANGED <<now, token, denied, stored, storeUp, call>>
    BY <1>4 DEF Auth!Unban, Auth!IndexAdmits, Auth!Registered, Auth!Live
  <2>2. row' \in [Users -> Row] /\ Auth!EmailIsUnique'
    BY <1>0, <2>1 DEF AuthTyped, Row, Auth!EmailIsUnique, Auth!Live
  <2> QED
    BY <1>2, <2>1, <2>2
<1>5. CASE Auth!RedisTurns
  <2>1. (storeUp \in BOOLEAN)' /\ UNCHANGED <<now, row, token, denied, stored, call>>
    BY <1>5 DEF Auth!RedisTurns
  <2> QED
    BY <1>0, <2>1 DEF AuthInv, AuthTyped, Buried, Honest, Auth!EmailIsUnique, Auth!Live
<1>6. CASE Auth!Tick
  <2>1. /\ now < MaxAuthTime /\ now' = now + 1
        /\ denied' = [t \in Tokens |-> IF denied[t] <= now + 1 THEN 0 ELSE denied[t]]
        /\ UNCHANGED <<row, token, stored, storeUp, call>>
    BY <1>6 DEF Auth!Tick
  <2>2. now \in Nat /\ now' \in 0..MaxAuthTime
    BY <1>0, <2>1, AuthConstants DEF AuthTyped
  <2>3. denied' \in [Tokens -> Nat]
    BY <1>0, <2>1 DEF AuthTyped
  <2>4. Buried'
    BY <1>0, <2>1, <2>2 DEF AuthTyped, Buried, Token
  <2> QED
    BY <1>0, <2>1, <2>2, <2>3, <2>4
       DEF AuthInv, AuthTyped, Honest, Auth!EmailIsUnique, Auth!Live
<1>7. CASE UNCHANGED sessions
  BY <1>0, <1>7 DEF sessions, AuthInv, AuthTyped, Buried, Honest, Auth!EmailIsUnique, Auth!Live
<1> QED
  BY <1>1, <1>3, <1>4, <1>5, <1>6, <1>7, AuthSignup, AuthRefresh, StepOfEach DEF Auth!Next

(* A token given back is denied until it expires, and no two users that    *)
(* are not deleted share an address.                                       *)
THEOREM AuthInvariant == Spec => []AuthInv
<1>1. Init => AuthInv
  BY AuthInvInit DEF Init
<1> QED
  BY <1>1, AuthInvNext, PTL DEF Spec

(* Whatever Redis does and however calls cross, a token given back is      *)
(* refused for the rest of its life to whoever comes while Redis answers.  *)
THEOREM NeverServedAgain == Spec => []GivenBackIsRefused
<1>1. AuthInv => GivenBackIsRefused
  BY DEF AuthInv, Honest, GivenBackIsRefused, Auth!GivenBackIsRefused
<1> QED
  BY <1>1, AuthInvariant, PTL

(* However sign-ups race and users come back, two users who are not        *)
(* deleted have two addresses.                                             *)
THEOREM AddressesAreUnique == Spec => []Auth!EmailIsUnique
<1>1. AuthInv => Auth!EmailIsUnique
  BY DEF AuthInv
<1> QED
  BY <1>1, AuthInvariant, PTL

-----------------------------------------------------------------------------
(* Administration: what two must ask for.                                  *)

(* The component's notion of a size is the usual one.                      *)
LEMMA AdminSize == \A S : Admin!Cardinality(S) = Cardinality(S)
BY DEF Admin!Cardinality, Cardinality

LEMMA AdminConstants == AdminChanges \in Nat /\ Owner \in [Instances -> Admins]
BY BackendParameters DEF BackendParameters, Admin!Parameters

(* An administrator's request.                                             *)
Work == [pc : Admin!PCs, op : Admin!Ops, need : 1..2, seen : SUBSET Admins]

(* An approval under the key of an operation is of someone who asked for   *)
(* it, and who has a request under way has asked for its operation.        *)
AdminInv ==
  /\ Admin!TypeOK
  /\ \A k \in Admin!Ops : pending[k] \subseteq asked[k]
  /\ \A a \in Admins : work[a].pc # "idle" => a \in asked[work[a].op]

LEMMA AdminInvInit == Admin!Init => AdminInv
<1> SUFFICES ASSUME Admin!Init PROVE AdminInv
  OBVIOUS
<1>1. Admin!Idle \in Work /\ Admin!Idle.pc = "idle"
  BY DEF Admin!Idle, Work, Admin!PCs, Admin!Ops
<1>2. work \in [Admins -> Work] /\ \A a \in Admins : work[a].pc = "idle"
  BY <1>1 DEF Admin!Init
<1>3. /\ role \in [Admins -> {"admin", "user"}] /\ inst \in [Instances -> {"paper", "live", "killed"}]
      /\ gone = {} /\ timed = {} /\ changes = 0
      /\ pending = [k \in Admin!ApprovalKeys |-> {}] /\ asked = [o \in Admin!Ops |-> {}]
  BY DEF Admin!Init
<1>4. flag \in BOOLEAN /\ redisUp \in BOOLEAN
  <2>1. flag = FALSE /\ redisUp = TRUE
    BY DEF Admin!Init
  <2> QED
    BY <2>1
<1>5. changes \in 0..AdminChanges
  BY <1>3, AdminConstants
<1> QED
  BY <1>2, <1>3, <1>4, <1>5 DEF AdminInv, Admin!TypeOK, Work, Admin!ApprovalKeys

(* A request's step: the record it gets, and what becomes of the approvals *)
(* in Redis and of those who asked.                                        *)
LEMMA WorkMoves ==
  ASSUME AdminInv, NEW a \in Admins, NEW q \in Work, work' = [work EXCEPT ![a] = q],
         pending' \in [Admin!ApprovalKeys -> SUBSET Admins], asked' \in [Admin!Ops -> SUBSET Admins],
         \A k \in Admin!Ops : pending'[k] \subseteq asked'[k] /\ asked[k] \subseteq asked'[k],
         q.pc # "idle" => a \in asked'[q.op],
         inst' \in [Instances -> {"paper", "live", "killed"}],
         flag' \in BOOLEAN, timed' \subseteq Admin!ApprovalKeys,
         UNCHANGED <<role, gone, redisUp, changes>>
  PROVE  AdminInv'
<1>0. work \in [Admins -> Work]
  BY DEF AdminInv, Admin!TypeOK, Work
<1>1. work' \in [Admins -> Work] /\ \A b \in Admins : work'[b] = IF b = a THEN q ELSE work[b]
  BY <1>0
<1>2. \A b \in Admins : work'[b].pc # "idle" => b \in asked'[work'[b].op]
  <2> TAKE b \in Admins
  <2>1. CASE b = a
    BY <1>1, <2>1
  <2>2. CASE b # a
    BY <1>0, <1>1, <2>2 DEF AdminInv, Work
  <2> QED
    BY <2>1, <2>2
<1>3. Admin!TypeOK'
  BY <1>1 DEF AdminInv, Admin!TypeOK, Work
<1> QED
  BY <1>2, <1>3 DEF AdminInv

LEMMA AdminRequests ==
  ASSUME AdminInv, NEW a \in Admins,
         \/ \E op \in Admin!Ops : Admin!Ask(a, op)
         \/ Admin!Adds(a) \/ Admin!Collects(a) \/ Admin!CollectFails(a)
         \/ Admin!Flags(a) \/ Admin!Clears(a) \/ Admin!FlagFails(a)
         \/ Admin!Applies(a) \/ Admin!RequestDies(a)
  PROVE  AdminInv'
<1>0. /\ work \in [Admins -> Work] /\ work[a] \in Work
      /\ pending \in [Admin!ApprovalKeys -> SUBSET Admins] /\ asked \in [Admin!Ops -> SUBSET Admins]
      /\ inst \in [Instances -> {"paper", "live", "killed"}]
      /\ flag \in BOOLEAN /\ timed \subseteq Admin!ApprovalKeys /\ Admin!ApprovalKeys = Admin!Ops
      /\ \A k \in Admin!Ops : pending[k] \subseteq asked[k]
      /\ work[a].op \in Admin!Ops
      /\ work[a].pc # "idle" => a \in asked[work[a].op]
  BY DEF AdminInv, Admin!TypeOK, Admin!ApprovalKeys, Work
<1>i. Admin!Idle \in Work /\ Admin!Idle.pc = "idle"
  BY DEF Admin!Idle, Work, Admin!PCs, Admin!Ops
<1>p. ASSUME NEW p \in Admin!PCs
      PROVE  /\ [work[a] EXCEPT !.pc = p] \in Work
             /\ [work[a] EXCEPT !.pc = p].op = work[a].op
  BY <1>0 DEF Work
<1>d. ASSUME NEW approvals \in SUBSET Admins
      PROVE  /\ Admin!Decided(a, approvals) \in Work
             /\ Admin!Decided(a, approvals).pc # "idle" =>
                  Admin!Decided(a, approvals).op = work[a].op
  <2> DEFINE g == [work[a] EXCEPT !.pc = "granted", !.seen = approvals]
  <2>1. g \in Work /\ g.op = work[a].op
    BY <1>0 DEF Work, Admin!PCs
  <2>2. Admin!Decided(a, approvals) = g \/ Admin!Decided(a, approvals) = Admin!Idle
    BY DEF Admin!Decided
  <2> HIDE DEF g
  <2> QED
    BY <1>i, <2>1, <2>2
<1>1. ASSUME NEW op \in Admin!Ops, Admin!Ask(a, op) PROVE AdminInv'
  <2> DEFINE g == [pc |-> "granted", op |-> op, need |-> 1, seen |-> {a}]
             n == [pc |-> "counted", op |-> op, need |-> 2, seen |-> {}]
  <2>1. /\ work' = [work EXCEPT ![a] = g] \/ work' = [work EXCEPT ![a] = n]
        /\ asked' = [asked EXCEPT ![op] = @ \cup {a}]
        /\ UNCHANGED <<role, gone, inst, flag, pending, timed, redisUp, changes>>
    BY <1>1 DEF Admin!Ask
  <2>2. g \in Work /\ g.op = op /\ n \in Work /\ n.op = op
    BY DEF Work, Admin!PCs
  <2> HIDE DEF g, n
  <2>3. /\ asked' \in [Admin!Ops -> SUBSET Admins] /\ a \in asked'[op]
        /\ \A k \in Admin!Ops : asked[k] \subseteq asked'[k]
    BY <1>0, <2>1
  <2> QED
    BY <1>0, <2>1, <2>2, <2>3, WorkMoves
<1>2. CASE Admin!Adds(a)
  <2> DEFINE q == [work[a] EXCEPT !.pc = "added"]
  <2>1. /\ work' = [work EXCEPT ![a] = q] /\ work[a].pc = "counted"
        /\ pending' = [pending EXCEPT ![work[a].op] = @ \cup {a}]
        /\ UNCHANGED <<role, gone, inst, flag, timed, redisUp, changes, asked>>
    BY <1>0, <1>2 DEF Admin!Adds, Admin!KeyOf, Admin!At
  <2>2. q \in Work /\ q.op = work[a].op
    BY <1>p DEF Admin!PCs
  <2> HIDE DEF q
  <2>3. /\ pending' \in [Admin!ApprovalKeys -> SUBSET Admins]
        /\ \A k \in Admin!Ops : pending'[k] \subseteq asked[k]
    BY <1>0, <2>1
  <2> QED
    BY <1>0, <2>1, <2>2, <2>3, WorkMoves
<1>3. CASE Admin!Collects(a) \/ Admin!CollectFails(a)
  <2>1. PICK approvals \in SUBSET Admins :
          work' = [work EXCEPT ![a] = Admin!Decided(a, approvals)]
    BY <1>0, <1>3 DEF Admin!Collects, Admin!CollectFails, Admin!KeyOf
  <2>2. /\ work[a].pc # "idle" /\ timed' \subseteq Admin!ApprovalKeys
        /\ UNCHANGED <<role, gone, inst, flag, pending, redisUp, changes, asked>>
    BY <1>0, <1>3 DEF Admin!Collects, Admin!CollectFails, Admin!KeyOf, Admin!At
  <2> DEFINE q == Admin!Decided(a, approvals)
  <2>3. q \in Work /\ (q.pc # "idle" => q.op = work[a].op) /\ work' = [work EXCEPT ![a] = q]
    BY <1>d, <2>1
  <2> HIDE DEF q
  <2> QED
    BY <1>0, <2>2, <2>3, WorkMoves
<1>4. CASE Admin!Flags(a) \/ Admin!FlagFails(a)
  <2>1. PICK p \in {"flagged", "applying"} : work' = [work EXCEPT ![a].pc = p]
    BY <1>4 DEF Admin!Flags, Admin!FlagFails
  <2> DEFINE q == [work[a] EXCEPT !.pc = p]
  <2>2. flag' \in BOOLEAN
    BY <1>0, <1>4 DEF Admin!Flags, Admin!FlagFails
  <2>3. /\ work[a].pc # "idle" /\ UNCHANGED <<role, gone, inst, pending, timed, redisUp, changes, asked>>
    BY <1>4 DEF Admin!Flags, Admin!FlagFails, Admin!At
  <2>4. q \in Work /\ q.op = work[a].op /\ work' = [work EXCEPT ![a] = q]
    BY <1>0, <1>p, <2>1 DEF Admin!PCs
  <2> HIDE DEF q
  <2> QED
    BY <1>0, <2>2, <2>3, <2>4, WorkMoves
<1>5. CASE Admin!Clears(a)
  <2> DEFINE q == [work[a] EXCEPT !.pc = "applying"]
  <2>1. /\ work' = [work EXCEPT ![a] = q] /\ work[a].pc = "flagged"
        /\ pending' = [pending EXCEPT ![work[a].op] = {}] /\ timed' = timed \ {work[a].op}
        /\ UNCHANGED <<role, gone, inst, flag, redisUp, changes, asked>>
    BY <1>0, <1>5 DEF Admin!Clears, Admin!KeyOf, Admin!At
  <2>2. q \in Work /\ q.op = work[a].op
    BY <1>p DEF Admin!PCs
  <2> HIDE DEF q
  <2>3. /\ pending' \in [Admin!ApprovalKeys -> SUBSET Admins]
        /\ \A k \in Admin!Ops : pending'[k] \subseteq asked[k]
    BY <1>0, <2>1
  <2> QED
    BY <1>0, <2>1, <2>2, <2>3, WorkMoves
<1>6. CASE Admin!Applies(a) \/ Admin!RequestDies(a)
  <2>1. /\ work' = [work EXCEPT ![a] = Admin!Idle]
        /\ UNCHANGED <<role, gone, flag, pending, timed, redisUp, changes, asked>>
    BY <1>6 DEF Admin!Applies, Admin!RequestDies
  <2>2. inst' \in [Instances -> {"paper", "live", "killed"}]
    BY <1>0, <1>6 DEF Admin!Applies, Admin!RequestDies
  <2> QED
    BY <1>0, <1>i, <2>1, <2>2, WorkMoves
<1> QED
  BY <1>1, <1>2, <1>3, <1>4, <1>5, <1>6

LEMMA AdminInvNext == AdminInv /\ [Next]_vars => AdminInv'
<1> SUFFICES ASSUME AdminInv, [Next]_vars PROVE AdminInv'
  OBVIOUS
<1>0. /\ AdminInv /\ changes \in Nat /\ inst \in [Instances -> {"paper", "live", "killed"}]
      /\ role \in [Admins -> {"admin", "user"}] /\ gone \subseteq Admins
      /\ changes <= AdminChanges
  BY AdminConstants DEF AdminInv, Admin!TypeOK
<1>1. ASSUME UNCHANGED <<flag, pending, timed, redisUp, work, asked>>,
             role' \in [Admins -> {"admin", "user"}], gone' \subseteq Admins,
             inst' \in [Instances -> {"paper", "live", "killed"}], changes' \in 0..AdminChanges
      PROVE  AdminInv'
  BY <1>0, <1>1 DEF AdminInv, Admin!TypeOK
<1>2. ASSUME changes < AdminChanges, changes' = changes + 1 PROVE changes' \in 0..AdminChanges
  BY <1>0, <1>2, AdminConstants
<1>3. changes \in 0..AdminChanges
  BY <1>0, AdminConstants
<1>4. ASSUME NEW a \in Admins, Admin!Leave(a) PROVE AdminInv'
  BY <1>0, <1>1, <1>2, <1>4 DEF Admin!Leave
<1>5. ASSUME NEW a \in Admins, NEW b \in Admins, NEW r \in {"admin", "user"},
             Admin!PatchRole(a, b, r)
      PROVE  AdminInv'
  BY <1>0, <1>1, <1>2, <1>3, <1>5 DEF Admin!PatchRole
<1>6. ASSUME NEW a \in Admins, NEW b \in Admins,
             Admin!Ban(a, b) \/ Admin!Unban(a, b) \/ Admin!SoftDelete(a, b)
      PROVE  AdminInv'
  BY <1>0, <1>1, <1>2, <1>3, <1>6 DEF Admin!Ban, Admin!Unban, Admin!SoftDelete
<1>7. ASSUME NEW i \in Instances, Admin!GoesLive(i) PROVE AdminInv'
  BY <1>0, <1>1, <1>3, <1>7 DEF Admin!GoesLive
<1>8. ASSUME NEW k \in Admin!ApprovalKeys, Admin!ApprovalsExpire(k) PROVE AdminInv'
  BY <1>8 DEF Admin!ApprovalsExpire, AdminInv, Admin!TypeOK, Admin!ApprovalKeys
<1>9. CASE Admin!RedisFails
  <2>1. /\ redisUp' = FALSE /\ UNCHANGED <<role, gone, inst, flag, pending, timed, work, asked>>
        /\ changes' \in 0..AdminChanges
    BY <1>2, <1>9 DEF Admin!RedisFails
  <2>2. redisUp' \in BOOLEAN
    BY <2>1
  <2> QED
    BY <2>1, <2>2 DEF AdminInv, Admin!TypeOK
<1>10. CASE Admin!RedisReturns
  <2>1. /\ redisUp' = TRUE
        /\ UNCHANGED <<role, gone, inst, flag, pending, timed, work, changes, asked>>
    BY <1>10 DEF Admin!RedisReturns
  <2>2. redisUp' \in BOOLEAN
    BY <2>1
  <2> QED
    BY <2>1, <2>2 DEF AdminInv, Admin!TypeOK
<1>11. CASE UNCHANGED admin
  BY <1>11 DEF admin, AdminInv, Admin!TypeOK
<1> QED
  BY <1>4, <1>5, <1>6, <1>7, <1>8, <1>9, <1>10, <1>11, AdminRequests, StepOfEach DEF Admin!Next

(* Whoever stands under the key of an operation, or has a request for it   *)
(* under way, has asked for it.                                            *)
THEOREM AdminInvariant == Spec => []AdminInv
<1>1. Init => AdminInv
  BY AdminInvInit DEF Init
<1> QED
  BY <1>1, AdminInvNext, PTL DEF Spec

(* A request that needs two is granted on the approvals under the key of   *)
(* its own operation, each of someone who asked for it.                    *)
LEMMA GrantedByTwo ==
  ASSUME AdminInv, [Next]_vars, NEW a \in Admins,
         work[a].pc # "granted", work'[a].pc = "granted", work'[a].need = 2
  PROVE  Cardinality(work'[a].seen \cap asked'[work'[a].op]) >= 2
<1>0. /\ work \in [Admins -> Work] /\ work[a] \in Work
      /\ \A k \in Admin!Ops : pending[k] \subseteq asked[k]
  BY DEF AdminInv, Admin!TypeOK, Work
<1>1. CASE Admin!Collects(a)
  <2> DEFINE approvals == pending[work[a].op]
             g == [work[a] EXCEPT !.pc = "granted", !.seen = approvals]
  <2>1. work' = [work EXCEPT ![a] = Admin!Decided(a, approvals)] /\ asked' = asked
    BY <1>0, <1>1 DEF Admin!Collects, Admin!KeyOf
  <2>2. work'[a] = Admin!Decided(a, approvals)
    BY <1>0, <2>1
  <2>3. work'[a] = g /\ Cardinality(approvals) >= work[a].need
    BY <2>2, AdminSize DEF Admin!Decided, Admin!Idle
  <2>4. work'[a].seen = approvals /\ work'[a].op = work[a].op /\ work[a].need = 2
    BY <1>0, <2>3 DEF Work
  <2>5. approvals \cap asked[work[a].op] = approvals
    BY <1>0 DEF Work
  <2> HIDE DEF approvals, g
  <2> QED
    BY <2>1, <2>3, <2>4, <2>5
<1>2. CASE Admin!CollectFails(a)
  <2>1. work'[a] = Admin!Decided(a, {a})
    BY <1>0, <1>2 DEF Admin!CollectFails
  <2>2. Cardinality({a}) >= work[a].need /\ work'[a] = [work[a] EXCEPT !.pc = "granted", !.seen = {a}]
    BY <2>1, AdminSize DEF Admin!Decided, Admin!Idle
  <2>3. work[a].need = 2
    BY <1>0, <2>2 DEF Work
  <2>4. Cardinality({a}) = 1
    BY FS_Singleton
  <2> QED
    BY <2>2, <2>3, <2>4
<1>3. CASE \E op \in Admin!Ops : Admin!Ask(a, op)
  <2>1. PICK op \in Admin!Ops : Admin!Ask(a, op)
    BY <1>3
  <2>2. \/ work'[a] = [pc |-> "granted", op |-> op, need |-> 1, seen |-> {a}]
        \/ work'[a] = [pc |-> "counted", op |-> op, need |-> 2, seen |-> {}]
    BY <1>0, <2>1 DEF Admin!Ask
  <2> QED
    BY <2>2
<1>4. CASE /\ ~Admin!Collects(a) /\ ~Admin!CollectFails(a)
           /\ ~ \E op \in Admin!Ops : Admin!Ask(a, op)
  <2>1. CASE work'[a] = work[a]
    BY <2>1
  <2>2. CASE work'[a] = Admin!Idle
    BY <2>2 DEF Admin!Idle
  <2>3. CASE \E p \in {"added", "flagged", "applying"} : work'[a] = [work[a] EXCEPT !.pc = p]
    BY <1>0, <2>3 DEF Work
  <2>4. CASE UNCHANGED work
    BY <2>4
  <2>5. ASSUME NEW b \in Admins, b # a,
               \/ \E op \in Admin!Ops : Admin!Ask(b, op)
               \/ Admin!Adds(b) \/ Admin!Collects(b) \/ Admin!CollectFails(b)
               \/ Admin!Flags(b) \/ Admin!Clears(b) \/ Admin!FlagFails(b)
               \/ Admin!Applies(b) \/ Admin!RequestDies(b)
        PROVE  work'[a] = work[a]
    BY <1>0, <2>5
       DEF Admin!Ask, Admin!Adds, Admin!Collects, Admin!CollectFails, Admin!Flags,
           Admin!Clears, Admin!FlagFails, Admin!Applies, Admin!RequestDies
  <2>6. CASE \/ Admin!Adds(a) \/ Admin!Flags(a) \/ Admin!Clears(a) \/ Admin!FlagFails(a)
             \/ Admin!Applies(a) \/ Admin!RequestDies(a)
    <3>1. \/ work'[a] = Admin!Idle
          \/ \E p \in {"added", "flagged", "applying"} : work'[a] = [work[a] EXCEPT !.pc = p]
      BY <1>0, <2>6
         DEF Admin!Adds, Admin!Flags, Admin!Clears, Admin!FlagFails, Admin!Applies,
             Admin!RequestDies
    <3> QED
      BY <2>2, <2>3, <3>1
  <2>7. CASE UNCHANGED admin
    BY <2>4, <2>7 DEF admin
  <2>8. CASE \/ \E b, c \in Admins : \/ \E r \in {"admin", "user"} : Admin!PatchRole(b, c, r)
                                   \/ Admin!Ban(b, c) \/ Admin!Unban(b, c)
                                   \/ Admin!SoftDelete(b, c) \/ Admin!Leave(b)
             \/ \E i \in Instances : Admin!GoesLive(i)
             \/ \E k \in Admin!ApprovalKeys : Admin!ApprovalsExpire(k)
             \/ Admin!RedisFails \/ Admin!RedisReturns
    BY <2>4, <2>8
       DEF Admin!PatchRole, Admin!Ban, Admin!Unban, Admin!SoftDelete, Admin!Leave,
           Admin!GoesLive, Admin!ApprovalsExpire, Admin!RedisFails, Admin!RedisReturns
  <2> QED
    BY <1>4, <2>1, <2>5, <2>6, <2>7, <2>8, StepOfEach DEF Admin!Next
<1> QED
  BY <1>1, <1>2, <1>3, <1>4

(* However approvals are repeated, left over, lost or cross, nobody        *)
(* engages or disarms alone what two must.                                 *)
THEOREM TwoHaveAsked == Spec => TwoMustAsk
<1>1. AdminInv /\ [Next]_vars =>
        [\A a \in Admins :
           ~Admin!At(a, "granted") /\ work'[a].pc = "granted" /\ work'[a].need = 2 =>
             Admin!Cardinality(work'[a].seen \cap asked'[work'[a].op]) >= 2]_admin
  BY GrantedByTwo, AdminSize DEF Admin!At
<1> QED
  BY <1>1, AdminInvariant, PTL DEF Spec, TwoMustAsk, Admin!TwoMustAsk, Admin!vars, admin
=============================================================================
