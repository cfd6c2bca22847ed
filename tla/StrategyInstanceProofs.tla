------------------------ MODULE StrategyInstanceProofs ------------------------
(***************************************************************************)
(* What StrategyInstance.tla promises, proved for any instances, any       *)
(* number of requests under way and any parameters.                        *)
(***************************************************************************)
EXTENDS StrategyInstance, TLAPS

(***************************************************************************)
(* Types                                                                   *)
(***************************************************************************)

\* The placeholders of an idle request have their types.
LEMMA PlaceholderTypes ==
  AnyInstance \in Instances /\ AnyParams \in Params /\ AbsentRow \in Rows
PROOF
  <1>1. AnyInstance \in Instances
    BY InstancesAssumption DEF AnyInstance
  <1>2. AnyParams \in Params
    BY ParamsAssumption DEF AnyParams
  <1> QED
    BY <1>1, <1>2 DEF AbsentRow, Rows, Statuses, Times

\* The flush of a commit writes a row of the table.
LEMMA MergedType ==
  ASSUME TypeOK, NEW r \in Requests, NEW current \in Rows
  PROVE  Merged(current, loaded[r], Assigned(r)) \in Rows
PROOF
  <1>1. loaded[r] \in Rows /\ wanted[r] \in Params /\ op[r] \in Ops
    BY DEF TypeOK
  <1> QED
    BY <1>1 DEF Merged, Assigned, StoredTime, Rows, Statuses, Times, Ops

\* What ends a request keeps the types of its variables.
LEMMA EndsType ==
  ASSUME TypeOK, NEW r \in Requests, Ends(r)
  PROVE  /\ pc' \in [Requests -> RequestPcs]
         /\ op' \in [Requests -> Ops]
         /\ inst' \in [Requests -> Instances]
         /\ loaded' \in [Requests -> Rows]
         /\ wanted' \in [Requests -> Params]
BY PlaceholderTypes DEF TypeOK, Ends, RequestPcs, Ops

\* Every step keeps the types.
LEMMA TypeStep == TypeOK /\ [Next]_vars => TypeOK'
PROOF
  <1> SUFFICES ASSUME TypeOK, [Next]_vars PROVE TypeOK'
    OBVIOUS
  <1>1. ASSUME NEW i \in Instances, NEW mode \in {"paper", "live"}, NEW p \in Params,
               Create(i, mode, p)
        PROVE  TypeOK'
    BY <1>1 DEF Create, TypeOK, Rows, Statuses, Times, requestVars
  <1>2. ASSUME NEW r \in Requests, NEW o \in Ops, NEW i \in Instances, NEW p \in Params,
               Begin(r, o, i, p)
        PROVE  TypeOK'
    <2>1. FirstWait(o) \in RequestPcs
      BY DEF FirstWait, RequestPcs
    <2> QED
      BY <1>2, <2>1 DEF Begin, TypeOK
  <1>3. ASSUME NEW r \in Requests, RequestStep(r)
        PROVE  TypeOK'
    <2>1. CASE GatePasses(r)
      BY <2>1 DEF GatePasses, TypeOK, RequestPcs
    <2>2. CASE GateFails(r)
      BY <2>2, EndsType DEF GateFails, TypeOK
    <2>3. CASE OmsAccepts(r)
      BY <2>3 DEF OmsAccepts, TypeOK, RequestPcs
    <2>4. CASE OmsFails(r)
      <3>1. CASE op[r] = "go_live" /\ Ends(r)
        BY <2>4, <3>1, EndsType DEF OmsFails, TypeOK
      <3>2. CASE op[r] = "revert" /\ pc' = [pc EXCEPT ![r] = "commit"]
                 /\ UNCHANGED <<op, inst, loaded, wanted>>
        BY <2>4, <3>2 DEF OmsFails, TypeOK, RequestPcs
      <3> QED
        BY <2>4, <3>1, <3>2 DEF OmsFails
    <2>5. CASE Commit(r)
      <3>1. inst[r] \in Instances /\ row[inst[r]] \in Rows
        BY DEF TypeOK
      <3>2. Merged(row[inst[r]], loaded[r], Assigned(r)) \in Rows
        BY <3>1, MergedType
      <3>3. row' \in [Instances -> Rows]
        BY <2>5, <3>1, <3>2 DEF Commit, TypeOK
      <3> QED
        BY <2>5, <3>3, EndsType DEF Commit, TypeOK
    <2>6. CASE Abort(r)
      BY <2>6, EndsType DEF Abort, TypeOK
    <2> QED
      BY <1>3, <2>1, <2>2, <2>3, <2>4, <2>5, <2>6 DEF RequestStep
  <1>4. ASSUME NEW S \in SUBSET Instances, NEW statuses, AdminMatches(S, statuses)
        PROVE  TypeOK'
    BY <1>4 DEF AdminMatches, TypeOK, requestVars
  <1>5. CASE AdminCommits
    BY <1>5, ZenonT(40) DEF AdminCommits, TypeOK, Rows, Statuses, Times, requestVars
  <1>6. CASE AdminAborts
    BY <1>6 DEF AdminAborts, TypeOK, requestVars
  <1>7. ASSUME NEW i \in Instances, DayPasses(i) PROVE TypeOK'
    <2>1. row[i] \in Rows
      BY DEF TypeOK
    <2>2. [row[i] EXCEPT !.stopped = "past"] \in Rows
      BY <2>1 DEF Rows, Times
    <2> QED
      BY <1>7, <2>2 DEF DayPasses, TypeOK, requestVars
  <1>8. CASE UNCHANGED vars
    BY <1>8 DEF vars, TypeOK
  <1> QED
    BY <1>1, <1>2, <1>3, <1>4, <1>5, <1>6, <1>7, <1>8 DEF Next, KillAll, GlobalKill

\* Every reachable state is well typed.
THEOREM TypesHold == Spec => []TypeOK
PROOF
  <1>1. Init => TypeOK
    BY PlaceholderTypes DEF Init, TypeOK, RequestPcs, Ops
  <1> QED
    BY <1>1, TypeStep, PTL DEF Spec

(***************************************************************************)
(* What a request under way has read                                       *)
(***************************************************************************)

\* A request under way has read a status its handler accepts, and only a
\* go-live or a revert waits before its commit.  The row itself may have
\* changed since: nothing here speaks of it.
ReadAccepted ==
  \A r \in Requests :
    pc[r] \in InFlight =>
      /\ Accepts(op[r], loaded[r])
      /\ pc[r] = "gate" => op[r] = "go_live"
      /\ pc[r] = "oms" => op[r] \in {"go_live", "revert"}

\* The only step that starts a request checks what it read.
LEMMA BeginAccepted ==
  ASSUME TypeOK, ReadAccepted,
         NEW r \in Requests, NEW o \in Ops, NEW i \in Instances, NEW p \in Params,
         Begin(r, o, i, p)
  PROVE  ReadAccepted'
PROOF
  <1> SUFFICES ASSUME NEW q \in Requests, pc'[q] \in InFlight
               PROVE  /\ Accepts(op'[q], loaded'[q])
                      /\ pc'[q] = "gate" => op'[q] = "go_live"
                      /\ pc'[q] = "oms" => op'[q] \in {"go_live", "revert"}
    BY DEF ReadAccepted, Accepts
  <1>1. CASE q = r
    <2>1. op'[q] = o /\ loaded'[q] = row[i] /\ pc'[q] = FirstWait(o)
      BY <1>1 DEF Begin, TypeOK
    <2>2. Accepts(o, row[i])
      BY DEF Begin
    <2>3. /\ FirstWait(o) = "gate" => o = "go_live"
          /\ FirstWait(o) = "oms" => o = "revert"
      BY DEF FirstWait, Ops
    <2> QED
      BY <2>1, <2>2, <2>3
  <1>2. CASE q /= r
    BY <1>2 DEF Begin, TypeOK, ReadAccepted
  <1> QED
    BY <1>1, <1>2

\* A step that only ends r leaves the others as they were.
LEMMA EndsAccepted ==
  ASSUME TypeOK, ReadAccepted, NEW r \in Requests, Ends(r)
  PROVE  ReadAccepted'
PROOF
  <1> SUFFICES ASSUME NEW q \in Requests, pc'[q] \in InFlight
               PROVE  /\ Accepts(op'[q], loaded'[q])
                      /\ pc'[q] = "gate" => op'[q] = "go_live"
                      /\ pc'[q] = "oms" => op'[q] \in {"go_live", "revert"}
    BY DEF ReadAccepted, Accepts
  <1>1. q /= r
    BY DEF Ends, TypeOK, InFlight
  <1>2. pc'[q] = pc[q] /\ op'[q] = op[q] /\ loaded'[q] = loaded[q]
    BY <1>1 DEF Ends, TypeOK
  <1> QED
    BY <1>2 DEF ReadAccepted

\* So does a step that moves r on and leaves what it read alone.
LEMMA MovesAccepted ==
  ASSUME TypeOK, ReadAccepted, NEW r \in Requests, pc[r] \in InFlight,
         NEW l \in {"oms", "commit"}, l = "oms" => op[r] = "go_live",
         pc' = [pc EXCEPT ![r] = l], UNCHANGED <<op, loaded>>
  PROVE  ReadAccepted'
PROOF
  <1> SUFFICES ASSUME NEW q \in Requests, pc'[q] \in InFlight
               PROVE  /\ Accepts(op'[q], loaded'[q])
                      /\ pc'[q] = "gate" => op'[q] = "go_live"
                      /\ pc'[q] = "oms" => op'[q] \in {"go_live", "revert"}
    BY DEF ReadAccepted, Accepts
  <1>1. op'[q] = op[q] /\ loaded'[q] = loaded[q]
    OBVIOUS
  <1>2. CASE q = r
    BY <1>1, <1>2 DEF TypeOK, ReadAccepted
  <1>3. CASE q /= r
    <2>1. pc'[q] = pc[q]
      BY <1>3 DEF TypeOK
    <2> QED
      BY <1>1, <2>1 DEF ReadAccepted
  <1> QED
    BY <1>2, <1>3

LEMMA ReadStep == TypeOK /\ ReadAccepted /\ [Next]_vars => ReadAccepted'
PROOF
  <1> SUFFICES ASSUME TypeOK, ReadAccepted, [Next]_vars PROVE ReadAccepted'
    OBVIOUS
  <1>1. ASSUME UNCHANGED <<pc, op, loaded>> PROVE ReadAccepted'
    BY <1>1 DEF ReadAccepted, Accepts
  <1>2. ASSUME NEW r \in Requests, RequestStep(r) PROVE ReadAccepted'
    <2>1. CASE GatePasses(r)
      <3>1. pc[r] \in InFlight /\ op[r] = "go_live"
        BY <2>1 DEF GatePasses, InFlight, ReadAccepted
      <3> QED
        BY <2>1, <3>1, MovesAccepted DEF GatePasses
    <2>2. CASE OmsAccepts(r)
      BY <2>2, MovesAccepted DEF OmsAccepts, InFlight
    <2>3. CASE OmsFails(r)
      <3>1. CASE op[r] = "go_live" /\ Ends(r)
        BY <3>1, EndsAccepted
      <3>2. CASE op[r] = "revert" /\ pc' = [pc EXCEPT ![r] = "commit"]
                 /\ UNCHANGED <<op, inst, loaded, wanted>>
        BY <2>3, <3>2, MovesAccepted DEF OmsFails, InFlight
      <3> QED
        BY <2>3, <3>1, <3>2 DEF OmsFails
    <2>4. CASE GateFails(r) \/ Commit(r) \/ Abort(r)
      BY <2>4, EndsAccepted DEF GateFails, Commit, Abort
    <2> QED
      BY <1>2, <2>1, <2>2, <2>3, <2>4 DEF RequestStep
  <1> QED
    BY <1>1, <1>2, BeginAccepted
    DEF Next, Create, KillAll, GlobalKill, AdminMatches, AdminCommits, AdminAborts,
        DayPasses, requestVars, vars

ReadInv == TypeOK /\ ReadAccepted

LEMMA ReadInvHolds == Spec => []ReadInv
PROOF
  <1>1. Init => ReadAccepted
    BY DEF Init, ReadAccepted, InFlight
  <1> QED
    BY <1>1, ReadStep, TypesHold, PTL DEF Spec, ReadInv

(***************************************************************************)
(* What a commit does to a row that has changed since it was read          *)
(***************************************************************************)

LEMMA CommitElsewhere ==
  ASSUME TypeOK, NEW r \in Requests, Commit(r), NEW i \in Instances, i /= inst[r]
  PROVE  row'[i] = row[i]
BY DEF Commit, TypeOK

\* An update writes the parameters only.
LEMMA UpdateCommit ==
  ASSUME TypeOK, NEW r \in Requests, Commit(r), op[r] = "update"
  PROVE  /\ row'[inst[r]].status = row[inst[r]].status
         /\ row'[inst[r]].stopped = row[inst[r]].stopped
PROOF
  <1>1. loaded[r] \in Rows /\ inst[r] \in Instances
    BY DEF TypeOK
  <1>2. /\ Assigned(r).status = loaded[r].status
        /\ Assigned(r).stopped = loaded[r].stopped
    BY <1>1 DEF Assigned, Rows
  <1>3. row'[inst[r]] = Merged(row[inst[r]], loaded[r], Assigned(r))
    BY <1>1 DEF Commit, TypeOK
  <1> QED
    BY <1>2, <1>3 DEF Merged

\* Every other request leaves the parameters alone.
LEMMA OtherCommit ==
  ASSUME TypeOK, NEW r \in Requests, Commit(r), op[r] /= "update"
  PROVE  row'[inst[r]].params = row[inst[r]].params
PROOF
  <1>1. loaded[r] \in Rows /\ inst[r] \in Instances /\ op[r] \in Ops
    BY DEF TypeOK
  <1>2. Assigned(r).params = loaded[r].params
    BY <1>1 DEF Assigned, Rows, Ops
  <1>3. row'[inst[r]] = Merged(row[inst[r]], loaded[r], Assigned(r))
    BY <1>1 DEF Commit, TypeOK
  <1> QED
    BY <1>2, <1>3 DEF Merged

\* A kill writes its time, and its status or none.
LEMMA KillCommit ==
  ASSUME TypeOK, NEW r \in Requests, Commit(r), op[r] = "kill"
  PROVE  /\ row'[inst[r]].stopped = "recent"
         /\ row[inst[r]].status = "killed" => row'[inst[r]].status = "killed"
PROOF
  <1>1. loaded[r] \in Rows /\ inst[r] \in Instances
    BY DEF TypeOK
  <1>2. /\ Assigned(r).status = "killed"
        /\ Assigned(r).stopped = "now"
        /\ loaded[r].stopped /= "now"
    BY <1>1 DEF Assigned, Rows, Times
  <1>3. row'[inst[r]] = Merged(row[inst[r]], loaded[r], Assigned(r))
    BY <1>1 DEF Commit, TypeOK
  <1> QED
    BY <1>2, <1>3 DEF Merged, StoredTime

\* A stop writes its time.
LEMMA StopCommit ==
  ASSUME TypeOK, NEW r \in Requests, Commit(r), op[r] = "stop"
  PROVE  row'[inst[r]].stopped = "recent"
PROOF
  <1>1. loaded[r] \in Rows /\ inst[r] \in Instances
    BY DEF TypeOK
  <1>2. Assigned(r).stopped = "now" /\ loaded[r].stopped /= "now"
    BY <1>1 DEF Assigned, Rows, Times
  <1>3. row'[inst[r]] = Merged(row[inst[r]], loaded[r], Assigned(r))
    BY <1>1 DEF Commit, TypeOK
  <1> QED
    BY <1>2, <1>3 DEF Merged, StoredTime

\* A go-live, a start and a revert leave a status that is not "killed", since
\* each read a status unlike the one it writes.
LEMMA RunningCommit ==
  ASSUME ReadInv, NEW r \in Requests, Commit(r),
         op[r] \in {"go_live", "start", "revert"}
  PROVE  row'[inst[r]].status /= "killed"
PROOF
  <1>1. loaded[r] \in Rows /\ inst[r] \in Instances
    BY DEF ReadInv, TypeOK
  <1>2. Accepts(op[r], loaded[r])
    BY DEF ReadInv, ReadAccepted, Commit, InFlight
  <1>3. Assigned(r).status /= loaded[r].status /\ Assigned(r).status /= "killed"
    BY <1>1, <1>2 DEF Assigned, Accepts, Rows
  <1>4. row'[inst[r]] = Merged(row[inst[r]], loaded[r], Assigned(r))
    BY <1>1 DEF Commit, ReadInv, TypeOK
  <1> QED
    BY <1>3, <1>4 DEF Merged

\* Of a row that ages only the time changes.
LEMMA AgedRow ==
  ASSUME TypeOK, NEW j \in Instances, DayPasses(j), NEW i \in Instances
  PROVE  /\ row'[i].status = row[i].status
         /\ row'[i].params = row[i].params
         /\ row'[i].stopped = IF i = j THEN "past" ELSE row[i].stopped
         /\ i /= j => row'[i] = row[i]
PROOF
  <1>1. row[i] \in Rows /\ row[j] \in Rows
    BY DEF TypeOK
  <1>2. row'[i] = IF i = j THEN [row[j] EXCEPT !.stopped = "past"] ELSE row[i]
    BY DEF DayPasses, TypeOK
  <1> QED
    BY <1>1, <1>2 DEF Rows

(***************************************************************************)
(* The kill and its cooldown                                               *)
(***************************************************************************)

\* A killed row has the time of its kill, by which the cooldown counts it.
THEOREM KilledRowsHaveTheirTime == Spec => []KillHasItsTime
PROOF
  <1>1. Init => KillHasItsTime
    BY DEF Init, KillHasItsTime, AbsentRow
  <1>2. ReadInv /\ KillHasItsTime /\ [Next]_vars => KillHasItsTime'
    <2> SUFFICES ASSUME ReadInv, KillHasItsTime, [Next]_vars,
                        NEW i \in Instances, row'[i].status = "killed"
                 PROVE  row'[i].stopped /= "null"
      BY DEF KillHasItsTime
    <2>1. ASSUME UNCHANGED row PROVE row'[i].stopped /= "null"
      BY <2>1 DEF KillHasItsTime
    <2>2. ASSUME NEW j \in Instances, NEW mode \in {"paper", "live"}, NEW p \in Params,
                 Create(j, mode, p)
          PROVE  row'[i].stopped /= "null"
      BY <2>2 DEF Create, ReadInv, TypeOK, KillHasItsTime
    <2>3. ASSUME NEW r \in Requests, Commit(r) PROVE row'[i].stopped /= "null"
      <3>1. CASE i /= inst[r]
        BY <2>3, <3>1, CommitElsewhere DEF ReadInv, KillHasItsTime
      <3>2. CASE i = inst[r]
        <4>1. op[r] \in Ops
          BY DEF ReadInv, TypeOK
        <4>2. op[r] \notin {"go_live", "start", "revert"}
          BY <2>3, <3>2, RunningCommit
        <4>3. CASE op[r] = "update"
          BY <2>3, <3>2, <4>3, UpdateCommit DEF ReadInv, KillHasItsTime
        <4>4. CASE op[r] = "stop"
          BY <2>3, <3>2, <4>4, StopCommit DEF ReadInv
        <4>5. CASE op[r] = "kill"
          BY <2>3, <3>2, <4>5, KillCommit DEF ReadInv
        <4> QED
          BY <4>1, <4>2, <4>3, <4>4, <4>5 DEF Ops
      <3> QED
        BY <3>1, <3>2
    <2>4. CASE AdminCommits
      <3>1. row[i] \in Rows
        BY DEF ReadInv, TypeOK
      <3> QED
        BY <2>4, <3>1 DEF AdminCommits, Rows, KillHasItsTime
    <2>5. ASSUME NEW j \in Instances, DayPasses(j) PROVE row'[i].stopped /= "null"
      BY <2>5, AgedRow DEF ReadInv, KillHasItsTime
    <2> QED
      BY <2>1, <2>2, <2>3, <2>4, <2>5
      DEF Next, RequestStep, Begin, GatePasses, GateFails, OmsAccepts, OmsFails, Abort,
          KillAll, GlobalKill, AdminMatches, AdminAborts, requestVars, vars
  <1> QED
    BY <1>1, <1>2, ReadInvHolds, PTL DEF Spec

\* A sealed kill stays sealed, and its row keeps its time until a day passes.
LEMMA SealedStep ==
  ASSUME ReadInv, Next, NEW i \in Instances, Sealed(i)
  PROVE  /\ Sealed(i)'
         /\ row[i].stopped = "recent" =>
              row'[i].stopped = "recent" \/ DayPasses(i)
PROOF
  <1> DEFINE Goal == /\ Sealed(i)'
                     /\ row[i].stopped = "recent" =>
                          row'[i].stopped = "recent" \/ DayPasses(i)
  <1>1. ASSUME NEW j \in Instances, NEW mode \in {"paper", "live"}, NEW p \in Params,
               Create(j, mode, p)
        PROVE  Goal
    BY <1>1 DEF Create, ReadInv, TypeOK, Sealed, requestVars
  <1>2. ASSUME NEW r \in Requests, NEW o \in Ops, NEW j \in Instances, NEW p \in Params,
               Begin(r, o, j, p)
        PROVE  Goal
    BY <1>2 DEF Begin, ReadInv, TypeOK, Sealed
  <1>3. ASSUME NEW r \in Requests, Ends(r), UNCHANGED row PROVE Goal
    BY <1>3 DEF Ends, ReadInv, TypeOK, Sealed, InFlight
  <1>4. ASSUME NEW r \in Requests, pc[r] \in InFlight, NEW l,
               pc' = [pc EXCEPT ![r] = l], UNCHANGED <<row, op, inst, loaded>>
        PROVE  Goal
    BY <1>4 DEF ReadInv, TypeOK, Sealed
  <1>5. ASSUME NEW r \in Requests, Commit(r) PROVE Goal
    <2>1. \A q \in Requests :
            pc'[q] \in InFlight =>
              pc[q] \in InFlight /\ inst'[q] = inst[q] /\ loaded'[q] = loaded[q]
                /\ op'[q] = op[q]
      BY <1>5 DEF Commit, Ends, ReadInv, TypeOK, InFlight
    <2>2. row'[i].status = "killed" /\ (row[i].stopped = "recent" => row'[i].stopped = "recent")
      <3>1. CASE i /= inst[r]
        BY <1>5, <3>1, CommitElsewhere DEF ReadInv, Sealed
      <3>2. CASE i = inst[r]
        <4>1. op[r] \in {"update", "kill"}
          <5>1. pc[r] \in InFlight /\ op[r] \in Ops /\ loaded[r] \in Rows
            BY <1>5 DEF Commit, InFlight, ReadInv, TypeOK
          <5>2. CASE loaded[r].status = "killed"
            BY <5>1, <5>2 DEF ReadInv, ReadAccepted, Accepts, Ops
          <5>3. CASE loaded[r].status /= "killed"
            BY <3>2, <5>1, <5>3 DEF Sealed
          <5> QED
            BY <5>2, <5>3
        <4>2. CASE op[r] = "update"
          BY <1>5, <3>2, <4>2, UpdateCommit DEF ReadInv, Sealed
        <4>3. CASE op[r] = "kill"
          BY <1>5, <3>2, <4>3, KillCommit DEF ReadInv, Sealed
        <4> QED
          BY <4>1, <4>2, <4>3
      <3> QED
        BY <3>1, <3>2
    <2> QED
      BY <2>1, <2>2 DEF Sealed
  <1>6. ASSUME UNCHANGED <<row, pc, op, inst, loaded>> PROVE Goal
    BY <1>6 DEF Sealed
  <1>7. CASE AdminCommits
    <2>1. row[i] \in Rows
      BY DEF ReadInv, TypeOK
    <2>2. /\ row'[i].status = "killed"
          /\ row[i].stopped = "recent" => row'[i].stopped = "recent"
      BY <1>7, <2>1 DEF AdminCommits, Sealed, Rows
    <2> QED
      BY <1>7, <2>2 DEF AdminCommits, Sealed, requestVars
  <1>8. ASSUME NEW j \in Instances, DayPasses(j) PROVE Goal
    <2>1. /\ row'[i].status = "killed"
          /\ i /= j => row'[i] = row[i]
      BY <1>8, AgedRow DEF ReadInv, Sealed
    <2> QED
      BY <1>8, <2>1 DEF DayPasses, Sealed, requestVars
  <1> QED
    BY <1>1, <1>2, <1>3, <1>4, <1>5, <1>6, <1>7, <1>8
    DEF Next, RequestStep, GatePasses, GateFails, OmsAccepts, OmsFails, Abort,
        KillAll, GlobalKill, AdminMatches, AdminAborts, requestVars, InFlight

\* A kill that no request under way can undo is final.
THEOREM SealedKillsAreFinal == Spec => KilledOnceQuiet
PROOF
  <1>1. ReadInv /\ [Next]_vars => [\A i \in Instances : Sealed(i) => Sealed(i)']_vars
    BY SealedStep
  <1> QED
    BY <1>1, ReadInvHolds, PTL DEF Spec, KilledOnceQuiet

\* For 24 h after such a kill no go-live of the user passes the gate.
THEOREM CooldownHolds == Spec => CooldownOnceQuiet
PROOF
  <1>1. ASSUME ReadInv, Next, Cooling, \A i \in Instances : ~ DayPasses(i)
        PROVE  Cooling'
    <2>1. PICK i \in Instances : Sealed(i) /\ row[i].stopped = "recent"
      BY <1>1 DEF Cooling
    <2>2. Sealed(i)' /\ row'[i].stopped = "recent"
      BY <1>1, <2>1, SealedStep
    <2>3. \A r \in Requests : ~ GatePasses(r)
      BY <2>1 DEF GatePasses, CooldownClear, Sealed
    <2> SUFFICES ASSUME NEW q \in Requests, op'[q] = "go_live"
                 PROVE  pc'[q] \notin {"oms", "commit"}
      BY <2>2 DEF Cooling
    <2>4. op[q] = "go_live" => pc[q] \notin {"oms", "commit"}
      BY <1>1 DEF Cooling
    <2>5. CASE UNCHANGED <<pc, op>>
      BY <2>4, <2>5
    <2>6. ASSUME NEW r \in Requests, NEW o \in Ops, NEW j \in Instances, NEW p \in Params,
                 Begin(r, o, j, p)
          PROVE  pc'[q] \notin {"oms", "commit"}
      <3>1. CASE q = r
        <4>1. o = "go_live" /\ pc'[q] = FirstWait(o)
          BY <1>1, <2>6, <3>1 DEF Begin, ReadInv, TypeOK
        <4> QED
          BY <4>1 DEF FirstWait
      <3>2. CASE q /= r
        BY <1>1, <2>4, <2>6, <3>2 DEF Begin, ReadInv, TypeOK
      <3> QED
        BY <3>1, <3>2
    <2>7. ASSUME NEW r \in Requests, Ends(r) PROVE pc'[q] \notin {"oms", "commit"}
      BY <1>1, <2>4, <2>7 DEF Ends, ReadInv, TypeOK
    <2>8. ASSUME NEW r \in Requests, pc[r] = "oms", pc' = [pc EXCEPT ![r] = "commit"],
                 UNCHANGED op
          PROVE  pc'[q] \notin {"oms", "commit"}
      BY <1>1, <2>4, <2>8 DEF ReadInv, TypeOK
    <2> QED
      BY <1>1, <2>3, <2>5, <2>6, <2>7, <2>8
      DEF Next, RequestStep, GateFails, OmsAccepts, OmsFails, Commit, Abort, Create,
          KillAll, GlobalKill, AdminMatches, AdminCommits, AdminAborts, requestVars
  <1>2. ReadInv /\ [Next]_vars => [Cooling => Cooling' \/ \E i \in Instances : DayPasses(i)]_vars
    BY <1>1
  <1> QED
    BY <1>2, ReadInvHolds, PTL DEF Spec, CooldownOnceQuiet

\* From the moment no earlier update is under way, a live instance's parameters
\* stay as they are.
THEOREM LiveParamsAreLocked == Spec => ParamsLockedWhileLive
PROOF
  <1>1. ASSUME ReadInv, Next, NEW i \in Instances, ParamsLocked(i)
        PROVE  /\ row'[i].params = row[i].params
               /\ ParamsLocked(i)' \/ row'[i].status /= "live"
    <2> DEFINE Goal == /\ row'[i].params = row[i].params
                       /\ ParamsLocked(i)' \/ row'[i].status /= "live"
    <2>1. ASSUME NEW j \in Instances, NEW mode \in {"paper", "live"}, NEW p \in Params,
                 Create(j, mode, p)
          PROVE  Goal
      BY <1>1, <2>1 DEF Create, ReadInv, TypeOK, ParamsLocked, Serves, requestVars
    <2>2. ASSUME NEW r \in Requests, NEW o \in Ops, NEW j \in Instances, NEW p \in Params,
                 Begin(r, o, j, p)
          PROVE  Goal
      <3>1. ~ (o = "update" /\ j = i)
        BY <1>1, <2>2 DEF Begin, Accepts, ParamsLocked
      <3> QED
        BY <1>1, <2>2, <3>1 DEF Begin, ReadInv, TypeOK, ParamsLocked, Serves
    <2>3. ASSUME NEW r \in Requests, Ends(r), row'[i].params = row[i].params
          PROVE  Goal
      BY <1>1, <2>3 DEF Ends, ReadInv, TypeOK, ParamsLocked, Serves, InFlight
    <2>4. ASSUME NEW r \in Requests, pc[r] \in InFlight, NEW l,
                 pc' = [pc EXCEPT ![r] = l], UNCHANGED <<row, op, inst>>
          PROVE  Goal
      BY <1>1, <2>4 DEF ReadInv, TypeOK, ParamsLocked, Serves
    <2>5. ASSUME NEW r \in Requests, Commit(r) PROVE row'[i].params = row[i].params
      <3>1. CASE i /= inst[r]
        BY <1>1, <2>5, <3>1, CommitElsewhere DEF ReadInv
      <3>2. CASE i = inst[r]
        <4>1. op[r] /= "update"
          BY <1>1, <2>5, <3>2 DEF Commit, ParamsLocked, Serves, InFlight
        <4> QED
          BY <1>1, <2>5, <3>2, <4>1, OtherCommit DEF ReadInv
      <3> QED
        BY <3>1, <3>2
    <2>6. ASSUME UNCHANGED <<row, pc, op, inst>> PROVE Goal
      BY <1>1, <2>6 DEF ParamsLocked, Serves
    <2>7. CASE AdminCommits
      <3>1. row[i] \in Rows
        BY <1>1 DEF ReadInv, TypeOK
      <3>2. row'[i].params = row[i].params
        BY <2>7, <3>1 DEF AdminCommits, Rows
      <3> QED
        BY <1>1, <2>7, <3>2 DEF AdminCommits, ParamsLocked, Serves, requestVars
    <2>8. ASSUME NEW j \in Instances, DayPasses(j) PROVE Goal
      <3>1. row'[i].params = row[i].params
        BY <1>1, <2>8, AgedRow DEF ReadInv
      <3> QED
        BY <1>1, <2>8, <3>1 DEF DayPasses, ParamsLocked, Serves, requestVars
    <2> QED
      BY <1>1, <2>1, <2>2, <2>3, <2>4, <2>5, <2>6, <2>7, <2>8
      DEF Next, RequestStep, GatePasses, GateFails, OmsAccepts, OmsFails, Commit, Abort,
          KillAll, GlobalKill, AdminMatches, AdminAborts, requestVars, InFlight
  <1>2. ReadInv /\ [Next]_vars =>
          [\A i \in Instances :
             ParamsLocked(i) =>
               /\ row'[i].params = row[i].params
               /\ ParamsLocked(i)' \/ row'[i].status /= "live"]_vars
    BY <1>1
  <1> QED
    BY <1>2, ReadInvHolds, PTL DEF Spec, ParamsLockedWhileLive
=============================================================================
