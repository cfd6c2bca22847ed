------------------------------ MODULE MCTrading ------------------------------
(***************************************************************************)
(* A small instance of TradingSide.  The components share no state, so     *)
(* that it is enough to look at each of them while the others rest: part   *)
(* says which one moves, and the others keep their first state.            *)
(***************************************************************************)
EXTENDS TradingSide

(* Quotes below and above the one price that orders name.                  *)
MCQuotes == {<<3, 4>>, <<5, 6>>}

(* Five bars over two days, among them bars of the Asian and the New York  *)
(* session, bars that reach a stop, a target, both or neither, and one that*)
(* opens beyond them.                                                      *)
MCTimes == <<14, 23, 30, 38, 39>>

Bar(high, low, close, lean, strong) ==
  [high |-> high, low |-> low, close |-> close, lean |-> lean, strong |-> strong]

MCShapes ==
  {Bar(5, 3, 4, 1, TRUE), Bar(12, 9, 10, 1, FALSE), Bar(5, 2, 2, -1, TRUE),
   Bar(9, 1, 4, 0, FALSE)}

(* Equities that give lots below, at and above the smallest, and a drawdown*)
(* at its limit; a loss.                                                   *)
MCEquities == {-50, 170, 200, 290}
MCProfits  == {-10, 10}

-----------------------------------------------------------------------------
VARIABLE part

MCInit ==
  /\ part \in {"bridge", "jobs", "calls", "preview", "paper", "risk", "test"}
  /\ Init
  /\ part # "risk" => reporter = "engine" /\ equity = 200
  /\ part # "test" => strategy = "donchian"

MCNext ==
  /\ UNCHANGED part
  /\ \/ part = "bridge"  /\ Bridge!Next
          /\ UNCHANGED <<jobs, calls, preview, paper, risk, test>>
     \/ part = "jobs"    /\ Jobs!Next
          /\ UNCHANGED <<bridge, calls, preview, paper, risk, test>>
     \/ part = "calls"   /\ TV!Next
          /\ UNCHANGED <<bridge, jobs, preview, paper, risk, test>>
     \/ part = "preview" /\ Preview!Next
          /\ UNCHANGED <<bridge, jobs, calls, paper, risk, test>>
     \/ part = "paper"   /\ Paper!Next
          /\ UNCHANGED <<bridge, jobs, calls, preview, risk, test>>
     \/ part = "risk"    /\ Risk!Next
          /\ UNCHANGED <<bridge, jobs, calls, preview, paper, test>>
     \/ part = "test"    /\ Test!Next
          /\ UNCHANGED <<bridge, jobs, calls, preview, paper, risk>>

MCSpec == MCInit /\ [][MCNext]_<<part, vars>> /\ Bridge!Fairness /\ Jobs!Fairness
=============================================================================
