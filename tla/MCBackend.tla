------------------------------ MODULE MCBackend ------------------------------
(***************************************************************************)
(* A small instance of BackendSide.  The components share no state, so     *)
(* that it is enough to look at each of them while the others rest: part   *)
(* says which one moves, and the others keep their first state.            *)
(***************************************************************************)
EXTENDS BackendSide

MCOwner == [i \in {"i1"} |-> "a1"]

(* The URL as it is deployed and with the path of the mount, with and      *)
(* without a secret.                                                       *)
MCConfigs ==
  {[base |-> "", secret |-> TRUE], [base |-> "/api/v1", secret |-> TRUE],
   [base |-> "/api/v1", secret |-> FALSE]}

-----------------------------------------------------------------------------
VARIABLE part

MCInit ==
  /\ part \in {"billing", "admin", "mail", "limit", "auth", "golive", "brokers", "reports"}
  /\ Init
  /\ part # "golive" => kind = "plain" /\ "email_verified" \notin holds
  /\ part # "reports" => config.base = ""

MCNext ==
  /\ UNCHANGED part
  /\ \/ part = "billing"  /\ Bill!Next
          /\ UNCHANGED <<admin, email, limiter, sessions, golive, brokers, reports>>
     \/ part = "admin"    /\ Admin!Next
          /\ UNCHANGED <<billing, email, limiter, sessions, golive, brokers, reports>>
     \/ part = "mail"     /\ Mail!Next
          /\ UNCHANGED <<billing, admin, limiter, sessions, golive, brokers, reports>>
     \/ part = "limit"    /\ Limit!Next
          /\ UNCHANGED <<billing, admin, email, sessions, golive, brokers, reports>>
     \/ part = "auth"     /\ Auth!Next
          /\ UNCHANGED <<billing, admin, email, limiter, golive, brokers, reports>>
     \/ part = "golive"   /\ Gate!Next
          /\ UNCHANGED <<billing, admin, email, limiter, sessions, brokers, reports>>
     \/ part = "brokers"  /\ Accounts!Next
          /\ UNCHANGED <<billing, admin, email, limiter, sessions, golive, reports>>
     \/ part = "reports"  /\ Rep!Next
          /\ UNCHANGED <<billing, admin, email, limiter, sessions, golive, brokers>>

MCSpec == MCInit /\ [][MCNext]_<<part, vars>>
=============================================================================
