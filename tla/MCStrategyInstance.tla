-------------------------- MODULE MCStrategyInstance --------------------------
(***************************************************************************)
(* StrategyInstance on a small instance for TLC.                           *)
(***************************************************************************)
EXTENDS StrategyInstance, TLC

\* Requests, instances and parameters are interchangeable.  AnyInstance and
\* AnyParams single one out, and only in fields nothing reads: those of idle
\* requests and absent rows, and what a request other than an update wants.  So
\* two states that TLC takes for one behave alike.
Symmetry ==
  Permutations(Requests) \cup Permutations(Instances) \cup Permutations(Params)
=============================================================================
