---------------------------- MODULE MCLiveEngine ----------------------------
(***************************************************************************)
(* Two engine objects and two orders: enough for one engine to be replaced *)
(* by the next while its thread still has an order on the way, and for an  *)
(* engine to send a second order.                                          *)
(***************************************************************************)
EXTENDS LiveEngine

\* The breaker's inputs are read by Verdict alone, and only while the engine's
\* stop event is unset, which it never becomes again: two states that differ
\* in the inputs of an engine told to stop have the same futures.
Read(f, e) == IF stopEvt[e] THEN 0 ELSE f[e]
LiveView ==
  <<registry, pc, target, todo, status, stopEvt, killed, reported, awaiting,
    fate, sender, late,
    [e \in Engines |->
       <<Read(drawdown, e), Read(slipping, e), Read(silent, e)>>]>>

=============================================================================
