---------------------------- MODULE MCSupervisor ----------------------------
(* A small instance of Supervisor.                                         *)
EXTENDS Supervisor

=============================================================================
