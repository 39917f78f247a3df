---------------------------- MODULE MCSupervisor ----------------------------
(* All three kinds of run, chosen in the initial state.                      *)
EXTENDS Supervisor
=============================================================================
