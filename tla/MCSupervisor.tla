---------------------------- MODULE MCSupervisor ----------------------------
(* One task, two pairs of runs, with and without a token ceiling.             *)
EXTENDS Supervisor

OneTask == <<"demo">>
=============================================================================
