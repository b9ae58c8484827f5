---------------------------- MODULE MCSupervisor ----------------------------
(* Instances of Supervisor for TLC; the constants are in the .cfg files.   *)
EXTENDS Supervisor
=============================================================================
