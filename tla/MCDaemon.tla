------------------------------ MODULE MCDaemon ------------------------------
(* Three processes: one on its way out, one on its way in, one in the way.   *)
EXTENDS Daemon
=============================================================================
