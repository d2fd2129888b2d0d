------------------------------ MODULE MCReload ------------------------------
(* Instances of Reload for TLC.                                              *)
EXTENDS Reload

CONSTANTS e1, e2   \* handlers
=============================================================================
