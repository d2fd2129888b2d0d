--------------------------- MODULE MCRetryBudget ---------------------------
(* Instances of RetryBudget for TLC.                                         *)
EXTENDS RetryBudget

(* Three candidates: no limit and two retries, a limit and one, no retry.    *)
MCRetries == <<2, 1, 0>>
MCTimeout == <<0, 3, 0>>
=============================================================================
