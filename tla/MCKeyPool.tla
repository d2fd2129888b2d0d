------------------------------ MODULE MCKeyPool ------------------------------
(* Two turns at a time over three sessions with two pins between them.       *)
EXTENDS KeyPool

Symmetric == Permutations(Keys) \cup Permutations(Secrets) \cup Permutations(Turns)
=============================================================================
