----------------------------- MODULE MCTakeover -----------------------------
(* Instances of Takeover for TLC.                                            *)
EXTENDS Takeover

CONSTANT app   \* the client that takes agents over

Shaped(carriers, optional, resort) ==
    [carriers |-> carriers, optional |-> optional, resort |-> resort]

(* Claude and most agents, whose every file carries the key, with each last  *)
(* resort there is: one whose files must be there, one whose second need not *)
(* be; and one whose key is in the last of its files, all of them optional.  *)
Agents == {Shaped(Files, {}, "rebuild"), Shaped(Files, {FileCount}, "strip"),
           Shaped({FileCount}, Files, "none")}
=============================================================================
