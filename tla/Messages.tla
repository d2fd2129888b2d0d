------------------------------ MODULE Messages ------------------------------
(***************************************************************************)
(* What a client of the Anthropic Messages API is promised of one streamed  *)
(* answer: a message that begins, blocks that are opened once, written to   *)
(* while they are open and closed, one message_delta when all are closed,   *)
(* the end; or an error at some point.                                      *)
(***************************************************************************)
EXTENDS Naturals

CONSTANTS
    Kinds,   \* of blocks
    Indices  \* the numbers blocks are given

VARIABLES
    phase,  \* "idle", "begun", "told", "over", "failed"
    kinds,  \* block -> its kind, of the blocks opened so far
    live,   \* the blocks that are open
    events  \* how many events there were

view == <<phase, kinds, live, events>>

Blocks == DOMAIN kinds

Idle ==
    /\ phase = "idle"
    /\ kinds = [i \in {} |-> i]
    /\ live = {}
    /\ events = 0

Event == events' = events + 1

MessageStart ==
    /\ Event
    /\ phase = "idle" /\ phase' = "begun"
    /\ UNCHANGED <<kinds, live>>

BlockStart(i, kind) ==
    /\ Event
    /\ phase = "begun" /\ i \notin Blocks
    /\ kinds' = [j \in Blocks \cup {i} |-> IF j = i THEN kind ELSE kinds[j]]
    /\ live' = live \cup {i}
    /\ UNCHANGED phase

BlockDelta(i) ==
    /\ Event
    /\ phase = "begun" /\ i \in live
    /\ UNCHANGED <<phase, kinds, live>>

BlockStop(i) ==
    /\ Event
    /\ phase = "begun" /\ i \in live
    /\ live' = live \ {i}
    /\ UNCHANGED <<phase, kinds>>

MessageDelta ==
    /\ Event
    /\ phase = "begun" /\ live = {}
    /\ phase' = "told"
    /\ UNCHANGED <<kinds, live>>

MessageStop ==
    /\ Event
    /\ phase = "told" /\ phase' = "over"
    /\ UNCHANGED <<kinds, live>>

(* A connection that breaks after the last event may still be reported.      *)
Error ==
    /\ Event
    /\ phase # "failed" /\ phase' = "failed"
    /\ UNCHANGED <<kinds, live>>

Conversation ==
    \/ MessageStart
    \/ \E i \in Indices, kind \in Kinds : BlockStart(i, kind)
    \/ \E i \in live : BlockDelta(i) \/ BlockStop(i)
    \/ MessageDelta \/ MessageStop \/ Error

Spec == Idle /\ [][Conversation]_view
=============================================================================
