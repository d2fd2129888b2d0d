------------------------------- MODULE Reload -------------------------------
(***************************************************************************)
(* The snapshots the data plane reads: the route table, rebuilt by every    *)
(* admin handler after its write, and the limits, evaluated there and by    *)
(* the patrol.  Each read of the store locks it by itself, and nothing      *)
(* orders two rebuilds.  (server/mod.rs reload_routes, limits/patrol.rs)    *)
(*                                                                          *)
(* A part of the store is its version.  A rebuild reads the parts one after *)
(* the other and installs what it read.                                     *)
(***************************************************************************)
EXTENDS Integers, Sequences

CONSTANTS
    Editors,    \* admin-plane requests that may be in flight together
    MaxEdits,   \* bound: writes in a behaviour
    MaxFailures \* bound: reads of the store that fail in a behaviour

(* RouteTable::load reads the client keys, then which agents are bound, then *)
(* the providers, then each agent's bindings.                                *)
Order == <<"clients", "agents", "providers", "bindings">>
Parts == {"clients", "agents", "providers", "bindings"}

(* What one write changes: a key, a provider and its ceiling, a binding, an  *)
(* agent's first or last binding; a bare /reload changes nothing.            *)
Edits == {{"clients"}, {"providers"}, {"bindings"}, {"agents", "bindings"}, {}}

Patrol == "patrol"

ASSUME EditorsAssumption == Patrol \notin Editors
ASSUME MaxEditsAssumption == MaxEdits \in Nat
ASSUME MaxFailuresAssumption == MaxFailures \in Nat

Actors  == Editors \cup {Patrol}
Version == 0..MaxEdits
Unread  == -1 \* LimitState::default(): what an evaluation returns that could not read

VARIABLES
    rows,     \* the store: part -> version
    table,    \* route_table
    limits,   \* limits, by the version of the ceilings in them
    at,       \* actor -> "idle", "load", "install", "evaluate" or "publish"
    next,     \* editor -> which part it loads next
    held,     \* editor -> the table it is building
    read,     \* actor -> the limits it evaluated
    failures, \* reads of the store that failed
    wrote,    \* history: editor -> the parts it changed last, as it left them
    met       \* history: editor -> who was in a rebuild while it was in its last

vars == <<rows, table, limits, at, next, held, read, failures, wrote, met>>

Nothing == [p \in Parts |-> 0]

Init ==
    /\ rows = Nothing /\ table = Nothing /\ limits = 0
    /\ at = [a \in Actors |-> IF a = Patrol THEN "evaluate" ELSE "idle"]
    /\ next = [e \in Editors |-> 1]
    /\ held = [e \in Editors |-> Nothing]
    /\ read = [a \in Actors |-> 0]
    /\ failures = 0
    /\ wrote = [e \in Editors |-> Nothing]
    /\ met = [e \in Editors |-> {}]

Edited == rows["clients"] + rows["providers"] + rows["bindings"]
Busy(a) == at[a] \notin {"idle", "asleep"}
Goto(a, place) == at' = [at EXCEPT ![a] = place]

(* From now until it is done, a meets everyone who is at it.                 *)
Meets(a) ==
    met' = [e \in Editors |->
              IF e = a THEN {b \in Actors \ {a} : Busy(b)}
              ELSE IF Busy(e) THEN met[e] \cup {a}
              ELSE met[e]]

(* The handler commits its write, and turns to the table.                    *)
Write(e, edit) ==
    /\ at[e] = "idle"
    /\ edit # {} => Edited < MaxEdits
    /\ rows' = [p \in Parts |-> IF p \in edit THEN rows[p] + 1 ELSE rows[p]]
    /\ wrote' = [wrote EXCEPT ![e] = [p \in Parts |-> IF p \in edit THEN rows'[p] ELSE 0]]
    /\ Goto(e, "load")
    /\ Meets(e)
    /\ UNCHANGED <<table, limits, next, held, read, failures>>

(* Fault: the first part is taken from the table that is there.              *)
LoadKeepsClients(e) ==
    /\ at[e] = "load"
    /\ LET p == Order[next[e]]
       IN  held' = [held EXCEPT ![e][p] = IF p = "clients" THEN table[p] ELSE rows[p]]
    /\ next' = [next EXCEPT ![e] = @ + 1]
    /\ IF next[e] = Len(Order) THEN Goto(e, "install") ELSE UNCHANGED at
    /\ UNCHANGED <<rows, table, limits, read, wrote, met, failures>>

Load(e) ==
    /\ at[e] = "load"
    /\ held' = [held EXCEPT ![e][Order[next[e]]] = rows[Order[next[e]]]]
    /\ next' = [next EXCEPT ![e] = @ + 1]
    /\ IF next[e] = Len(Order) THEN Goto(e, "install") ELSE UNCHANGED at
    /\ UNCHANGED <<rows, table, limits, read, wrote, met, failures>>

(* The load is over, and its locals with it.                                 *)
Forget(e) == next' = [next EXCEPT ![e] = 1] /\ held' = [held EXCEPT ![e] = Nothing]

(* A read of the store fails.                                                *)
Failure == failures < MaxFailures /\ failures' = failures + 1

(* reload_after_write: a failed reload is logged, and the write answered.    *)
(* The handler is then counted as met by itself.                             *)
LoadFails(e) ==
    /\ at[e] = "load"
    /\ Failure
    /\ Goto(e, "idle")
    /\ met' = [met EXCEPT ![e] = @ \cup {e}]
    /\ Forget(e)
    /\ UNCHANGED <<rows, table, limits, read, wrote>>

Install(e) ==
    /\ at[e] = "install"
    /\ table' = held[e]
    /\ Forget(e)
    /\ Goto(e, "evaluate")
    /\ UNCHANGED <<rows, limits, read, wrote, met, failures>>

(* evaluate: the ceilings are the providers' own.                            *)
Evaluate(a) ==
    /\ at[a] = "evaluate"
    /\ \/ read' = [read EXCEPT ![a] = rows["providers"]] /\ UNCHANGED failures
       \/ read' = [read EXCEPT ![a] = Unread] /\ Failure
    /\ Goto(a, "publish")
    /\ UNCHANGED <<rows, table, limits, next, held, wrote, met>>

(* Fault: only the patrol writes the limits, as set_limits says it does.     *)
PublishFromPatrol(a) ==
    /\ at[a] = "publish"
    /\ limits' = IF a = Patrol THEN read[a] ELSE limits
    /\ read' = [read EXCEPT ![a] = 0]
    /\ Goto(a, IF a = Patrol THEN "asleep" ELSE "idle")
    /\ UNCHANGED <<rows, table, next, held, wrote, met, failures>>

(* Fault: an evaluation is installed only by the reload that made it.        *)
PublishFromReload(a) ==
    /\ at[a] = "publish"
    /\ limits' = IF a = Patrol THEN limits ELSE read[a]
    /\ read' = [read EXCEPT ![a] = 0]
    /\ Goto(a, IF a = Patrol THEN "asleep" ELSE "idle")
    /\ UNCHANGED <<rows, table, next, held, wrote, met, failures>>

Publish(a) ==
    /\ at[a] = "publish"
    /\ limits' = read[a]
    /\ read' = [read EXCEPT ![a] = 0]
    /\ Goto(a, IF a = Patrol THEN "asleep" ELSE "idle")
    /\ UNCHANGED <<rows, table, next, held, wrote, met, failures>>

(* The patrol's interval is over.                                            *)
Wake ==
    /\ at[Patrol] = "asleep"
    /\ Goto(Patrol, "evaluate")
    /\ Meets(Patrol)
    /\ UNCHANGED <<rows, table, limits, next, held, read, wrote, failures>>

Rebuild(e) == Load(e) \/ LoadFails(e) \/ Install(e) \/ Evaluate(e) \/ Publish(e)
Patrols    == Evaluate(Patrol) \/ Publish(Patrol) \/ Wake

Next ==
    \/ \E e \in Editors : Rebuild(e) \/ \E edit \in Edits : Write(e, edit)
    \/ Patrols

Spec == Init /\ [][Next]_vars

(* A handler that has begun is run to its end, and the patrol's task is run. *)
FairSpec ==
    /\ Spec
    /\ \A e \in Editors : WF_vars(Rebuild(e))
    /\ WF_vars(Patrols)
-----------------------------------------------------------------------------
Snapshot == [Parts -> Version]

(* The types, and that no snapshot is ahead of the store.                    *)
TypeOK ==
    /\ rows \in Snapshot /\ table \in Snapshot
    /\ limits \in Version \cup {Unread}
    /\ at \in [Actors -> {"idle", "load", "install", "evaluate", "publish", "asleep"}]
    /\ at[Patrol] \in {"evaluate", "publish", "asleep"}
    /\ \A e \in Editors : at[e] # "asleep"
    /\ next \in [Editors -> 1..Len(Order) + 1]
    /\ held \in [Editors -> Snapshot]
    /\ read \in [Actors -> Version \cup {Unread}]
    /\ failures \in 0..MaxFailures
    /\ wrote \in [Editors -> Snapshot]
    /\ met \in [Editors -> SUBSET Actors]
    /\ \A p \in Parts : table[p] <= rows[p]
    /\ limits <= rows["providers"]

Answered(e) == at[e] = "idle"
Routed(e)   == \A p \in Parts : table[p] >= wrote[e][p]
Binds(e)    == limits >= wrote[e]["providers"]

(* "The daemon now performs the write and re-reads its own table" (admin.rs):*)
(* a handler whose load did not fail and met no other handler's rebuild has  *)
(* its write in the table when it answers, and it stays there whatever races *)
(* or fails later.                                                           *)
AloneIsRouted == \A e \in Editors : Answered(e) /\ met[e] \cap Editors = {} => Routed(e)

(* "a limit the user just typed should bind the next request" (mod.rs): it   *)
(* does when neither a handler nor the patrol was met, unless the limits     *)
(* that are in force could not be read.                                      *)
AloneBinds ==
    \A e \in Editors : Answered(e) /\ met[e] = {} /\ limits # Unread => Binds(e)

(* Whatever evaluation was installed over a later one, or failed, the patrol *)
(* brings the limits back to the store's once edits and failures are over.   *)
LimitsCatchUp == <>[](limits = rows["providers"])

(* The route table ends up as the store says, "so there is nothing left to   *)
(* forget" (admin.rs).                                                       *)
RoutesCatchUp == <>[](table = rows)
=============================================================================
