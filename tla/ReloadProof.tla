---------------------------- MODULE ReloadProof ----------------------------
(***************************************************************************)
(* Proofs about Reload: its types, and that a handler which met no other's  *)
(* rebuild is routed and its ceiling binds, for any number of editors and   *)
(* of edits.                                                                *)
(*                                                                          *)
(* Whether a handler is routed when it answers depends on what every other  *)
(* handler is holding and may install later, so the invariant speaks of the *)
(* tables under construction as well as of the one that is installed.       *)
(***************************************************************************)
EXTENDS Reload, TLAPS

(* The parts a handler has loaded so far.                                    *)
Loaded(b) == {Order[i] : i \in 1..next[b] - 1}

Alone(e) == met[e] \cap Editors = {}

Typed ==
    /\ rows \in [Parts -> Nat] /\ table \in [Parts -> Nat]
    /\ limits \in Nat \cup {Unread}
    /\ at \in [Actors -> {"idle", "load", "install", "evaluate", "publish", "asleep"}]
    /\ next \in [Editors -> 1..5]
    /\ held \in [Editors -> [Parts -> Nat]]
    /\ read \in [Actors -> Nat \cup {Unread}]
    /\ failures \in 0..MaxFailures
    /\ wrote \in [Editors -> [Parts -> Nat]]
    /\ met \in [Editors -> SUBSET Actors]

(* No one is ahead of the store, and the store is within its bound.          *)
Behind ==
    /\ \A p \in Parts : table[p] <= rows[p]
    /\ \A e \in Editors, p \in Parts : held[e][p] <= rows[p] /\ wrote[e][p] <= rows[p]
    /\ \A a \in Actors : read[a] <= rows["providers"]
    /\ limits <= rows["providers"]
    /\ rows["agents"] <= rows["bindings"]
    /\ rows["clients"] + rows["providers"] + rows["bindings"] <= MaxEdits

(* A load is complete when it is installed, and not begun before or after.   *)
Staged ==
    /\ \A e \in Editors : at[e] # "asleep"
    /\ \A e \in Editors : at[e] = "install" => next[e] = 5
    /\ \A e \in Editors : at[e] = "load" => next[e] \in 1..4
    /\ \A e \in Editors : at[e] \notin {"load", "install"} => next[e] = 1
    /\ at[Patrol] \in {"evaluate", "publish", "asleep"}

(* What anyone has loaded is no older than what a lone handler wrote.        *)
LoadedNew ==
    \A e, b \in Editors : Alone(e) => \A p \in Loaded(b) : held[b][p] >= wrote[e][p]

(* Nor is the table, once that handler has installed its own.                *)
TableNew ==
    \A e \in Editors : Alone(e) /\ at[e] \notin {"load", "install"} => Routed(e)

IInv == Typed /\ Behind /\ Staged /\ LoadedNew /\ TableNew

(* The order a table is loaded in.                                           *)
LEMMA OrderFacts ==
    /\ Len(Order) = 4
    /\ Order[1] = "clients" /\ Order[2] = "agents"
    /\ Order[3] = "providers" /\ Order[4] = "bindings"
    /\ \A i \in 1..4 : Order[i] \in Parts
    /\ \A p \in Parts : \E i \in 1..4 : Order[i] = p
  BY SMT DEF Order, Parts

(* Before its first read a handler has loaded nothing, after its last all.   *)
LEMMA LoadedEnds ==
    ASSUME NEW b, Typed, b \in Editors
    PROVE  /\ next[b] = 1 => Loaded(b) = {}
           /\ next[b] = 5 => Loaded(b) = Parts
           /\ next[b] \in 1..5 => Loaded(b) \subseteq Parts
<1>1. next[b] = 1 => Loaded(b) = {}
  BY SMT DEF Loaded
<1>2. next[b] = 5 => Loaded(b) = Parts
  <2> SUFFICES ASSUME next[b] = 5 PROVE Loaded(b) = Parts
    OBVIOUS
  <2>1. 1..next[b] - 1 = 1..4
    OBVIOUS
  <2> QED
    BY <2>1, OrderFacts, Zenon DEF Loaded
<1>3. next[b] \in 1..5 => Loaded(b) \subseteq Parts
  <2> SUFFICES ASSUME NEW i \in 1..next[b] - 1, next[b] \in 1..5 PROVE Order[i] \in Parts
    BY DEF Loaded
  <2>1. i \in 1..4
    OBVIOUS
  <2> QED
    BY <2>1, OrderFacts
<1> QED
  BY <1>1, <1>2, <1>3

LEMMA InitHolds == Init => IInv
<1> SUFFICES ASSUME Init PROVE IInv
  OBVIOUS
<1> USE DEF Init, Nothing
<1>1. Typed
  BY EditorsAssumption, MaxFailuresAssumption, SMT DEF Typed, Actors, Unread
<1>2. Behind
  BY MaxEditsAssumption, SMT DEF Behind, Parts, Actors
<1>3. Staged
  BY EditorsAssumption, SMT DEF Staged, Actors, Patrol
<1>4. LoadedNew
  <2>1. \A b \in Editors : next[b] = 1
    OBVIOUS
  <2> QED
    BY <1>1, <2>1, LoadedEnds, Zenon DEF LoadedNew
<1>5. TableNew
  BY SMT DEF TableNew, Routed
<1> QED
  BY <1>1, <1>2, <1>3, <1>4, <1>5 DEF IInv

(* A handler that has not begun to load holds nothing that could be stale.   *)
LEMMA WriteStep == \A e \in Editors, edit \in Edits : IInv /\ Write(e, edit) => IInv'
<1> SUFFICES ASSUME NEW e \in Editors, NEW edit \in Edits, IInv, Write(e, edit) PROVE IInv'
  OBVIOUS
<1> USE DEF Write, Goto
<1>1. Typed'
  <2>1. rows' \in [Parts -> Nat]
    BY SMT DEF IInv, Typed
  <2>2. wrote' \in [Editors -> [Parts -> Nat]]
    <3>1. [p \in Parts |-> IF p \in edit THEN rows'[p] ELSE 0] \in [Parts -> Nat]
      BY <2>1
    <3> QED
      BY <3>1, SMT DEF IInv, Typed
  <2>3. met' \in [Editors -> SUBSET Actors]
    BY SMT DEF IInv, Typed, Meets, Actors
  <2> QED
    BY <2>1, <2>2, <2>3, SMT DEF IInv, Typed, Actors
<1>2. \A p \in Parts : rows[p] <= rows'[p]
  BY SMT DEF IInv, Typed
<1>3. Behind'
  <2>1. \A d \in Editors, p \in Parts : wrote'[d][p] <= rows'[p]
    BY <1>2, SMT DEF IInv, Typed, Behind
  <2>2. /\ \A p \in Parts : table'[p] <= rows'[p]
        /\ \A d \in Editors, p \in Parts : held'[d][p] <= rows'[p]
        /\ \A a \in Actors : read'[a] <= rows'["providers"]
        /\ limits' <= rows'["providers"]
    <3>1. "providers" \in Parts /\ rows["providers"] \in Int /\ rows'["providers"] \in Int
      BY <1>1, SMT DEF IInv, Typed, Parts
    <3>2. \A a \in Actors : read'[a] = read[a] /\ read[a] \in Int
      BY SMT DEF IInv, Typed, Unread
    <3>3. limits' = limits /\ limits \in Int
      BY SMT DEF IInv, Typed, Unread
    <3>4. \A p \in Parts : table'[p] <= rows'[p]
      BY <1>1, <1>2, SMT DEF IInv, Typed, Behind
    <3>5. \A d \in Editors, p \in Parts : held'[d][p] <= rows'[p]
      BY <1>1, <1>2, SMT DEF IInv, Typed, Behind
    <3>6. \A a \in Actors : read'[a] <= rows'["providers"]
      BY <1>2, <3>1, <3>2, SMT DEF IInv, Behind
    <3>7. limits' <= rows'["providers"]
      BY <1>2, <3>1, <3>3, SMT DEF IInv, Behind
    <3> QED
      BY <3>4, <3>5, <3>6, <3>7
  <2>3. /\ rows'["agents"] <= rows'["bindings"]
        /\ rows'["clients"] + rows'["providers"] + rows'["bindings"] <= MaxEdits
    BY MaxEditsAssumption, SMT DEF IInv, Typed, Behind, Parts, Edits, Edited
  <2> QED
    BY <2>1, <2>2, <2>3 DEF Behind
<1>4. Staged'
  BY EditorsAssumption, SMT DEF IInv, Typed, Staged, Actors, Patrol
<1>5. LoadedNew'
  <2> SUFFICES ASSUME NEW d \in Editors, NEW b \in Editors, Alone(d)', NEW p \in Loaded(b)'
               PROVE held'[b][p] >= wrote'[d][p]
    BY DEF LoadedNew
  <2>1. CASE d = e
    <3>1. b # e => ~Busy(b)
      BY <2>1, SMT DEF Alone, Meets, Actors, IInv, Typed
    <3>2. next[b] = 1
      BY <3>1, SMT DEF Busy, IInv, Staged
    <3>3. Loaded(b)' = {}
      BY <3>2, SMT DEF Loaded
    <3> QED
      BY <3>3
  <2>2. CASE d # e
    <3>1. met'[d] = met[d] \/ met'[d] = met[d] \cup {e}
      BY <2>2, SMT DEF Meets, IInv, Typed
    <3>2. Alone(d) /\ wrote'[d] = wrote[d]
      BY <2>2, <3>1, SMT DEF Alone, IInv, Typed
    <3>3. p \in Loaded(b)
      BY SMT DEF Loaded
    <3> QED
      BY <3>2, <3>3, SMT DEF IInv, LoadedNew
  <2> QED
    BY <2>1, <2>2
<1>6. TableNew'
  <2> SUFFICES ASSUME NEW d \in Editors, Alone(d)', at'[d] \notin {"load", "install"}
               PROVE Routed(d)'
    BY DEF TableNew
  <2>1. d # e
    BY SMT DEF IInv, Typed, Actors
  <2>2. met'[d] = met[d] \/ met'[d] = met[d] \cup {e}
    BY <2>1, SMT DEF Meets, IInv, Typed
  <2>3. Alone(d) /\ wrote'[d] = wrote[d] /\ at'[d] = at[d]
    BY <2>1, <2>2, SMT DEF Alone, IInv, Typed, Actors
  <2> QED
    BY <2>3, SMT DEF IInv, TableNew, Routed
<1> QED
  BY <1>1, <1>3, <1>4, <1>5, <1>6 DEF IInv

(* What is loaded is as new as the store.                                    *)
LEMMA LoadStep == \A e \in Editors : IInv /\ Load(e) => IInv'
<1> SUFFICES ASSUME NEW e \in Editors, IInv, Load(e) PROVE IInv'
  OBVIOUS
<1> USE DEF Load, Goto
<1>0. next[e] \in 1..4 /\ Len(Order) = 4 /\ Order[next[e]] \in Parts
  BY OrderFacts, SMT DEF IInv, Staged
<1>1. Typed'
  <2>1. held' \in [Editors -> [Parts -> Nat]]
    BY <1>0, SMT DEF IInv, Typed
  <2> QED
    BY <1>0, <2>1, SMT DEF IInv, Typed, Actors
<1>2. Behind'
  BY <1>0, SMT DEF IInv, Typed, Behind
<1>3. Staged'
  BY <1>0, EditorsAssumption, SMT DEF IInv, Typed, Staged, Actors, Patrol
<1>4. LoadedNew'
  <2> SUFFICES ASSUME NEW d \in Editors, NEW b \in Editors, Alone(d)', NEW p \in Loaded(b)'
               PROVE held'[b][p] >= wrote'[d][p]
    BY DEF LoadedNew
  <2>1. Alone(d) /\ wrote' = wrote
    BY DEF Alone
  <2>2. CASE b = e /\ p = Order[next[e]]
    BY <1>0, <2>1, <2>2, SMT DEF IInv, Typed, Behind
  <2>3. CASE b = e /\ p # Order[next[e]]
    <3>1. PICK i \in 1..next'[e] - 1 : p = Order[i]
      BY <2>3, SMT DEF Loaded
    <3>2. next'[e] = next[e] + 1
      BY <1>0, SMT DEF IInv, Typed
    <3>3. i \in 1..next[e] - 1
      BY <1>0, <2>3, <3>1, <3>2, SMT
    <3>4. p \in Loaded(b)
      BY <2>3, <3>1, <3>3 DEF Loaded
    <3>5. held'[b][p] = held[b][p]
      BY <2>3, <1>0, SMT DEF IInv, Typed
    <3> QED
      BY <2>1, <3>4, <3>5, SMT DEF IInv, LoadedNew
  <2>4. CASE b # e
    <3>1. p \in Loaded(b) /\ held'[b] = held[b]
      BY <2>4, SMT DEF Loaded, IInv, Typed
    <3> QED
      BY <2>1, <3>1, SMT DEF IInv, LoadedNew
  <2> QED
    BY <2>2, <2>3, <2>4
<1>5. TableNew'
  <2>1. \A d \in Editors : at'[d] \notin {"load", "install"} => at'[d] = at[d]
    BY SMT DEF IInv, Typed, Actors
  <2> QED
    BY <2>1, SMT DEF IInv, TableNew, Alone, Routed
<1> QED
  BY <1>1, <1>2, <1>3, <1>4, <1>5 DEF IInv

(* A load that failed has met itself.                                        *)
LEMMA LoadFailsStep == \A e \in Editors : IInv /\ LoadFails(e) => IInv'
<1> SUFFICES ASSUME NEW e \in Editors, IInv, LoadFails(e) PROVE IInv'
  OBVIOUS
<1> USE DEF LoadFails, Failure, Goto, Forget, Nothing
<1>1. Typed'
  <2>1. failures' \in 0..MaxFailures
    BY MaxFailuresAssumption, SMT DEF IInv, Typed
  <2> QED
    BY <2>1, SMT DEF IInv, Typed, Actors
<1>2. Behind'
  BY SMT DEF IInv, Typed, Behind
<1>3. Staged'
  BY EditorsAssumption, SMT DEF IInv, Typed, Staged, Actors, Patrol
<1>4. \A d \in Editors : Alone(d)' => d # e /\ Alone(d)
  BY SMT DEF Alone, IInv, Typed, Actors
<1>5. LoadedNew'
  <2> SUFFICES ASSUME NEW d \in Editors, NEW b \in Editors, Alone(d)', NEW p \in Loaded(b)'
               PROVE held'[b][p] >= wrote'[d][p]
    BY DEF LoadedNew
  <2>1. b # e
    BY SMT DEF Loaded, IInv, Typed
  <2>2. p \in Loaded(b) /\ held'[b] = held[b]
    BY <2>1, SMT DEF Loaded, IInv, Typed
  <2> QED
    BY <1>4, <2>2, SMT DEF IInv, LoadedNew
<1>6. TableNew'
  <2>1. \A d \in Editors : d # e => at'[d] = at[d]
    BY SMT DEF IInv, Typed, Actors
  <2> QED
    BY <1>4, <2>1, SMT DEF IInv, TableNew, Routed
<1> QED
  BY <1>1, <1>2, <1>3, <1>5, <1>6 DEF IInv

(* The table that is installed was loaded whole.                             *)
LEMMA InstallStep == \A e \in Editors : IInv /\ Install(e) => IInv'
<1> SUFFICES ASSUME NEW e \in Editors, IInv, Install(e) PROVE IInv'
  OBVIOUS
<1> USE DEF Install, Goto, Forget, Nothing
<1>1. Typed'
  BY SMT DEF IInv, Typed, Actors
<1>2. Behind'
  BY SMT DEF IInv, Typed, Behind
<1>3. Staged'
  BY EditorsAssumption, SMT DEF IInv, Typed, Staged, Actors, Patrol
<1>4. LoadedNew'
  <2> SUFFICES ASSUME NEW d \in Editors, NEW b \in Editors, Alone(d)', NEW p \in Loaded(b)'
               PROVE held'[b][p] >= wrote'[d][p]
    BY DEF LoadedNew
  <2>1. b # e
    BY SMT DEF Loaded, IInv, Typed
  <2>2. p \in Loaded(b) /\ held'[b] = held[b]
    BY <2>1, SMT DEF Loaded, IInv, Typed
  <2> QED
    BY <2>2, SMT DEF IInv, LoadedNew, Alone
<1>5. TableNew'
  <2>1. Loaded(e) = Parts
    BY LoadedEnds DEF IInv, Staged
  <2> QED
    BY <2>1, SMT DEF IInv, LoadedNew, TableNew, Routed, Alone
<1> QED
  BY <1>1, <1>2, <1>3, <1>4, <1>5 DEF IInv

(* The limits are no part of the table.                                      *)
LEMMA LimitsStep == \A a \in Actors : IInv /\ (Evaluate(a) \/ Publish(a)) => IInv'
<1> SUFFICES ASSUME NEW a \in Actors, IInv, Evaluate(a) \/ Publish(a) PROVE IInv'
  OBVIOUS
<1> USE DEF Evaluate, Publish, Failure, Goto
<1>0. rows["providers"] \in Nat /\ read[a] \in Nat \cup {Unread}
  BY SMT DEF IInv, Typed, Parts
<1>1. Typed'
  <2>1. failures' \in 0..MaxFailures
    BY MaxFailuresAssumption, SMT DEF IInv, Typed
  <2>2. read' \in [Actors -> Nat \cup {Unread}] /\ limits' \in Nat \cup {Unread}
    <3>1. \/ read' = [read EXCEPT ![a] = rows["providers"]]
          \/ read' = [read EXCEPT ![a] = Unread]
          \/ read' = [read EXCEPT ![a] = 0]
      OBVIOUS
    <3>2. PICK v \in Nat \cup {Unread} : read' = [read EXCEPT ![a] = v]
      BY <1>0, <3>1
    <3>3. limits' = limits \/ limits' = read[a]
      OBVIOUS
    <3> QED
      BY <1>0, <3>2, <3>3, Zenon DEF IInv, Typed
  <2>3. at' \in [Actors -> {"idle", "load", "install", "evaluate", "publish", "asleep"}]
    <3>1. PICK place \in {"publish", "asleep", "idle"} : at' = [at EXCEPT ![a] = place]
      OBVIOUS
    <3> QED
      BY <3>1, SMT DEF IInv, Typed
  <2>4. UNCHANGED <<rows, table, next, held, wrote, met>>
    OBVIOUS
  <2> QED
    BY <2>1, <2>2, <2>3, <2>4, Zenon DEF IInv, Typed
<1>2. Behind'
  <2>1. \A b \in Actors : read'[b] <= rows'["providers"]
    <3>1. rows' = rows /\ Unread <= rows["providers"] /\ 0 <= rows["providers"]
      BY <1>0, SMT DEF Unread
    <3>2. \A b \in Actors : read'[b] \in {read[b], rows["providers"], Unread, 0}
      BY SMT DEF IInv, Typed
    <3>3. \A b \in Actors : read[b] <= rows["providers"]
      BY DEF IInv, Behind
    <3> QED
      BY <1>0, <3>1, <3>2, <3>3, SMT
  <2>2. limits' <= rows'["providers"]
    BY <1>0, SMT DEF IInv, Typed, Behind, Unread
  <2> QED
    BY <2>1, <2>2, SMT DEF IInv, Behind
<1>3. Staged'
  <2>1. /\ next' = next
        /\ \A b \in Actors \ {a} : at'[b] = at[b]
        /\ at[a] \in {"evaluate", "publish"}
        /\ at'[a] \in {"publish", IF a = Patrol THEN "asleep" ELSE "idle"}
    BY SMT DEF IInv, Typed
  <2> QED
    BY <2>1, EditorsAssumption, SMT DEF IInv, Staged, Actors, Patrol
<1>4. LoadedNew'
  BY SMT DEF IInv, LoadedNew, Loaded, Alone
<1>5. TableNew'
  <2>1. \A e \in Editors : at'[e] \notin {"load", "install"} => at[e] \notin {"load", "install"}
    BY SMT DEF IInv, Typed, Actors
  <2> QED
    BY <2>1, SMT DEF IInv, TableNew, Routed, Alone
<1> QED
  BY <1>1, <1>2, <1>3, <1>4, <1>5 DEF IInv

LEMMA WakeStep == IInv /\ Wake => IInv'
<1> SUFFICES ASSUME IInv, Wake PROVE IInv'
  OBVIOUS
<1> USE DEF Wake, Goto
<1>1. Typed'
  BY EditorsAssumption, SMT DEF IInv, Typed, Actors, Meets
<1>2. Behind'
  BY SMT DEF IInv, Behind
<1>3. Staged'
  BY EditorsAssumption, SMT DEF IInv, Typed, Staged, Actors, Patrol
<1>4. \A d \in Editors : (Alone(d)' => Alone(d)) /\ at'[d] = at[d]
  BY EditorsAssumption, SMT DEF Alone, Meets, IInv, Typed, Actors
<1>5. LoadedNew'
  BY <1>4, SMT DEF IInv, LoadedNew, Loaded
<1>6. TableNew'
  BY <1>4, SMT DEF IInv, TableNew, Routed
<1> QED
  BY <1>1, <1>2, <1>3, <1>5, <1>6 DEF IInv

LEMMA StepHolds == IInv /\ [Next]_vars => IInv'
<1> SUFFICES ASSUME IInv, [Next]_vars PROVE IInv'
  OBVIOUS
<1>1. CASE \E e \in Editors, edit \in Edits : Write(e, edit)
  BY <1>1, WriteStep
<1>2. CASE \E e \in Editors : Load(e) \/ LoadFails(e) \/ Install(e)
  BY <1>2, LoadStep, LoadFailsStep, InstallStep
<1>3. CASE \E a \in Actors : Evaluate(a) \/ Publish(a)
  BY <1>3, LimitsStep
<1>4. CASE Wake
  BY <1>4, WakeStep
<1>5. CASE UNCHANGED vars
  <2> USE <1>5 DEF vars, IInv
  <2>1. Typed' /\ Behind' /\ Staged'
    BY SMT DEF Typed, Behind, Staged
  <2>2. LoadedNew'
    BY SMT DEF LoadedNew, Loaded, Alone
  <2>3. TableNew'
    BY SMT DEF TableNew, Alone, Routed
  <2> QED
    BY <2>1, <2>2, <2>3
<1> QED
  BY <1>1, <1>2, <1>3, <1>4, <1>5 DEF Next, Rebuild, Patrols, Actors

(* The invariant holds throughout.                                           *)
THEOREM Invariance == Spec => []IInv
  BY InitHolds, StepHolds, PTL DEF Spec

LEMMA InRange == IInv => TypeOK
<1> SUFFICES ASSUME IInv PROVE TypeOK
  OBVIOUS
<1> USE DEF IInv, Typed, Behind
<1>1. \A p \in Parts : rows[p] \in Version
  BY MaxEditsAssumption, SMT DEF Parts, Version
<1>2. rows \in Snapshot /\ table \in Snapshot
  BY <1>1, MaxEditsAssumption, SMT DEF Snapshot, Version
<1>3. held \in [Editors -> Snapshot] /\ wrote \in [Editors -> Snapshot]
  <2>1. \A e \in Editors : held[e] \in Snapshot /\ wrote[e] \in Snapshot
    <3> SUFFICES ASSUME NEW e \in Editors PROVE held[e] \in Snapshot /\ wrote[e] \in Snapshot
      OBVIOUS
    <3>1. \A p \in Parts : held[e][p] \in Version /\ wrote[e][p] \in Version
      BY <1>1, MaxEditsAssumption, SMT DEF Version
    <3>2. held[e] \in [Parts -> Nat] /\ wrote[e] \in [Parts -> Nat]
      OBVIOUS
    <3> QED
      BY <3>1, <3>2, Zenon DEF Snapshot
  <2> QED
    BY <2>1
<1>4. limits \in Version \cup {Unread} /\ read \in [Actors -> Version \cup {Unread}]
  <2>1. rows["providers"] \in Version
    BY <1>1 DEF Parts
  <2>2. limits \in Version \cup {Unread}
    BY <2>1, MaxEditsAssumption, SMT DEF Version, Unread
  <2>3. \A a \in Actors : read[a] \in Version \cup {Unread}
    BY <2>1, MaxEditsAssumption, SMT DEF Version, Unread
  <2> QED
    BY <2>2, <2>3
<1>5. next \in [Editors -> 1..Len(Order) + 1]
  BY OrderFacts, SMT
<1> QED
  BY <1>2, <1>3, <1>4, <1>5, SMTT(30) DEF TypeOK, Staged

(* Every variable keeps its type, and no snapshot is ahead of the store.     *)
THEOREM TypeCorrect == Spec => []TypeOK
  BY Invariance, InRange, PTL

(* A handler whose rebuild met no other's is routed when it answers, and     *)
(* from then on: whatever races or fails after it holds what it wrote.       *)
THEOREM LoneHandlersAreRouted == Spec => []AloneIsRouted
<1>1. IInv => AloneIsRouted
  BY SMT DEF IInv, TableNew, AloneIsRouted, Alone, Answered
<1> QED
  BY <1>1, Invariance, PTL

-----------------------------------------------------------------------------
(* The limits.  A handler that met nobody is the only one at work until it   *)
(* answers, so whoever publishes later has evaluated after its write.        *)

Quiet ==
    \A e \in Editors : met[e] = {} /\ Busy(e) => \A b \in Actors \ {e} : ~Busy(b)

ReadNew ==
    \A e \in Editors, b \in Actors :
        met[e] = {} /\ at[b] = "publish" => read[b] = Unread \/ read[b] >= wrote[e]["providers"]

LimitsNew ==
    \A e \in Editors :
        met[e] = {} /\ at[e] = "idle" => limits = Unread \/ limits >= wrote[e]["providers"]

Binding == Quiet /\ ReadNew /\ LimitsNew

LEMMA InitBinds == Init => Binding
<1> SUFFICES ASSUME Init PROVE Binding
  OBVIOUS
<1>1. \A e \in Editors : at[e] = "idle" /\ wrote[e]["providers"] = 0
  <2>1. \A e \in Editors : e \in Actors /\ e # Patrol
    BY EditorsAssumption, Zenon DEF Actors
  <2>2. at = [a \in Actors |-> IF a = Patrol THEN "evaluate" ELSE "idle"]
    BY DEF Init
  <2>3. \A e \in Editors : wrote[e] = Nothing
    BY DEF Init
  <2>4. Nothing["providers"] = 0
    BY SMT DEF Nothing, Parts
  <2> QED
    BY <2>1, <2>2, <2>3, <2>4, Zenon
<1>2. \A a \in Actors : at[a] # "publish"
  BY SMT DEF Init
<1>3. limits = 0
  BY DEF Init
<1>4. Quiet
  BY <1>1, Zenon DEF Quiet, Busy
<1>5. ReadNew
  BY <1>2, Zenon DEF ReadNew
<1>6. LimitsNew
  <2> SUFFICES ASSUME NEW e \in Editors PROVE limits >= wrote[e]["providers"]
    BY DEF LimitsNew
  <2> QED
    BY <1>1, <1>3
<1> QED
  BY <1>4, <1>5, <1>6 DEF Binding

(* A handler that begins is met by everyone at work, and meets them.         *)
LEMMA BeginBinds ==
    ASSUME IInv, Binding, NEW a \in Actors, NEW place \in {"load", "evaluate"},
           at' = [at EXCEPT ![a] = place], Meets(a),
           UNCHANGED <<limits, read>>,
           \A e \in Editors \ {a} : wrote'[e] = wrote[e]
    PROVE  Binding'
<1>1. /\ at'[a] = place /\ \A b \in Actors \ {a} : at'[b] = at[b]
      /\ Editors \subseteq Actors
  BY Zenon DEF IInv, Typed, Actors
<1>2. ASSUME NEW e \in Editors, met'[e] = {}, e = a
      PROVE  \A b \in Actors \ {a} : ~Busy(b)
  BY <1>2, Zenon DEF Meets
<1>3. ASSUME NEW e \in Editors, met'[e] = {}, e # a
      PROVE  met[e] = {} /\ ~Busy(e) /\ at'[e] = at[e] /\ wrote'[e] = wrote[e]
  <2>1. met'[e] = IF Busy(e) THEN met[e] \cup {a} ELSE met[e]
    BY <1>3, Zenon DEF Meets
  <2> QED
    BY <1>1, <1>3, <2>1
<1>4. Quiet'
  <2> SUFFICES ASSUME NEW e \in Editors, met'[e] = {}, Busy(e)', NEW b \in Actors \ {e}
               PROVE  ~Busy(b)'
    BY Zenon DEF Quiet
  <2>1. e = a
    BY <1>3, Zenon DEF Busy
  <2> QED
    BY <1>1, <1>2, <2>1, Zenon DEF Busy
<1>5. ReadNew'
  <2> SUFFICES ASSUME NEW e \in Editors, NEW b \in Actors, met'[e] = {}, at'[b] = "publish"
               PROVE  read[b] = Unread \/ read[b] >= wrote'[e]["providers"]
    BY Zenon DEF ReadNew
  <2>1. b # a
    BY <1>1
  <2>2. at[b] = "publish"
    BY <1>1, <2>1
  <2>3. e # a
    BY <1>2, <2>1, <2>2 DEF Busy
  <2> QED
    BY <1>3, <2>2, <2>3, Zenon DEF Binding, ReadNew
<1>6. LimitsNew'
  <2> SUFFICES ASSUME NEW e \in Editors, met'[e] = {}, at'[e] = "idle"
               PROVE  limits = Unread \/ limits >= wrote'[e]["providers"]
    BY Zenon DEF LimitsNew
  <2>1. e # a
    BY <1>1
  <2> QED
    BY <1>3, <2>1, Zenon DEF Binding, LimitsNew
<1> QED
  BY <1>4, <1>5, <1>6 DEF Binding

(* A step inside a rebuild leaves the limits alone, or publishes what was    *)
(* evaluated.                                                                *)
LEMMA InsideBinds ==
    ASSUME IInv, Binding, NEW a \in Actors, Busy(a),
           \A b \in Actors \ {a} : at'[b] = at[b] /\ read'[b] = read[b],
           \A e \in Editors : met'[e] = {} => met[e] = {},
           UNCHANGED wrote,
           at'[a] = "publish" =>
              \A e \in Editors : read'[a] = Unread \/ read'[a] >= wrote[e]["providers"],
           limits' = limits \/ (limits' = read[a] /\ at[a] = "publish"),
           at'[a] = "idle" => (limits' = read[a] /\ at[a] = "publish") \/ met'[a] # {}
    PROVE  Binding'
<1>1. Quiet'
  <2> SUFFICES ASSUME NEW e \in Editors, met'[e] = {}, Busy(e)', NEW b \in Actors \ {e}
               PROVE  ~Busy(b)'
    BY Zenon DEF Quiet
  <2>1. e \in Actors
    BY DEF Actors
  <2>2. Busy(e)
    BY <2>1, Zenon DEF Busy
  <2>3. ~Busy(b)
    BY <2>2, Zenon DEF Binding, Quiet
  <2>4. b # a
    BY <2>3
  <2> QED
    BY <2>3, <2>4, Zenon DEF Busy
<1>2. ReadNew'
  <2> SUFFICES ASSUME NEW e \in Editors, NEW b \in Actors, met'[e] = {}, at'[b] = "publish"
               PROVE  read'[b] = Unread \/ read'[b] >= wrote[e]["providers"]
    BY Zenon DEF ReadNew
  <2>1. CASE b = a
    BY <2>1
  <2>2. CASE b # a
    BY <2>2, Zenon DEF Binding, ReadNew
  <2> QED
    BY <2>1, <2>2
<1>3. LimitsNew'
  <2> SUFFICES ASSUME NEW e \in Editors, met'[e] = {}, at'[e] = "idle"
               PROVE  limits' = Unread \/ limits' >= wrote[e]["providers"]
    BY Zenon DEF LimitsNew
  <2>1. CASE limits' = read[a] /\ at[a] = "publish"
    BY <2>1, Zenon DEF Binding, ReadNew
  <2>2. CASE ~(limits' = read[a] /\ at[a] = "publish")
    <3>1. e # a
      BY <2>2
    <3>2. at[e] = "idle" /\ limits' = limits
      BY <2>2, <3>1, Zenon DEF Actors
    <3> QED
      BY <3>2, Zenon DEF Binding, LimitsNew
  <2> QED
    BY <2>1, <2>2
<1> QED
  BY <1>1, <1>2, <1>3 DEF Binding

(* An evaluation is no older than anybody's last write.                      *)
LEMMA LimitsBind ==
    ASSUME IInv, Binding, NEW a \in Actors, Evaluate(a) \/ Publish(a) PROVE Binding'
<1>1. CASE Evaluate(a)
  <2>1. /\ Busy(a) /\ UNCHANGED <<limits, wrote, met>> /\ at' = [at EXCEPT ![a] = "publish"]
        /\ \/ read' = [read EXCEPT ![a] = rows["providers"]]
           \/ read' = [read EXCEPT ![a] = Unread]
    BY <1>1 DEF Evaluate, Goto, Busy
  <2>2. /\ at'[a] = "publish"
        /\ \A b \in Actors \ {a} : at'[b] = at[b] /\ read'[b] = read[b]
        /\ read'[a] = Unread \/ read'[a] = rows["providers"]
    BY <2>1 DEF IInv, Typed
  <2>3. \A e \in Editors : rows["providers"] >= wrote[e]["providers"]
    <3>1. \A e \in Editors : wrote[e]["providers"] <= rows["providers"]
      BY Zenon DEF IInv, Behind, Parts
    <3>2. rows["providers"] \in Nat /\ \A e \in Editors : wrote[e]["providers"] \in Nat
      BY DEF IInv, Typed, Parts
    <3> QED
      BY <3>1, <3>2
  <2>4. \A e \in Editors : read'[a] = Unread \/ read'[a] >= wrote[e]["providers"]
    BY <2>2, <2>3, Zenon
  <2> QED
    BY <2>1, <2>2, <2>4, InsideBinds
<1>2. CASE Publish(a)
  <2>1. /\ Busy(a) /\ UNCHANGED <<wrote, met>> /\ limits' = read[a] /\ at[a] = "publish"
        /\ read' = [read EXCEPT ![a] = 0]
        /\ at' = [at EXCEPT ![a] = IF a = Patrol THEN "asleep" ELSE "idle"]
    BY <1>2 DEF Publish, Goto, Busy
  <2>2. /\ at'[a] # "publish"
        /\ \A b \in Actors \ {a} : at'[b] = at[b] /\ read'[b] = read[b]
    BY <2>1 DEF IInv, Typed
  <2> QED
    BY <2>1, <2>2, InsideBinds
<1> QED
  BY <1>1, <1>2

LEMMA RebuildBinds ==
    ASSUME IInv, Binding, NEW e \in Editors, Rebuild(e) PROVE Binding'
<1>1. at \in [Actors -> {"idle", "load", "install", "evaluate", "publish", "asleep"}]
      /\ e \in Actors /\ e # Patrol
  BY EditorsAssumption, Zenon DEF IInv, Typed, Actors
<1>2. CASE Load(e) \/ Install(e)
  <2>1. Busy(e) /\ UNCHANGED <<limits, read, wrote, met>> /\ (at[e] = "load" \/ at[e] = "install")
    BY <1>2 DEF Load, Install, Busy
  <2>2. at' = at \/ \E place \in {"install", "evaluate"} : at' = [at EXCEPT ![e] = place]
    BY <1>2, Zenon DEF Load, Install, Goto
  <2>3. /\ \A b \in Actors \ {e} : at'[b] = at[b]
        /\ at'[e] # "publish" /\ at'[e] # "idle"
    BY <1>1, <2>1, <2>2
  <2> QED
    BY <1>1, <2>1, <2>3, InsideBinds
<1>3. CASE LoadFails(e)
  <2>1. Busy(e) /\ UNCHANGED <<limits, read, wrote>> /\ at' = [at EXCEPT ![e] = "idle"]
        /\ met' = [met EXCEPT ![e] = @ \cup {e}]
    BY <1>3 DEF LoadFails, Goto, Busy
  <2>2. met'[e] # {} /\ \A d \in Editors : met'[d] = {} => met[d] = {}
    BY <2>1 DEF IInv, Typed
  <2>3. at'[e] = "idle" /\ \A b \in Actors \ {e} : at'[b] = at[b]
    BY <1>1, <2>1
  <2> QED
    BY <1>1, <2>1, <2>2, <2>3, InsideBinds
<1> QED
  BY <1>1, <1>2, <1>3, LimitsBind DEF Rebuild

LEMMA BindingKept == IInv /\ Binding /\ [Next]_vars => Binding'
<1> SUFFICES ASSUME IInv, Binding, [Next]_vars PROVE Binding'
  OBVIOUS
<1>1. ASSUME NEW e \in Editors, NEW edit \in Edits, Write(e, edit) PROVE Binding'
  <2>1. /\ e \in Actors /\ at' = [at EXCEPT ![e] = "load"] /\ Meets(e)
        /\ UNCHANGED <<limits, read>>
        /\ \A d \in Editors \ {e} : wrote'[d] = wrote[d]
    BY <1>1 DEF Write, Goto, Actors, IInv, Typed
  <2> QED
    BY <2>1, BeginBinds
<1>2. CASE Wake
  <2>1. /\ Patrol \in Actors /\ at' = [at EXCEPT ![Patrol] = "evaluate"] /\ Meets(Patrol)
        /\ UNCHANGED <<limits, read, wrote>>
    BY <1>2 DEF Wake, Goto, Actors
  <2> QED
    BY <2>1, BeginBinds
<1>3. CASE Evaluate(Patrol) \/ Publish(Patrol)
  BY <1>3, LimitsBind DEF Actors
<1>4. CASE UNCHANGED vars
  BY <1>4, Zenon DEF vars, Binding, Quiet, ReadNew, LimitsNew, Busy
<1> QED
  BY <1>1, <1>2, <1>3, <1>4, RebuildBinds, Zenon DEF Next, Patrols

(* "A limit the user just typed should bind the next request": it does when  *)
(* its handler met nobody, for any number of handlers and failures.          *)
THEOREM LoneLimitsBind == Spec => []AloneBinds
<1>1. Init => IInv /\ Binding
  BY InitHolds, InitBinds
<1>2. IInv /\ Binding /\ [Next]_vars => IInv' /\ Binding'
  BY StepHolds, BindingKept
<1>3. IInv /\ Binding => AloneBinds
  BY Zenon DEF Binding, LimitsNew, AloneBinds, Answered, Binds
<1> QED
  BY <1>1, <1>2, <1>3, PTL DEF Spec
=============================================================================
