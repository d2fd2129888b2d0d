----------------------------- MODULE StickyTable -----------------------------
(***************************************************************************)
(* The session table of the strategy engine: which candidate a session is   *)
(* on, with a ceiling and least-recently-used eviction.                     *)
(* (crates/gateway/src/strategy/sticky.rs)                                  *)
(*                                                                          *)
(* The table lives behind one mutex, so a lookup and an insert are each one *)
(* atomic step.  The same type holds the key pins of a credential pool      *)
(* (server/mod.rs, key_pins), so what is said here is said of both.         *)
(***************************************************************************)
EXTENDS Naturals, FiniteSets

CONSTANTS
    Keys,       \* sticky_key values: an agent and a session (or no session)
    Ids,        \* candidate ids
    Capacity,   \* STICKY_CAPACITY
    MaxTick     \* bound on the number of table operations of one behaviour

ASSUME CapacityAssumption == Capacity \in Nat \ {0}
ASSUME MaxTickAssumption == MaxTick \in Nat

VARIABLES
    map,    \* key -> [id, used], partial: its domain is the keys present
    tick,   \* the operation clock; an entry's `used` is the tick of its last use
    spoke   \* history: when each session last asked the table for anything

vars == <<map, tick, spoke>>

Entry == [id : Ids, used : Nat]

-----------------------------------------------------------------------------
(* The ages in the map, and the value ages[len / 4] of their sorted list:    *)
(* the least age that more than a quarter of the entries do not exceed.      *)

Ages(m) == {m[k].used : k \in DOMAIN m}

NoOlder(m, age) == {k \in DOMAIN m : m[k].used <= age}

PastQuarter(m) ==
    {age \in Ages(m) : Cardinality(NoOlder(m, age)) > Cardinality(DOMAIN m) \div 4}

Cutoff(m) ==
    CHOOSE age \in PastQuarter(m) : \A other \in PastQuarter(m) : age <= other

(* Fault: the ceiling compared after the push.                               *)
EvictLate(m) ==
    IF Cardinality(DOMAIN m) <= Capacity + 1
    THEN m
    ELSE [k \in {key \in DOMAIN m : m[key].used > Cutoff(m)} |-> m[k]]

(* retain(used > cutoff), once the map is over its ceiling.                  *)
EvictIfOver(m) ==
    IF Cardinality(DOMAIN m) <= Capacity
    THEN m
    ELSE [k \in {key \in DOMAIN m : m[key].used > Cutoff(m)} |-> m[k]]

(* HashMap::insert: a new entry, or the old key's entry replaced.            *)
Put(m, key, entry) ==
    [k \in DOMAIN m \cup {key} |-> IF k = key THEN entry ELSE m[k]]

-----------------------------------------------------------------------------
Empty == [k \in {} |-> [id |-> k, used |-> 0]]

Init ==
    /\ map = Empty
    /\ tick = 0
    /\ spoke = [k \in Keys |-> 0]

(* Every operation takes the lock, advances the clock and is made on behalf  *)
(* of one session.                                                           *)
Operation(key) ==
    /\ tick < MaxTick
    /\ tick' = tick + 1
    /\ spoke' = [spoke EXCEPT ![key] = tick + 1]

(* Fault: a hit that is not a use.                                           *)
GetUnused(key) == Operation(key) /\ UNCHANGED map

(* A lookup: the clock moves whether or not it hits, and a hit is a use.     *)
Get(key) ==
    /\ Operation(key)
    /\ IF key \in DOMAIN map
       THEN map' = [map EXCEPT ![key].used = tick + 1]
       ELSE UNCHANGED map

Insert(key, id) ==
    /\ Operation(key)
    /\ map' = EvictIfOver(Put(map, key, [id |-> id, used |-> tick + 1]))

Next == \E key \in Keys : Get(key) \/ \E id \in Ids : Insert(key, id)

Spec == Init /\ [][Next]_vars

-----------------------------------------------------------------------------
(* The table's keys are keys, its entries entries, its clock a number.       *)
TypeOK ==
    /\ DOMAIN map \subseteq Keys
    /\ IsFiniteSet(DOMAIN map)
    /\ map \in [DOMAIN map -> Entry]
    /\ tick \in Nat
    /\ spoke \in [Keys -> Nat]

(* An entry's age is the last time its session spoke, and no two share one:  *)
(* every use takes a fresh tick, so "retain used > cutoff" drops a known     *)
(* number of entries rather than a whole tie.                                *)
AgesAreUses ==
    /\ \A k \in DOMAIN map : map[k].used = spoke[k] /\ spoke[k] <= tick
    /\ \A j, k \in DOMAIN map : map[j].used = map[k].used => j = k

(* "roundrobin's session table, with a ceiling" (sticky.rs:40): whatever the *)
(* sequence of lookups and inserts, the map never holds more than its        *)
(* capacity once an insert has returned.                                     *)
Bounded == Cardinality(DOMAIN map) <= Capacity

(* How many entries are younger than the one at the cutoff when the map is   *)
(* one over its ceiling: the table keeps at least that many.                 *)
Kept == Capacity - ((Capacity + 1) \div 4)

(* "Least-recently-used eviction cannot take the slot out from under a live  *)
(* conversation" (sticky.rs:42-47): an insert that loses an entry has stored *)
(* its own, every session it keeps has spoken since the lost one did, and    *)
(* the lost one has been quiet for at least Kept uses of the table.          *)
EvictsOnlyQuiet ==
    [][\A lost \in DOMAIN map \ DOMAIN map' :
          /\ tick' - spoke[lost] >= Kept
          /\ \E k \in DOMAIN map' : spoke'[k] = tick'
          /\ \A k \in DOMAIN map' : spoke'[k] > spoke[lost]]_vars

=============================================================================
