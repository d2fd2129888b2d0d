------------------------------- MODULE KeyPool -------------------------------
(***************************************************************************)
(* The credentials of one upstream provider: which key of its pool a turn   *)
(* is sent with, while keys are added, removed and replaced.                *)
(* (forward/headers.rs select_upstream_key, server/mod.rs next_key_index,   *)
(* pinned_key, pin_key, router/mod.rs key_pool, store/keys.rs)              *)
(*                                                                          *)
(* The pins are a StickyTable, whose Get and Insert are used here: Keys are *)
(* the sessions, Ids the handles of the pool's entries.  The lookup, the    *)
(* cursor and the pin are three locks, so turns interleave between them.    *)
(***************************************************************************)
EXTENDS StickyTable, Sequences, SequencesExt

CONSTANTS
    Turns,      \* turns that may be choosing a key at the same time
    NoSession,  \* what a turn that names no session carries
    Secrets,    \* key values
    NoKey,      \* a provider without a primary key
    MaxTurns,   \* bound on the turns of one behaviour
    MaxEdits    \* bound on the edits of the pool

ASSUME PoolAssumption ==
    /\ NoSession \notin Keys /\ NoKey \notin Secrets
    /\ Ids = 0..MaxEdits + 1
    /\ MaxTurns \in Nat /\ MaxEdits \in Nat

VARIABLES
    primary,  \* providers.api_key
    rows,     \* the provider's rows of api_keys, by id
    lastId,   \* the AUTOINCREMENT sequence: no id is given out twice
    table,    \* the pool as the installed route table carries it
    cursor,   \* key_cursors of this provider
    turn,     \* turn -> where it is and what it carries
    begun,    \* turns so far
    edits,    \* edits so far
    last,     \* history: the entry each session was last sent with
    crossed,  \* history: sessions that had two turns choosing at once
    dealt,    \* history: how often the cursor dealt each entry of this table
    mixed     \* history: the cursor was also moved by a turn with another table

pins     == <<map, tick, spoke>>
database == <<primary, rows, lastId, edits>>
history  == <<last, crossed, dealt, mixed>>
poolVars == <<pins, database, table, cursor, turn, begun, history>>

Primary == 0
Resting == [at |-> "idle", session |-> NoSession, pool |-> <<>>, entry |-> Primary]

-----------------------------------------------------------------------------
(* key_pool: the primary first, then the rows in the order of their ids,     *)
(* without those whose value is already in the pool.                         *)
First(value) == IF value = NoKey THEN <<>> ELSE <<[handle |-> Primary, key |-> value]>>

Join(pool, row) ==
    IF \E i \in DOMAIN pool : pool[i].key = row.key
    THEN pool
    ELSE Append(pool, [handle |-> row.id, key |-> row.key])

Pool(value, extras) == FoldLeft(Join, First(value), extras)

Handles(pool) == {pool[i].handle : i \in DOMAIN pool}

PoolInit ==
    /\ Init
    /\ primary \in Secrets /\ lastId = 1
    /\ \E extra \in Secrets : rows = <<[id |-> 1, key |-> extra]>>
    /\ table = Pool(primary, rows)
    /\ cursor = 0
    /\ turn = [t \in Turns |-> Resting]
    /\ begun = 0 /\ edits = 0
    /\ last = [s \in Keys |-> {}] /\ crossed = {}
    /\ dealt = [h \in Ids |-> 0] /\ mixed = FALSE

-----------------------------------------------------------------------------
(* A turn of a conversation, or of none.                                     *)

Choosing(s) == {t \in Turns : turn[t].at # "idle" /\ turn[t].session = s}

(* The turn is routed: it carries the provider as the table has it now.  A   *)
(* provider without a key is an error, and nothing is chosen.                *)
Begin(t, s) ==
    /\ turn[t].at = "idle" /\ begun < MaxTurns
    /\ table # <<>>
    /\ begun' = begun + 1
    /\ turn' = [turn EXCEPT ![t] =
                   [Resting EXCEPT !.at = IF s = NoSession THEN "rotate" ELSE "look",
                                   !.session = s, !.pool = table]]
    /\ crossed' = IF s # NoSession /\ Choosing(s) # {} THEN crossed \cup {s} ELSE crossed
    /\ UNCHANGED <<pins, database, table, cursor, last, dealt, mixed>>

(* The key is chosen; what the turn goes upstream with is remembered.        *)
Sent(t, handle) ==
    /\ turn' = [turn EXCEPT ![t] = [Resting EXCEPT !.entry = handle]]
    /\ last' = IF turn[t].session = NoSession
               THEN last ELSE [last EXCEPT ![turn[t].session] = {handle}]

(* pinned_key, and the pin is followed if its entry is still in the pool.    *)
Look(t) ==
    /\ turn[t].at = "look"
    /\ Get(turn[t].session)
    /\ LET s == turn[t].session
       IN  IF s \in DOMAIN map /\ map[s].id \in Handles(turn[t].pool)
           THEN Sent(t, map[s].id)
           ELSE turn' = [turn EXCEPT ![t].at = "rotate"] /\ UNCHANGED last
    /\ UNCHANGED <<database, table, cursor, begun, crossed, dealt, mixed>>

(* next_key_index, counted from 1.                                           *)
NextKeyIndex(len) == IF len <= 1 THEN 1 ELSE (cursor % len) + 1

(* Fault: the cursor belongs to the turns that name a session.               *)
AdvanceForSessions(t, handle) ==
    IF Len(turn[t].pool) <= 1
    THEN UNCHANGED <<cursor, dealt, mixed>>
    ELSE /\ cursor' = IF turn[t].session = NoSession THEN cursor ELSE cursor + 1
         /\ dealt' = [dealt EXCEPT ![handle] = @ + 1]
         /\ mixed' = (mixed \/ turn[t].pool # table)

(* The cursor moves on, and is not touched for a pool of one.                *)
Advance(t, handle) ==
    IF Len(turn[t].pool) <= 1
    THEN UNCHANGED <<cursor, dealt, mixed>>
    ELSE /\ cursor' = cursor + 1
         /\ dealt' = [dealt EXCEPT ![handle] = @ + 1]
         /\ mixed' = (mixed \/ turn[t].pool # table)

Rotate(t) ==
    /\ turn[t].at = "rotate"
    /\ LET handle == turn[t].pool[NextKeyIndex(Len(turn[t].pool))].handle
       IN  /\ Advance(t, handle)
           /\ IF turn[t].session = NoSession
              THEN Sent(t, handle)
              ELSE /\ turn' = [turn EXCEPT ![t].at = "pin", ![t].entry = handle]
                   /\ UNCHANGED last
    /\ UNCHANGED <<pins, database, table, begun, crossed>>

(* Fault: the pin is put down under the entry's place in the pool.           *)
PinPlace(t) ==
    /\ turn[t].at = "pin"
    /\ Insert(turn[t].session,
              (CHOOSE i \in DOMAIN turn[t].pool : turn[t].pool[i].handle = turn[t].entry) - 1)
    /\ Sent(t, turn[t].entry)
    /\ UNCHANGED <<database, table, cursor, begun, crossed, dealt, mixed>>

(* pin_key.                                                                  *)
Pin(t) ==
    /\ turn[t].at = "pin"
    /\ Insert(turn[t].session, turn[t].entry)
    /\ Sent(t, turn[t].entry)
    /\ UNCHANGED <<database, table, cursor, begun, crossed, dealt, mixed>>

-----------------------------------------------------------------------------
(* Edits of the pool.  Each handler commits its row and reloads the route    *)
(* table; a turn reads nothing but the table, so the two are one step here   *)
(* (how rebuilds cross is Reload).                                           *)

Reloaded ==
    /\ edits < MaxEdits /\ edits' = edits + 1
    /\ table' = Pool(primary', rows')
    /\ IF table' = table
       THEN UNCHANGED <<dealt, mixed>>
       ELSE dealt' = [h \in Ids |-> 0] /\ mixed' = FALSE
    /\ UNCHANGED <<pins, cursor, turn, begun, last, crossed>>

(* insert_api_key: a value the provider has a row of is that row.            *)
AddKey(value) ==
    /\ IF \E i \in DOMAIN rows : rows[i].key = value
       THEN UNCHANGED <<rows, lastId>>
       ELSE /\ rows' = Append(rows, [id |-> lastId + 1, key |-> value])
            /\ lastId' = lastId + 1
    /\ UNCHANGED primary
    /\ Reloaded

(* delete_api_key.                                                           *)
DeleteKey(id) ==
    /\ \E i \in DOMAIN rows : rows[i].id = id /\ rows' = RemoveAt(rows, i)
    /\ UNCHANGED <<primary, lastId>>
    /\ Reloaded

(* update_provider, as far as the primary key goes.                          *)
SetPrimary(value) ==
    /\ value # primary
    /\ primary' = value
    /\ UNCHANGED <<rows, lastId>>
    /\ Reloaded

PoolNext ==
    \/ \E t \in Turns :
          \/ \E s \in Keys \cup {NoSession} : Begin(t, s)
          \/ Look(t) \/ Rotate(t) \/ Pin(t)
    \/ \E value \in Secrets : AddKey(value)
    \/ \E id \in Ids : DeleteKey(id)
    \/ \E value \in Secrets \cup {NoKey} : SetPrimary(value)

PoolSpec == PoolInit /\ [][PoolNext]_poolVars

-----------------------------------------------------------------------------
(* "It stays on the pool entry the conversation started on" (headers.rs):    *)
(* whatever is added, removed or replaced meanwhile and whoever else speaks, *)
(* a conversation that was not quiet for the time the table promises and     *)
(* sends one turn at a time goes on with the entry it was last sent with, as *)
(* long as its turn carries that entry; and no turn goes out with an entry   *)
(* it does not carry.                                                        *)
KeepsItsKey ==
    [][\A t \in Turns :
          turn[t].at = "look" /\ turn'[t].at # "look" =>
             LET s == turn[t].session
             IN  /\ s \notin crossed /\ tick - spoke[s] < Kept
                       /\ last[s] # {} /\ last[s] \subseteq Handles(turn[t].pool)
                    => turn'[t].at = "idle" /\ last'[s] = last[s]
                 /\ turn'[t].at = "idle" => turn'[t].entry \in Handles(turn[t].pool)]_poolVars

(* "The spreading the pool exists for" (headers.rs): however sessions begin  *)
(* and turns without one come in between, no entry of the pool is dealt more *)
(* than once more often than another while the table stands.                 *)
KeysTakeTurns ==
    ~mixed => \A g, h \in Handles(table) : dealt[g] <= dealt[h] + 1
=============================================================================
