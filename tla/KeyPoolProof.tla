---------------------------- MODULE KeyPoolProof ----------------------------
(***************************************************************************)
(* Proofs about the session table, for every set of sessions and every      *)
(* capacity: its type, the distinctness of its ages, its ceiling, and that  *)
(* eviction only ever takes a session that has gone quiet.  Then about the  *)
(* credential pool whose pins are such a table, for every set of sessions,  *)
(* turns and key values: that its steps are steps of the table, that its    *)
(* entries take turns, and that a conversation keeps its entry.             *)
(***************************************************************************)
EXTENDS KeyPool, SharedLemmas, FunctionTheorems

-----------------------------------------------------------------------------
(* Order statistics of a finite set of ages.                                 *)

(* One bounded above has a greatest element.                                 *)
LEMMA Greatest ==
    ASSUME NEW n \in Nat, NEW S \in SUBSET Nat, S # {}, \A x \in S : x <= n
    PROVE  \E x \in S : \A y \in S : y <= x
<1> DEFINE T == {n - x : x \in S}
<1>1. T \in SUBSET Nat /\ T # {}
    <2>1. \A x \in S : x \in Nat /\ x <= n
        OBVIOUS
    <2>2. \A x \in S : n - x \in Nat
        BY <2>1
    <2>3. PICK x \in S : TRUE
        OBVIOUS
    <2>4. n - x \in T
        BY <2>3
    <2>5. \A t \in T : t \in Nat
        BY <2>2
    <2> QED BY <2>4, <2>5
<1>2. PICK t \in T : \A u \in T : t <= u
    BY <1>1, Least
<1>3. PICK x \in S : t = n - x
    OBVIOUS
<1>4. \A y \in S : n - x <= n - y
    BY <1>2, <1>3
<1> QED BY <1>4

(* A table as the eviction sees it: finite, with distinct ages up to now.    *)
Table(m, now) ==
    /\ IsFiniteSet(DOMAIN m)
    /\ DOMAIN m # {}
    /\ now \in Nat
    /\ \A k \in DOMAIN m : m[k].used \in Nat /\ m[k].used <= now
    /\ \A j, k \in DOMAIN m : m[j].used = m[k].used => j = k

(* The cutoff is the age of an entry, and the least one past the quarter.    *)
LEMMA CutoffIsLeast ==
    ASSUME NEW m, NEW now, Table(m, now)
    PROVE  /\ Cutoff(m) \in PastQuarter(m)
           /\ \A age \in PastQuarter(m) : Cutoff(m) <= age
<1>1. Ages(m) \in SUBSET Nat /\ Ages(m) # {} /\ now \in Nat /\ \A a \in Ages(m) : a <= now
    BY DEF Table, Ages
<1>2. PICK top \in Ages(m) : \A a \in Ages(m) : a <= top
    BY <1>1, Greatest
<1>3. NoOlder(m, top) = DOMAIN m
    BY <1>2 DEF NoOlder, Ages
<1>4. Cardinality(DOMAIN m) \in Nat /\ Cardinality(DOMAIN m) # 0
    BY FS_CardinalityType, FS_EmptySet DEF Table
<1>5. Cardinality(DOMAIN m) > Cardinality(DOMAIN m) \div 4
    BY <1>4
<1>6. top \in PastQuarter(m)
    BY <1>3, <1>5 DEF PastQuarter
<1>7. PastQuarter(m) \in SUBSET Nat /\ PastQuarter(m) # {}
    BY <1>1, <1>6 DEF PastQuarter
<1>8. \E age \in PastQuarter(m) : \A other \in PastQuarter(m) : age <= other
    BY <1>7, Least
<1> QED BY <1>8 DEF Cutoff

(* With distinct ages exactly a quarter and one entry fall to the cutoff.    *)
LEMMA CutoffRank ==
    ASSUME NEW m, NEW now, Table(m, now)
    PROVE  /\ IsFiniteSet(NoOlder(m, Cutoff(m)))
           /\ Cardinality(NoOlder(m, Cutoff(m))) = Cardinality(DOMAIN m) \div 4 + 1
<1> DEFINE n == Cardinality(DOMAIN m)
           c == Cutoff(m)
           quarter == n \div 4
<1>1. n \in Nat /\ quarter \in Nat
    BY FS_CardinalityType DEF Table
<1>2. c \in PastQuarter(m) /\ \A age \in PastQuarter(m) : c <= age
    BY CutoffIsLeast
<1>3. PICK kc \in DOMAIN m : m[kc].used = c
    BY <1>2 DEF PastQuarter, Ages
<1>4. c \in Nat
    BY <1>3 DEF Table
<1>5. IsFiniteSet(NoOlder(m, c))
    BY FS_Subset DEF Table, NoOlder
<1>6. Cardinality(NoOlder(m, c)) \in Nat /\ Cardinality(NoOlder(m, c)) > quarter
    BY <1>2, <1>5, FS_CardinalityType DEF PastQuarter
<1> DEFINE below == NoOlder(m, c) \ {kc}
<1>7. kc \in NoOlder(m, c)
    BY <1>3, <1>4 DEF NoOlder
<1>8. IsFiniteSet(below) /\ Cardinality(below) = Cardinality(NoOlder(m, c)) - 1
    BY <1>5, <1>7, FS_RemoveElement
<1>9. \A k \in below : m[k].used < c
    BY <1>3, <1>4 DEF NoOlder, Table
<1>10. Cardinality(below) <= quarter
    <2>1. CASE below = {}
        BY <2>1, <1>1, FS_EmptySet
    <2>2. CASE below # {}
        <3> DEFINE older == {m[k].used : k \in below}
        <3>1. older \in SUBSET Nat /\ older # {} /\ \A a \in older : a <= c
            BY <2>2, <1>4, <1>9 DEF Table, NoOlder
        <3>2. PICK a \in older : \A b \in older : b <= a
            <4> HIDE DEF older
            <4> QED
                BY <3>1, <1>4, Greatest
        <3>3. NoOlder(m, a) = below
            <4>1. a \in Nat /\ a < c
                BY <3>1, <1>9, <1>4
            <4>2. ASSUME NEW k \in DOMAIN m, m[k].used <= a
                  PROVE  k \in below
                <5>1. m[k].used \in Nat /\ m[k].used < c
                    BY <4>1, <4>2, <1>4 DEF Table
                <5> QED BY <5>1, <1>3, <1>4 DEF NoOlder
            <4>3. ASSUME NEW k \in below
                  PROVE  k \in DOMAIN m /\ m[k].used <= a
                BY <3>2 DEF NoOlder
            <4> QED BY <4>2, <4>3 DEF NoOlder
        <3>4. a \in Ages(m)
            BY DEF Ages, NoOlder
        <3>5. a \in Nat /\ a < c
            BY <3>1, <1>9, <1>4
        <3>6. a \notin PastQuarter(m)
            BY <3>5, <1>2, <1>4
        <3>7. ~ (Cardinality(below) > quarter)
            BY <3>3, <3>4, <3>6 DEF PastQuarter
        <3> QED BY <3>7, <1>8, <1>1, FS_CardinalityType
    <2> QED BY <2>1, <2>2
<1> QED BY <1>1, <1>5, <1>6, <1>8, <1>10, FS_CardinalityType

-----------------------------------------------------------------------------
(* The eviction step.                                                        *)

(* What an overfull map keeps: a part of itself, without the entry at the    *)
(* cutoff, and all but a quarter and one of its entries.                     *)
LEMMA EvictionKeeps ==
    ASSUME NEW m, NEW now, Table(m, now), Cardinality(DOMAIN m) > Capacity
    PROVE  LET kept == EvictIfOver(m) IN
           /\ DOMAIN kept = {k \in DOMAIN m : m[k].used > Cutoff(m)}
           /\ \A k \in DOMAIN kept : kept[k] = m[k]
           /\ IsFiniteSet(DOMAIN kept)
           /\ Cutoff(m) \in Nat
           /\ Cardinality(DOMAIN kept)
                = Cardinality(DOMAIN m) - (Cardinality(DOMAIN m) \div 4) - 1
<1> DEFINE n == Cardinality(DOMAIN m)
           old == NoOlder(m, Cutoff(m))
           young == {k \in DOMAIN m : m[k].used > Cutoff(m)}
<1>1. n \in Nat
    BY FS_CardinalityType DEF Table
<1>2. EvictIfOver(m) = [k \in young |-> m[k]]
    BY <1>1, CapacityAssumption DEF EvictIfOver
<1>3. Cutoff(m) \in Nat
    BY CutoffIsLeast DEF PastQuarter, Ages, Table
<1>4. young = DOMAIN m \ old
    BY <1>3 DEF NoOlder, Table
<1>5. old \subseteq DOMAIN m /\ IsFiniteSet(DOMAIN m)
    BY DEF NoOlder, Table
<1>6. IsFiniteSet(young) /\ Cardinality(young) = n - Cardinality(DOMAIN m \cap old)
    <2> HIDE DEF old, young
    <2>1. /\ IsFiniteSet(DOMAIN m \ old)
          /\ Cardinality(DOMAIN m \ old) = Cardinality(DOMAIN m) - Cardinality(DOMAIN m \cap old)
        BY <1>5, FS_Difference, Zenon
    <2> QED
        BY <1>4, <2>1, Zenon
<1>7. DOMAIN m \cap old = old
    BY <1>5
<1>8. Cardinality(old) = n \div 4 + 1 /\ n \div 4 \in Nat
    BY <1>1, CutoffRank
<1>9. Cardinality(DOMAIN m \cap old) = n \div 4 + 1
    BY <1>7, <1>8, Zenon
<1>10. Cardinality(young) = n - (n \div 4) - 1
    BY <1>1, <1>6, <1>8, <1>9
<1> QED BY <1>2, <1>3, <1>6, <1>10

-----------------------------------------------------------------------------
(* The inductive invariant.                                                  *)

IInv == TypeOK /\ AgesAreUses /\ Bounded

LEMMA InitIInv == Init => IInv
<1> SUFFICES ASSUME Init PROVE IInv
    OBVIOUS
<1>1. DOMAIN map = {}
    BY DEF Init, Empty
<1>2. IsFiniteSet(DOMAIN map) /\ Cardinality(DOMAIN map) = 0
    BY <1>1, FS_EmptySet
<1>3. map \in [DOMAIN map -> Entry]
    BY <1>1 DEF Init, Empty
<1>4. tick \in Nat /\ spoke \in [Keys -> Nat]
    BY DEF Init
<1> QED BY <1>1, <1>2, <1>3, <1>4, CapacityAssumption DEF IInv, TypeOK, AgesAreUses, Bounded

(* A lookup keeps the set of entries and gives the one it hits a fresh age.  *)
LEMMA GetIInv ==
    ASSUME IInv, NEW key \in Keys, Get(key)
    PROVE  IInv'
<1> USE DEF IInv
<1>1. /\ DOMAIN map' = DOMAIN map
      /\ \A k \in DOMAIN map : k # key => map'[k] = map[k]
      /\ key \in DOMAIN map => map'[key] = [id |-> map[key].id, used |-> tick + 1]
    BY DEF Get, TypeOK, Entry
<1>2. /\ tick' = tick + 1 /\ tick \in Nat
      /\ spoke' \in [Keys -> Nat] /\ spoke'[key] = tick + 1
      /\ \A k \in Keys : k # key => spoke'[k] = spoke[k]
    BY DEF Get, Operation, TypeOK
<1>3. map' \in [DOMAIN map -> Entry]
    BY DEF Get, TypeOK, Entry
<1>4. TypeOK'
    BY <1>1, <1>2, <1>3 DEF TypeOK
<1>5. \A k \in DOMAIN map : map[k].used \in Nat /\ map[k].used <= tick /\ k \in Keys
    BY DEF TypeOK, AgesAreUses, Entry
<1>6. AgesAreUses'
    BY <1>1, <1>2, <1>5 DEF AgesAreUses
<1> QED BY <1>1, <1>4, <1>6 DEF Bounded

(* The map an insert stores before it evicts.                                *)
LEMMA PutIsTable ==
    ASSUME IInv, NEW key \in Keys, NEW id \in Ids
    PROVE  LET m == Put(map, key, [id |-> id, used |-> tick + 1]) IN
           /\ Table(m, tick + 1)
           /\ DOMAIN m = DOMAIN map \cup {key}
           /\ m \in [DOMAIN m -> Entry]
           /\ m[key].used = tick + 1
           /\ \A k \in DOMAIN map : k # key => m[k] = map[k]
           /\ Cardinality(DOMAIN m) <= Capacity + 1
<1> DEFINE new == [id |-> id, used |-> tick + 1]
           m == Put(map, key, new)
<1> USE DEF IInv
<1>1. DOMAIN m = DOMAIN map \cup {key}
    BY DEF Put
<1>2. new \in Entry /\ new.used = tick + 1 /\ tick \in Nat
    BY DEF Entry, TypeOK
<1>3. m[key] = new /\ \A k \in DOMAIN map : k # key => m[k] = map[k]
    BY DEF Put
<1>4. m \in [DOMAIN m -> Entry]
    BY <1>2 DEF Put, TypeOK
<1>5. \A k \in DOMAIN map : map[k].used \in Nat /\ map[k].used <= tick
    BY DEF TypeOK, AgesAreUses, Entry
<1>6. IsFiniteSet(DOMAIN m) /\ Cardinality(DOMAIN m) <= Cardinality(DOMAIN map) + 1
    <2>1. IsFiniteSet(DOMAIN map)
        BY DEF TypeOK
    <2>2. Cardinality(DOMAIN map) \in Nat
        BY <2>1, FS_CardinalityType
    <2> QED BY <1>1, <2>1, <2>2, FS_AddElement
<1>7. Cardinality(DOMAIN m) <= Capacity + 1
    BY <1>6, CapacityAssumption, FS_CardinalityType DEF Bounded, TypeOK
<1>8. \A k \in DOMAIN m : m[k].used \in Nat /\ m[k].used <= tick + 1
    BY <1>1, <1>2, <1>3, <1>5
<1>9. \A j, k \in DOMAIN m : m[j].used = m[k].used => j = k
    BY <1>1, <1>2, <1>3, <1>5 DEF AgesAreUses
<1>10. Table(m, tick + 1)
    BY <1>1, <1>2, <1>6, <1>8, <1>9 DEF Table
<1> QED BY <1>1, <1>2, <1>3, <1>4, <1>7, <1>10

(* What an insert leaves: part of the stored map, with the new entry in it.  *)
LEMMA InsertKeeps ==
    ASSUME IInv, NEW key \in Keys, NEW id \in Ids
    PROVE  LET m == Put(map, key, [id |-> id, used |-> tick + 1])
               kept == EvictIfOver(m)
           IN  /\ DOMAIN kept \subseteq DOMAIN m
               /\ \A k \in DOMAIN kept : kept[k] = m[k]
               /\ kept \in [DOMAIN kept -> Entry]
               /\ IsFiniteSet(DOMAIN kept)
               /\ Cardinality(DOMAIN kept) <= Capacity
               /\ key \in DOMAIN kept
               /\ DOMAIN kept # DOMAIN m =>
                     /\ Cardinality(DOMAIN kept) >= Kept
                     /\ \A k \in DOMAIN m \ DOMAIN kept, j \in DOMAIN kept :
                           m[k].used < m[j].used
<1> DEFINE m == Put(map, key, [id |-> id, used |-> tick + 1])
           kept == EvictIfOver(m)
           n == Cardinality(DOMAIN m)
<1>1. /\ Table(m, tick + 1)
      /\ m \in [DOMAIN m -> Entry]
      /\ key \in DOMAIN m /\ m[key].used = tick + 1
      /\ n <= Capacity + 1
    BY PutIsTable
<1>2. IsFiniteSet(DOMAIN m) /\ n \in Nat /\ Capacity \in Nat \ {0}
    BY <1>1, FS_CardinalityType, CapacityAssumption DEF Table
<1> DEFINE Claim ==
        /\ DOMAIN kept \subseteq DOMAIN m
        /\ \A k \in DOMAIN kept : kept[k] = m[k]
        /\ kept \in [DOMAIN kept -> Entry]
        /\ IsFiniteSet(DOMAIN kept)
        /\ Cardinality(DOMAIN kept) <= Capacity
        /\ key \in DOMAIN kept
        /\ DOMAIN kept # DOMAIN m =>
              /\ Cardinality(DOMAIN kept) >= Kept
              /\ \A k \in DOMAIN m \ DOMAIN kept, j \in DOMAIN kept :
                    m[k].used < m[j].used
<1> HIDE DEF m
<1>3. ASSUME n <= Capacity PROVE Claim
    <2>1. kept = m
        BY <1>3 DEF EvictIfOver
    <2> HIDE DEF kept
    <2> QED BY <2>1, <1>1, <1>2, <1>3
<1>4. ASSUME ~ (n <= Capacity) PROVE Claim
    <2>1. n = Capacity + 1 /\ n > Capacity
        BY <1>1, <1>2, <1>4
    <2> DEFINE c == Cutoff(m)
    <2>2. /\ DOMAIN kept = {k \in DOMAIN m : m[k].used > c}
          /\ \A k \in DOMAIN kept : kept[k] = m[k]
          /\ IsFiniteSet(DOMAIN kept)
          /\ c \in Nat
          /\ Cardinality(DOMAIN kept) = n - (n \div 4) - 1
        BY <1>1, <2>1, EvictionKeeps
    <2>3. kept = [k \in DOMAIN kept |-> m[k]]
        BY <1>4, <2>2 DEF EvictIfOver
    <2> HIDE DEF kept, c
    <2>4. kept \in [DOMAIN kept -> Entry]
        BY <2>2, <2>3, <1>1
    <2>5. /\ Cardinality(DOMAIN kept) <= Capacity
          /\ Cardinality(DOMAIN kept) >= Kept
          /\ Cardinality(DOMAIN kept) > 0
        BY <2>1, <2>2, <1>2 DEF Kept
    <2>6. PICK j \in DOMAIN kept : TRUE
        BY <2>2, <2>5, FS_EmptySet
    <2>7. \A k \in DOMAIN m : m[k].used \in Nat /\ m[k].used <= tick + 1
        BY <1>1 DEF Table
    <2>8. tick + 1 > c
        BY <2>2, <2>6, <2>7, <1>1 DEF Table
    <2>9. key \in DOMAIN kept
        BY <2>2, <2>8, <1>1
    <2>10. \A k \in DOMAIN m \ DOMAIN kept, i \in DOMAIN kept : m[k].used < m[i].used
        BY <2>2, <2>7
    <2> QED BY <2>2, <2>4, <2>5, <2>9, <2>10
<1> QED BY <1>3, <1>4 DEF m

LEMMA InsertIInv ==
    ASSUME IInv, NEW key \in Keys, NEW id \in Ids, Insert(key, id)
    PROVE  IInv'
<1> USE DEF IInv
<1> DEFINE m == Put(map, key, [id |-> id, used |-> tick + 1])
<1>1. /\ map' = EvictIfOver(m)
      /\ tick' = tick + 1 /\ tick \in Nat
      /\ spoke' \in [Keys -> Nat] /\ spoke'[key] = tick + 1
      /\ \A k \in Keys : k # key => spoke'[k] = spoke[k]
    BY DEF Insert, Operation, TypeOK
<1>2. /\ Table(m, tick + 1)
      /\ DOMAIN m = DOMAIN map \cup {key}
      /\ m[key].used = tick + 1
      /\ \A k \in DOMAIN map : k # key => m[k] = map[k]
    BY PutIsTable
<1>3. /\ DOMAIN map' \subseteq DOMAIN m
      /\ \A k \in DOMAIN map' : map'[k] = m[k]
      /\ map' \in [DOMAIN map' -> Entry]
      /\ IsFiniteSet(DOMAIN map')
      /\ Cardinality(DOMAIN map') <= Capacity
    BY <1>1, InsertKeeps
<1> HIDE DEF m
<1>4. DOMAIN map' \subseteq Keys
    BY <1>2, <1>3 DEF TypeOK
<1>5. TypeOK'
    BY <1>1, <1>3, <1>4 DEF TypeOK
<1>6. \A k \in DOMAIN map : map[k].used = spoke[k] /\ spoke[k] \in Nat /\ spoke[k] <= tick
    BY DEF TypeOK, AgesAreUses
<1>7. \A k \in DOMAIN map' : map'[k].used = spoke'[k] /\ spoke'[k] <= tick'
    BY <1>1, <1>2, <1>3, <1>4, <1>6
<1>8. \A j, k \in DOMAIN map' : map'[j].used = map'[k].used => j = k
    BY <1>2, <1>3 DEF Table
<1> QED BY <1>3, <1>5, <1>7, <1>8 DEF AgesAreUses, Bounded

LEMMA NextIInv == IInv /\ [Next]_vars => IInv'
<1> SUFFICES ASSUME IInv, [Next]_vars PROVE IInv'
    OBVIOUS
<1>1. ASSUME NEW key \in Keys, Get(key) PROVE IInv'
    BY <1>1, GetIInv
<1>2. ASSUME NEW key \in Keys, NEW id \in Ids, Insert(key, id) PROVE IInv'
    BY <1>2, InsertIInv
<1>3. CASE UNCHANGED vars
    BY <1>3 DEF vars, IInv, TypeOK, AgesAreUses, Bounded
<1> QED BY <1>1, <1>2, <1>3 DEF Next

THEOREM Invariance == Spec => []IInv
<1> QED BY InitIInv, NextIInv, PTL DEF Spec

-----------------------------------------------------------------------------
(* The table is what its type says, whatever its callers do in what order.   *)
THEOREM TypeCorrect == Spec => []TypeOK
<1>1. IInv => TypeOK BY DEF IInv
<1> QED BY <1>1, Invariance, PTL

(* The ceiling of sticky.rs:38 holds after every operation, for every        *)
(* capacity: the map that "only grows" (sticky.rs:42) does not.              *)
THEOREM CeilingHolds == Spec => []Bounded
<1>1. IInv => Bounded BY DEF IInv
<1> QED BY <1>1, Invariance, PTL

-----------------------------------------------------------------------------
(* Eviction.                                                                 *)

(* Naturals in an interval above a floor number at most its length.          *)
LEMMA SpanBoundsCount ==
    ASSUME NEW S, IsFiniteSet(S), NEW f \in [S -> Nat],
           NEW lo \in Nat, NEW hi \in Nat, lo <= hi,
           \A x \in S : lo < f[x] /\ f[x] <= hi,
           \A x, y \in S : f[x] = f[y] => x = y
    PROVE  Cardinality(S) <= hi - lo
<1> DEFINE T == (lo + 1) .. hi
<1>1. f \in [S -> T]
    OBVIOUS
<1>2. f \in Injection(S, T)
    BY <1>1 DEF Injection, IsInjective
<1>3. IsFiniteSet(T) /\ Cardinality(T) = hi - lo
    <2>1. lo + 1 \in Int /\ hi \in Int
        OBVIOUS
    <2>2. IsFiniteSet(T) /\ Cardinality(T) = IF lo + 1 > hi THEN 0 ELSE hi - (lo + 1) + 1
        BY <2>1, FS_Interval, Zenon
    <2> QED BY <2>2
<1> QED BY <1>2, <1>3, FS_Injection

(* What one step may lose, from the invariant.                               *)
LEMMA StepEvictsOnlyQuiet ==
    ASSUME IInv, [Next]_vars, NEW lost \in DOMAIN map \ DOMAIN map'
    PROVE  /\ tick' - spoke[lost] >= Kept
           /\ \E k \in DOMAIN map' : spoke'[k] = tick'
           /\ \A k \in DOMAIN map' : spoke'[k] > spoke[lost]
<1>1. \A key \in Keys : ~ Get(key)
    <2> SUFFICES ASSUME NEW key \in Keys, Get(key) PROVE FALSE
        OBVIOUS
    <2>1. DOMAIN map' = DOMAIN map
        BY DEF Get, IInv, TypeOK
    <2> QED BY <2>1
<1>2. ~ UNCHANGED vars
    BY DEF vars
<1>3. PICK key \in Keys, id \in Ids : Insert(key, id)
    BY <1>1, <1>2 DEF Next
<1> DEFINE m == Put(map, key, [id |-> id, used |-> tick + 1])
<1>4. /\ map' = EvictIfOver(m)
      /\ tick' = tick + 1 /\ tick \in Nat
      /\ spoke \in [Keys -> Nat] /\ spoke'[key] = tick + 1
    BY <1>3 DEF Insert, Operation, IInv, TypeOK
<1>5. /\ DOMAIN m = DOMAIN map \cup {key}
      /\ \A k \in DOMAIN map : k # key => m[k] = map[k]
    BY PutIsTable
<1>6. /\ DOMAIN map' \subseteq DOMAIN m
      /\ key \in DOMAIN map'
      /\ IsFiniteSet(DOMAIN map')
      /\ DOMAIN map' # DOMAIN m =>
            /\ Cardinality(DOMAIN map') >= Kept
            /\ \A k \in DOMAIN m \ DOMAIN map', j \in DOMAIN map' : m[k].used < m[j].used
      /\ \A k \in DOMAIN map' : map'[k] = m[k]
    BY <1>4, InsertKeeps
<1> HIDE DEF m
<1>7. lost \in DOMAIN m \ DOMAIN map' /\ lost # key
    BY <1>5, <1>6
<1>8. m[lost].used = spoke[lost] /\ spoke[lost] \in Nat /\ spoke[lost] <= tick
    BY <1>4, <1>5, <1>7 DEF IInv, TypeOK, AgesAreUses
<1>9. IInv'
    BY NextIInv
<1>10. \A k \in DOMAIN map' : /\ map'[k].used = spoke'[k]
                              /\ spoke'[k] \in Nat /\ spoke'[k] <= tick'
    BY <1>9 DEF IInv, TypeOK, AgesAreUses
<1>11. \A k \in DOMAIN map' : spoke[lost] < spoke'[k]
    BY <1>6, <1>7, <1>8, <1>10
<1>12. \A j, k \in DOMAIN map' : spoke'[j] = spoke'[k] => j = k
    BY <1>9, <1>10 DEF IInv, AgesAreUses
<1>13. Cardinality(DOMAIN map') <= tick' - spoke[lost]
    <2> DEFINE f == [k \in DOMAIN map' |-> spoke'[k]]
    <2>1. /\ f \in [DOMAIN map' -> Nat]
          /\ \A k \in DOMAIN map' : spoke[lost] < f[k] /\ f[k] <= tick'
          /\ \A j, k \in DOMAIN map' : f[j] = f[k] => j = k
        BY <1>10, <1>11, <1>12
    <2>2. tick' \in Nat /\ spoke[lost] <= tick'
        BY <1>4, <1>8
    <2> HIDE DEF f
    <2> QED BY <2>1, <2>2, <1>6, <1>8, SpanBoundsCount
<1>14. tick' - spoke[lost] >= Kept
    BY <1>4, <1>6, <1>7, <1>8, <1>13, CapacityAssumption, FS_CardinalityType DEF Kept
<1> QED BY <1>4, <1>6, <1>11, <1>14

(* "Least-recently-used eviction cannot take the slot out from under a live  *)
(* conversation" (sticky.rs:42-47), for every capacity and every set of      *)
(* sessions.                                                                 *)
THEOREM OnlyQuietSessionsLoseTheirSlot == Spec => EvictsOnlyQuiet
<1>1. IInv /\ [Next]_vars =>
        [\A lost \in DOMAIN map \ DOMAIN map' :
            /\ tick' - spoke[lost] >= Kept
            /\ \E k \in DOMAIN map' : spoke'[k] = tick'
            /\ \A k \in DOMAIN map' : spoke'[k] > spoke[lost]]_vars
    BY StepEvictsOnlyQuiet
<1> QED BY <1>1, Invariance, PTL DEF Spec, EvictsOnlyQuiet

-----------------------------------------------------------------------------
(* The credential pool: its types.                                           *)

PoolEntry == [handle : Ids, key : Secrets]

(* A pool lists each of its entries once.                                    *)
IsPool(pool) ==
    /\ pool \in Seq(PoolEntry)
    /\ \A i, j \in DOMAIN pool : pool[i].handle = pool[j].handle => i = j

Turn == [at : {"idle", "look", "rotate", "pin"}, session : Keys \cup {NoSession},
         pool : Seq(PoolEntry), entry : Ids]

(* The provider's rows, in the order of their ids.                           *)
RowsOK ==
    /\ edits \in 0..MaxEdits
    /\ lastId \in 1..edits + 1
    /\ rows \in Seq([id : 1..lastId, key : Secrets])
    /\ \A i, j \in DOMAIN rows : rows[i].id = rows[j].id => i = j
    /\ primary \in Secrets \cup {NoKey}

TurnsOK ==
    /\ turn \in [Turns -> Turn]
    /\ \A t \in Turns :
          /\ IsPool(turn[t].pool)
          /\ turn[t].at # "idle" => turn[t].pool # <<>>
          /\ turn[t].at \in {"look", "pin"} => turn[t].session # NoSession
    /\ last \in [Keys -> SUBSET Ids]
    /\ crossed \subseteq Keys

CursorOK ==
    /\ IsPool(table)
    /\ cursor \in Nat
    /\ dealt \in [Ids -> Nat]
    /\ mixed \in BOOLEAN

(* While the table stands and only turns that carry it have moved the        *)
(* cursor, its entries were dealt the positions the cursor has passed.       *)
DealtInTurn ==
    ~mixed /\ Len(table) > 1 =>
       \E from \in 0..cursor : \A i \in DOMAIN table :
          Dealt(1, i - 1, Len(table), from) + dealt[table[i].handle]
             = Dealt(1, i - 1, Len(table), cursor)

(* A session is pinned to the entry it was last sent with, or its pin was    *)
(* evicted after it had gone quiet.                                          *)
PinStands(s) ==
    \/ s \in DOMAIN map /\ last[s] = {map[s].id}
    \/ s \notin DOMAIN map /\ tick - spoke[s] >= Kept

(* That is so of a session that never had two turns at once, except while    *)
(* its turn is choosing anew.                                                *)
Followed(s) ==
    /\ \A t, u \in Choosing(s) : t = u
    /\ last[s] # {} /\ (\A t \in Choosing(s) : turn[t].at = "look") => PinStands(s)

PinnedToLast == \A s \in Keys \ crossed : Followed(s)
-----------------------------------------------------------------------------
(* key_pool: what the fold over the rows gives.                              *)

(* One row more: an entry more, or none.                                     *)
LEMMA JoinGives ==
  ASSUME NEW pool \in Seq(PoolEntry), NEW row, row.id \in Ids, row.key \in Secrets
  PROVE  /\ Join(pool, row) \in Seq(PoolEntry)
         /\ \/ Join(pool, row) = pool
            \/ /\ DOMAIN Join(pool, row) = DOMAIN pool \cup {Len(pool) + 1}
               /\ \A i \in DOMAIN pool : Join(pool, row)[i] = pool[i]
               /\ Join(pool, row)[Len(pool) + 1].handle = row.id
<1> DEFINE entry == [handle |-> row.id, key |-> row.key]
<1>1. entry \in PoolEntry /\ entry.handle = row.id
  BY DEF PoolEntry
<1> HIDE DEF entry
<1>2. /\ Append(pool, entry) \in Seq(PoolEntry)
      /\ DOMAIN Append(pool, entry) = DOMAIN pool \cup {Len(pool) + 1}
      /\ \A i \in DOMAIN pool : Append(pool, entry)[i] = pool[i]
      /\ Append(pool, entry)[Len(pool) + 1] = entry
  BY <1>1
<1>3. Join(pool, row) = pool \/ Join(pool, row) = Append(pool, entry)
  BY DEF Join, entry
<1> QED
  BY <1>1, <1>2, <1>3

(* A pool of the rows U: each of its entries is the primary or one of them.  *)
ListsRows(pool, extras, U) ==
    /\ IsPool(pool)
    /\ \A j \in DOMAIN pool :
          \/ pool[j].handle = Primary
          \/ \E i \in U : pool[j].handle = extras[i].id

LEMMA PoolIsPool ==
  ASSUME NEW value \in Secrets \cup {NoKey}, NEW n \in 1..MaxEdits + 1,
         NEW extras, extras \in Seq([id : 1..n, key : Secrets]),
         \A i, j \in DOMAIN extras : extras[i].id = extras[j].id => i = j
  PROVE  IsPool(Pool(value, extras))
<1> DEFINE D == DOMAIN extras
           V == Seq(PoolEntry)
           base == First(value)
           top == [U \in SUBSET D |-> Max(U)]
           join == [d \in D \X V |-> Join(d[2], extras[d[1]])]
<1>1. IsFiniteSet(D) /\ D \subseteq Int
  <2>1. PICK k \in Nat : D = 1..k
    OBVIOUS
  <2> QED
    BY <2>1, FS_Interval
<1>2. \A i \in D : /\ extras[i].id \in Ids \ {Primary}
                   /\ extras[i].key \in Secrets
  <2>1. n \in Nat /\ n <= MaxEdits + 1 /\ MaxEdits \in Nat /\ Ids = 0..MaxEdits + 1
    BY PoolAssumption
  <2>2. \A k \in 1..n : k \in Ids \ {0}
    BY <2>1
  <2> SUFFICES ASSUME NEW i \in D
               PROVE  extras[i].id \in Ids \ {0} /\ extras[i].key \in Secrets
    BY DEF Primary
  <2>3. extras[i] \in [id : 1..n, key : Secrets]
    <3> DEFINE R == [id : 1..n, key : Secrets]
    <3>1. extras \in Seq(R)
      OBVIOUS
    <3> HIDE DEF R
    <3>2. \A k \in 1..Len(extras) : extras[k] \in R
      BY <3>1
    <3>3. i \in 1..Len(extras)
      BY <3>1
    <3> QED
      BY <3>2, <3>3 DEF R
  <2> QED
    BY <2>2, <2>3
<1>3. base \in V /\ ListsRows(base, extras, {})
  <2>1. 0 \in Ids
    BY PoolAssumption
  <2>2. CASE value = NoKey
    <3>1. base = <<>>
      BY <2>2 DEF First
    <3> QED
      BY <3>1 DEF ListsRows, IsPool
  <2>3. CASE value # NoKey
    <3> DEFINE entry == [handle |-> Primary, key |-> value]
    <3>1. base = <<entry>> /\ entry \in PoolEntry /\ entry.handle = Primary
      BY <2>1, <2>3 DEF First, PoolEntry, Primary
    <3> HIDE DEF entry, base
    <3>2. base \in V /\ DOMAIN base = {1} /\ base[1].handle = Primary
      BY <3>1
    <3> QED
      BY <3>2 DEF ListsRows, IsPool
  <2> QED
    BY <2>2, <2>3
<1>4. \A U \in SUBSET D : U # {} => top[U] \in U
  <2> SUFFICES ASSUME NEW U \in SUBSET D, U # {} PROVE Max(U) \in U
    OBVIOUS
  <2>1. IsFiniteSet(U) /\ U \subseteq Int
    BY <1>1, FS_Subset
  <2> QED
    BY <2>1, MaxIsGreatest
<1>5. join \in [D \X V -> V]
  BY <1>2, JoinGives
<1>6. PICK g : Folds(g, D, V, base, top, join)
  <2> HIDE DEF D, V, base, top, join
  <2> QED
    BY <1>1, <1>3, <1>4, <1>5, FoldExists
<1>7. g \in [SUBSET D -> V] /\ g[{}] = base
  BY <1>6 DEF Folds
<1>8. ASSUME NEW U \in SUBSET D, U # {}
      PROVE  /\ top[U] \in U /\ top[U] \in D /\ U \ {top[U]} \in SUBSET D
             /\ g[U \ {top[U]}] \in V
             /\ g[U] = Join(g[U \ {top[U]}], extras[top[U]])
  <2>1. top[U] \in U /\ top[U] \in D /\ U \ {top[U]} \in SUBSET D
    BY <1>4, <1>8
  <2>2. g[U \ {top[U]}] \in V
    BY <1>7, <2>1
  <2>3. g[U] = join[<<top[U], g[U \ {top[U]}]>>]
    BY <1>6, <1>8 DEF Folds
  <2>4. <<top[U], g[U \ {top[U]}]>> \in D \X V
    BY <2>1, <2>2
  <2> HIDE DEF top
  <2> QED
    BY <2>1, <2>2, <2>3, <2>4
<1>9. Pool(value, extras) = g[D]
  <2> DEFINE Solves(k) ==
               k = [U \in SUBSET D |->
                      IF U = {} THEN base ELSE Join(k[U \ {Max(U)}], extras[Max(U)])]
             k0 == CHOOSE k : Solves(k)
             part == [U \in SUBSET D |-> g[U]]
  <2>1. Pool(value, extras) = k0[D]
    BY DEF Pool, FoldLeft, MapThenFoldSet
  <2>2. Solves(part)
    <3>1. ASSUME NEW U \in SUBSET D, U # {}
          PROVE  part[U] = Join(part[U \ {Max(U)}], extras[Max(U)])
      BY <1>8, <3>1
    <3>2. part[{}] = base
      BY <1>7
    <3> HIDE DEF base
    <3> QED
      BY <3>1, <3>2
  <2>3. Solves(k0)
    <3> HIDE DEF Solves, part
    <3> QED
      BY <2>2, Zenon
  <2> HIDE DEF k0
  <2>4. ASSUME NEW U \in SUBSET D
        PROVE  k0[U] = IF U = {} THEN base ELSE Join(k0[U \ {top[U]}], extras[top[U]])
    BY <2>3
  <2> DEFINE Q == {U \in SUBSET D : k0[U] = g[U]}
  <2>5. ASSUME NEW U \in SUBSET D, \A x \in U : U \ {x} \in Q PROVE U \in Q
    <3>1. CASE U = {}
      BY <1>7, <2>4, <3>1
    <3>2. CASE U # {}
      <4>1. k0[U \ {top[U]}] = g[U \ {top[U]}]
        BY <1>8, <2>5, <3>2
      <4>2. k0[U] = Join(k0[U \ {top[U]}], extras[top[U]])
        BY <2>4, <3>2
      <4>3. g[U] = Join(g[U \ {top[U]}], extras[top[U]])
        BY <1>8, <3>2
      <4> HIDE DEF top
      <4>4. k0[U] = g[U]
        BY <4>1, <4>2, <4>3, Zenon
      <4> QED
        BY <4>4
    <3> QED
      BY <3>1, <3>2
  <2>6. SUBSET D \subseteq Q
    <3> HIDE DEF D, Q
    <3> QED
      BY <1>1, <2>5, SubsetsByRemoval
  <2> QED
    BY <2>1, <2>6
<1>10. ListsRows(g[D], extras, D)
  <2> DEFINE Q == {U \in SUBSET D : ListsRows(g[U], extras, U)}
  <2>1. ASSUME NEW U \in SUBSET D, \A x \in U : U \ {x} \in Q PROVE U \in Q
    <3>1. CASE U = {}
      BY <1>3, <1>7, <3>1
    <3>2. CASE U # {}
      <4>1. PICK x : x = top[U]
        OBVIOUS
      <4>2. /\ x \in U /\ x \in D /\ g[U \ {x}] \in V
            /\ g[U] = Join(g[U \ {x}], extras[x])
        BY <1>8, <3>2, <4>1
      <4>3. PICK p : p = g[U \ {x}] /\ ListsRows(p, extras, U \ {x})
        BY <2>1, <4>2
      <4>4. ListsRows(Join(p, extras[x]), extras, U)
        <5>1. /\ p \in Seq(PoolEntry)
              /\ \A i, j \in DOMAIN p : p[i].handle = p[j].handle => i = j
              /\ \A j \in DOMAIN p : \/ p[j].handle = Primary
                                     \/ \E i \in U \ {x} : p[j].handle = extras[i].id
          BY <4>3 DEF ListsRows, IsPool
        <5>2. \A j \in DOMAIN p : p[j].handle # extras[x].id
          BY <1>2, <4>2, <5>1
        <5>3. /\ Join(p, extras[x]) \in Seq(PoolEntry)
              /\ \/ Join(p, extras[x]) = p
                 \/ /\ DOMAIN Join(p, extras[x]) = DOMAIN p \cup {Len(p) + 1}
                    /\ \A i \in DOMAIN p : Join(p, extras[x])[i] = p[i]
                    /\ Join(p, extras[x])[Len(p) + 1].handle = extras[x].id
          BY <1>2, <4>2, <5>1, JoinGives
        <5>4. CASE Join(p, extras[x]) = p
          BY <5>1, <5>4 DEF ListsRows, IsPool
        <5>5. CASE Join(p, extras[x]) # p
          <6>1. PICK q, l : q = Join(p, extras[x]) /\ l = Len(p) + 1
            OBVIOUS
          <6>2. /\ q \in Seq(PoolEntry) /\ DOMAIN q = DOMAIN p \cup {l}
                /\ \A i \in DOMAIN p : q[i] = p[i]
                /\ q[l].handle = extras[x].id
            BY <5>3, <5>5, <6>1
          <6>3. \A i, j \in DOMAIN q : q[i].handle = q[j].handle => i = j
            BY <5>1, <5>2, <6>2
          <6>4. \A j \in DOMAIN q : \/ q[j].handle = Primary
                                    \/ \E i \in U : q[j].handle = extras[i].id
            BY <4>2, <5>1, <6>2
          <6> QED
            BY <6>1, <6>2, <6>3, <6>4 DEF ListsRows, IsPool
        <5> QED
          BY <5>4, <5>5
      <4>5. ListsRows(g[U], extras, U)
        BY <4>2, <4>3, <4>4, Zenon
      <4> HIDE DEF D, top
      <4> QED
        BY <4>5, Zenon
    <3> QED
      BY <3>1, <3>2
  <2>2. SUBSET D \subseteq Q
    <3> HIDE DEF D, Q
    <3> QED
      BY <1>1, <2>1, SubsetsByRemoval
  <2> QED
    BY <2>2
<1> QED
  BY <1>9, <1>10 DEF ListsRows


-----------------------------------------------------------------------------
(* Rows, turns and cursor: what a step leaves.                               *)

(* Two sequences in a row are as long as both.                               *)
LEMMA LengthAdds ==
  ASSUME NEW S, NEW a \in Seq(S), NEW b \in Seq(S)
  PROVE  Len(a \o b) = Len(a) + Len(b)
OBVIOUS

(* RemoveAt takes one element out and moves the later ones up.               *)
LEMMA RemoveAtGives ==
  ASSUME NEW S, NEW s \in Seq(S), NEW i \in DOMAIN s
  PROVE  /\ RemoveAt(s, i) \in Seq(S)
         /\ DOMAIN RemoveAt(s, i) = 1..Len(s) - 1
         /\ \A j \in 1..Len(s) - 1 :
               RemoveAt(s, i)[j] = IF j < i THEN s[j] ELSE s[j + 1]
<1> DEFINE a == SubSeq(s, 1, i - 1)
           b == SubSeq(s, i + 1, Len(s))
<1>0. Len(s) \in Nat /\ i \in 1..Len(s) /\ DOMAIN s = 1..Len(s)
  OBVIOUS
<1>1. a \in Seq(S) /\ Len(a) = i - 1 /\ \A j \in 1..i - 1 : a[j] = s[j]
  BY <1>0
<1>2. b \in Seq(S) /\ Len(b) = Len(s) - i /\ \A j \in 1..Len(s) - i : b[j] = s[j + i]
  BY <1>0
<1>3. RemoveAt(s, i) = a \o b
  BY DEF RemoveAt
<1> HIDE DEF a, b
<1>4. PICK c : c = a \o b
  OBVIOUS
<1>6. c \in Seq(S)
  BY <1>1, <1>2, <1>4
<1>7. Len(c) = Len(s) - 1
  <2>1. Len(a \o b) = Len(a) + Len(b)
    BY <1>1, <1>2, LengthAdds
  <2> QED
    BY <1>0, <1>1, <1>2, <1>4, <2>1
<1>8. DOMAIN c = 1..Len(s) - 1
  BY <1>6, <1>7
<1>5. ASSUME NEW j \in 1..Len(s) - 1
      PROVE  (a \o b)[j] = IF j < i THEN s[j] ELSE s[j + 1]
  <2>1. CASE j < i
    BY <1>0, <1>1, <1>2, <2>1
  <2>2. CASE ~(j < i)
    <3>1. (a \o b)[j] = b[j - (i - 1)]
      BY <1>0, <1>1, <1>2, <2>2
    <3>2. j - (i - 1) \in 1..Len(s) - i /\ j - (i - 1) + i = j + 1
      BY <1>0, <2>2
    <3> QED
      BY <1>2, <2>2, <3>1, <3>2
  <2> QED
    BY <2>1, <2>2
<1> QED
  BY <1>3, <1>4, <1>5, <1>6, <1>8

(* A sequence over a set is one over a larger set.                           *)
LEMMA WiderSequence ==
  ASSUME NEW S, NEW T, S \subseteq T, NEW s \in Seq(S)
  PROVE  s \in Seq(T)
OBVIOUS

LEMMA RowsStep == RowsOK /\ [PoolNext]_poolVars => RowsOK'
<1> SUFFICES ASSUME RowsOK, [PoolNext]_poolVars PROVE RowsOK'
  OBVIOUS
<1> DEFINE Row(n) == [id : 1..n, key : Secrets]
<1>0. /\ edits \in 0..MaxEdits /\ MaxEdits \in Nat
      /\ lastId \in 1..edits + 1
      /\ rows \in Seq(Row(lastId))
      /\ \A i, j \in DOMAIN rows : rows[i].id = rows[j].id => i = j
      /\ primary \in Secrets \cup {NoKey}
  BY PoolAssumption DEF RowsOK
<1>1. CASE UNCHANGED database
  BY <1>1 DEF RowsOK, database
<1>2. ASSUME NEW value \in Secrets, AddKey(value) PROVE RowsOK'
  <2>1. edits' = edits + 1 /\ edits < MaxEdits /\ primary' = primary
    BY <1>2 DEF AddKey, Reloaded
  <2>2. CASE UNCHANGED <<rows, lastId>>
    <3>1. edits' \in 0..MaxEdits /\ lastId' \in 1..edits' + 1
      BY <1>0, <2>1, <2>2
    <3>2. rows' \in Seq(Row(lastId'))
      BY <1>0, <2>2
    <3>3. \A i, j \in DOMAIN rows' : rows'[i].id = rows'[j].id => i = j
      BY <1>0, <2>2
    <3> QED
      BY <1>0, <2>1, <3>1, <3>2, <3>3 DEF RowsOK
  <2>3. CASE ~UNCHANGED <<rows, lastId>>
    <3>1. /\ rows' = Append(rows, [id |-> lastId + 1, key |-> value])
          /\ lastId' = lastId + 1
      BY <1>2, <2>3 DEF AddKey
    <3>2. edits' \in 0..MaxEdits /\ lastId' \in 1..edits' + 1
      BY <1>0, <2>1, <3>1
    <3>3. PICK row : row = [id |-> lastId + 1, key |-> value]
      OBVIOUS
    <3>4. row \in Row(lastId') /\ row.id = lastId + 1
      BY <1>0, <3>1, <3>3
    <3>5. Row(lastId) \subseteq Row(lastId')
      BY <1>0, <3>1
    <3>6. \A k \in DOMAIN rows : rows[k].id \in 1..lastId
      <4>1. \A k \in 1..Len(rows) : rows[k] \in Row(lastId)
        <5> DEFINE R == Row(lastId)
        <5>1. rows \in Seq(R)
          BY <1>0
        <5> HIDE DEF R, Row
        <5>2. \A k \in 1..Len(rows) : rows[k] \in R
          BY <5>1
        <5> QED
          BY <5>2 DEF R
      <4>2. DOMAIN rows = 1..Len(rows)
        BY <1>0
      <4> QED
        BY <4>1, <4>2
    <3> HIDE DEF Row
    <3>7. rows \in Seq(Row(lastId'))
      BY <1>0, <3>5, WiderSequence
    <3>8. /\ Append(rows, row) \in Seq(Row(lastId'))
          /\ DOMAIN Append(rows, row) = DOMAIN rows \cup {Len(rows) + 1}
          /\ \A k \in DOMAIN rows : Append(rows, row)[k] = rows[k]
          /\ Append(rows, row)[Len(rows) + 1] = row
      BY <3>4, <3>7
    <3>9. PICK l : l = Len(rows) + 1
      OBVIOUS
    <3>10. \A i, j \in DOMAIN rows' : rows'[i].id = rows'[j].id => i = j
      <4>1. /\ DOMAIN rows' = DOMAIN rows \cup {l}
            /\ \A k \in DOMAIN rows : rows'[k] = rows[k]
            /\ rows'[l].id = lastId + 1
        BY <3>1, <3>3, <3>4, <3>8, <3>9
      <4>2. \A k \in DOMAIN rows : rows[k].id # lastId + 1
        BY <1>0, <3>6
      <4> QED
        BY <1>0, <4>1, <4>2
    <3>11. rows' \in Seq(Row(lastId'))
      BY <3>1, <3>3, <3>8
    <3> QED
      BY <1>0, <2>1, <3>2, <3>10, <3>11 DEF RowsOK, Row
  <2> QED
    BY <2>2, <2>3
<1>3. ASSUME NEW id \in Ids, DeleteKey(id) PROVE RowsOK'
  <2>1. /\ edits' = edits + 1 /\ edits < MaxEdits /\ primary' = primary /\ lastId' = lastId
    BY <1>3 DEF DeleteKey, Reloaded
  <2>2. PICK i \in DOMAIN rows : rows' = RemoveAt(rows, i)
    BY <1>3 DEF DeleteKey
  <2>3. edits' \in 0..MaxEdits /\ lastId' \in 1..edits' + 1
    BY <1>0, <2>1
  <2> HIDE DEF Row
  <2>4. /\ RemoveAt(rows, i) \in Seq(Row(lastId))
        /\ DOMAIN RemoveAt(rows, i) = 1..Len(rows) - 1
        /\ \A j \in 1..Len(rows) - 1 :
              RemoveAt(rows, i)[j] = IF j < i THEN rows[j] ELSE rows[j + 1]
    BY <1>0, <2>2, RemoveAtGives
  <2>5. \A j, k \in DOMAIN rows' : rows'[j].id = rows'[k].id => j = k
    <3>1. Len(rows) \in Nat /\ DOMAIN rows = 1..Len(rows)
      BY <1>0
    <3> SUFFICES ASSUME NEW j \in 1..Len(rows) - 1, NEW k \in 1..Len(rows) - 1,
                        rows'[j].id = rows'[k].id
                 PROVE  j = k
      BY <2>2, <2>4
    <3>2. PICK x, y : /\ x = IF j < i THEN j ELSE j + 1
                      /\ y = IF k < i THEN k ELSE k + 1
      OBVIOUS
    <3>3. rows'[j] = rows[x] /\ rows'[k] = rows[y] /\ x \in DOMAIN rows /\ y \in DOMAIN rows
      BY <2>2, <2>4, <3>1, <3>2
    <3>4. x = y
      BY <1>0, <3>3
    <3> QED
      BY <3>1, <3>2, <3>4
  <2>6. rows' \in Seq(Row(lastId'))
    BY <2>1, <2>2, <2>4
  <2> QED
    BY <1>0, <2>1, <2>3, <2>5, <2>6 DEF RowsOK, Row
<1>4. ASSUME NEW value \in Secrets \cup {NoKey}, SetPrimary(value) PROVE RowsOK'
  <2>1. /\ edits' = edits + 1 /\ edits < MaxEdits /\ primary' = value
        /\ lastId' = lastId /\ rows' = rows
    BY <1>4 DEF SetPrimary, Reloaded
  <2>2. edits' \in 0..MaxEdits /\ lastId' \in 1..edits' + 1
    BY <1>0, <2>1
  <2>3. rows' \in Seq(Row(lastId'))
    BY <1>0, <2>1
  <2> QED
    BY <1>0, <2>1, <2>2, <2>3 DEF RowsOK
<1>5. ASSUME NEW t \in Turns, Look(t) \/ Rotate(t) \/ Pin(t) PROVE RowsOK'
  BY <1>1, <1>5 DEF Look, Rotate, Pin
<1>6. ASSUME NEW t \in Turns, NEW s, Begin(t, s) PROVE RowsOK'
  BY <1>1, <1>6 DEF Begin
<1> QED
  BY <1>1, <1>2, <1>3, <1>4, <1>5, <1>6 DEF PoolNext, poolVars, database

(* The handles of a pool's entries are ids.                                  *)
LEMMA HandlesAreIds ==
  ASSUME NEW pool \in Seq(PoolEntry)
  PROVE  Handles(pool) \subseteq Ids /\ \A i \in DOMAIN pool : pool[i].handle \in Ids
<1>1. \A k \in 1..Len(pool) : pool[k] \in PoolEntry
  OBVIOUS
<1>2. DOMAIN pool = 1..Len(pool)
  OBVIOUS
<1> QED
  BY <1>1, <1>2 DEF Handles, PoolEntry

(* next_key_index names an entry of the pool the turn carries.               *)
LEMMA DealsAnEntry ==
  ASSUME TurnsOK, CursorOK, NEW t \in Turns, turn[t].at # "idle"
  PROVE  LET i == NextKeyIndex(Len(turn[t].pool))
         IN  i \in DOMAIN turn[t].pool /\ turn[t].pool[i].handle \in Ids
<1>1. PICK pool : pool = turn[t].pool
  OBVIOUS
<1>2. pool \in Seq(PoolEntry) /\ pool # <<>>
  BY <1>1 DEF TurnsOK, IsPool
<1>3. PICK R \in Nat \ {0} : R = Len(pool)
  BY <1>2
<1>4. DOMAIN pool = 1..R
  BY <1>2, <1>3
<1>5. cursor \in Nat
  BY DEF CursorOK
<1>6. cursor % R \in Nat /\ cursor % R < R
  BY <1>5, Euclid
<1>7. NextKeyIndex(R) \in 1..R
  BY <1>6 DEF NextKeyIndex
<1>8. \A i \in DOMAIN pool : pool[i].handle \in Ids
  BY <1>2, HandlesAreIds
<1> QED
  BY <1>1, <1>3, <1>4, <1>7, <1>8

LEMMA TurnsStep == TurnsOK /\ CursorOK /\ [PoolNext]_poolVars => TurnsOK'
<1> SUFFICES ASSUME TurnsOK, CursorOK, [PoolNext]_poolVars PROVE TurnsOK'
  OBVIOUS
<1>0. Primary \in Ids
  BY PoolAssumption DEF Primary
<1>1. CASE UNCHANGED <<turn, last, crossed>>
  BY <1>1 DEF TurnsOK
<1>2. ASSUME NEW t \in Turns, NEW s \in Keys \cup {NoSession}, Begin(t, s) PROVE TurnsOK'
  <2>1. PICK r : r = [Resting EXCEPT !.at = IF s = NoSession THEN "rotate" ELSE "look",
                                     !.session = s, !.pool = table]
    OBVIOUS
  <2>2. /\ r.at = IF s = NoSession THEN "rotate" ELSE "look"
        /\ r.session = s /\ r.pool = table
    BY <2>1 DEF Resting
  <2>3. r \in Turn
    BY <1>0, <2>1 DEF Turn, Resting, CursorOK, IsPool
  <2>4. turn' = [turn EXCEPT ![t] = r] /\ table # <<>> /\ last' = last
    BY <1>2, <2>1 DEF Begin
  <2>5. crossed' \subseteq Keys
    BY <1>2 DEF Begin, TurnsOK
  <2>6. turn' \in [Turns -> Turn] /\ turn'[t] = r /\ \A u \in Turns \ {t} : turn'[u] = turn[u]
    BY <2>3, <2>4 DEF TurnsOK
  <2> QED
    BY <2>2, <2>4, <2>5, <2>6 DEF TurnsOK, CursorOK
<1>3. ASSUME NEW t \in Turns, NEW handle \in Ids, Sent(t, handle), turn[t].at # "idle"
      PROVE  /\ turn' \in [Turns -> Turn]
             /\ turn'[t].at = "idle" /\ IsPool(turn'[t].pool)
             /\ \A u \in Turns \ {t} : turn'[u] = turn[u]
             /\ last' \in [Keys -> SUBSET Ids]
  <2>1. PICK r : r = [Resting EXCEPT !.entry = handle]
    OBVIOUS
  <2>2. r \in Turn /\ r.at = "idle" /\ r.pool = <<>>
    <3>1. r = [at |-> "idle", session |-> NoSession, pool |-> <<>>, entry |-> handle]
      BY <2>1 DEF Resting
    <3>2. <<>> \in Seq(PoolEntry)
      OBVIOUS
    <3> QED
      BY <3>1, <3>2 DEF Turn
  <2>3. turn' = [turn EXCEPT ![t] = r]
    BY <1>3, <2>1 DEF Sent
  <2>4. IsPool(<<>>)
    BY DEF IsPool
  <2>5. last' \in [Keys -> SUBSET Ids]
    <3>1. CASE turn[t].session = NoSession
      BY <1>3, <3>1 DEF Sent, TurnsOK
    <3>2. CASE turn[t].session # NoSession
      <4>1. last' = [last EXCEPT ![turn[t].session] = {handle}]
        BY <1>3, <3>2 DEF Sent
      <4> QED
        BY <4>1 DEF TurnsOK
    <3> QED
      BY <3>1, <3>2
  <2> QED
    BY <2>2, <2>3, <2>4, <2>5 DEF TurnsOK
<1>4. ASSUME NEW t \in Turns, NEW handle \in Ids, Sent(t, handle), turn[t].at # "idle",
             crossed' = crossed
      PROVE  TurnsOK'
  BY <1>3, <1>4 DEF TurnsOK
<1>5. ASSUME NEW t \in Turns, turn[t].at # "idle", NEW at \in {"rotate", "pin"},
             NEW entry \in Ids, at = "pin" => turn[t].session # NoSession,
             turn' = [turn EXCEPT ![t].at = at, ![t].entry = entry],
             UNCHANGED <<last, crossed>>
      PROVE  TurnsOK'
  <2>1. PICK r : r = [turn[t] EXCEPT !.at = at, !.entry = entry]
    OBVIOUS
  <2>2. turn[t] \in Turn
    BY DEF TurnsOK
  <2>3. /\ r \in Turn /\ r.at = at /\ r.session = turn[t].session /\ r.pool = turn[t].pool
    BY <2>1, <2>2 DEF Turn
  <2>4. turn' = [turn EXCEPT ![t] = r]
    BY <1>5, <2>1 DEF TurnsOK
  <2>5. /\ turn' \in [Turns -> Turn] /\ turn'[t] = r
        /\ \A u \in Turns \ {t} : turn'[u] = turn[u]
    BY <2>3, <2>4 DEF TurnsOK
  <2> QED
    BY <1>5, <2>3, <2>5 DEF TurnsOK
<1>6. \A t \in Turns : turn[t] \in Turn
  BY DEF TurnsOK
<1>7. ASSUME NEW t \in Turns, Look(t) PROVE TurnsOK'
  <2>1. crossed' = crossed /\ turn[t].at = "look"
    BY <1>7 DEF Look
  <2>2. CASE turn[t].session \in DOMAIN map /\ map[turn[t].session].id
                                                \in Handles(turn[t].pool)
    <3>1. Sent(t, map[turn[t].session].id)
      BY <1>7, <2>2 DEF Look
    <3>2. map[turn[t].session].id \in Ids
      <4>1. turn[t].pool \in Seq(PoolEntry)
        BY DEF TurnsOK, IsPool
      <4> QED
        BY <2>2, <4>1, HandlesAreIds
    <3> QED
      BY <1>4, <2>1, <3>1, <3>2
  <2>3. CASE ~(turn[t].session \in DOMAIN map /\ map[turn[t].session].id
                                                   \in Handles(turn[t].pool))
    <3>1. turn' = [turn EXCEPT ![t].at = "rotate"] /\ last' = last
      BY <1>7, <2>3 DEF Look
    <3>2. turn' = [turn EXCEPT ![t].at = "rotate", ![t].entry = turn[t].entry]
      BY <1>6, <3>1 DEF TurnsOK, Turn
    <3>3. turn[t].entry \in Ids
      BY <1>6 DEF Turn
    <3> QED
      BY <1>5, <2>1, <3>1, <3>2, <3>3
  <2> QED
    BY <2>2, <2>3
<1>8. ASSUME NEW t \in Turns, Rotate(t) PROVE TurnsOK'
  <2>1. PICK i : i = NextKeyIndex(Len(turn[t].pool))
    OBVIOUS
  <2>2. PICK handle : handle = turn[t].pool[i].handle
    OBVIOUS
  <2>3. handle \in Ids
    BY <1>8, <2>1, <2>2, DealsAnEntry DEF Rotate
  <2>4. crossed' = crossed /\ turn[t].at = "rotate"
    BY <1>8 DEF Rotate
  <2>5. CASE turn[t].session = NoSession
    <3>1. Sent(t, handle)
      BY <1>8, <2>1, <2>2, <2>5 DEF Rotate
    <3> QED
      BY <1>4, <2>3, <2>4, <3>1
  <2>6. CASE turn[t].session # NoSession
    <3>1. turn' = [turn EXCEPT ![t].at = "pin", ![t].entry = handle] /\ last' = last
      BY <1>8, <2>1, <2>2, <2>6 DEF Rotate
    <3> QED
      BY <1>5, <2>3, <2>4, <2>6, <3>1
  <2> QED
    BY <2>5, <2>6
<1>9. ASSUME NEW t \in Turns, Pin(t) PROVE TurnsOK'
  <2>1. turn[t].entry \in Ids
    BY <1>6 DEF Turn
  <2>2. Sent(t, turn[t].entry) /\ crossed' = crossed /\ turn[t].at = "pin"
    BY <1>9 DEF Pin
  <2> QED
    BY <1>4, <2>1, <2>2
<1>10. ASSUME Reloaded PROVE TurnsOK'
  BY <1>1, <1>10 DEF Reloaded
<1> QED
  BY <1>1, <1>2, <1>7, <1>8, <1>9, <1>10
  DEF PoolNext, poolVars, history, AddKey, DeleteKey, SetPrimary

(* Of two entries of a pool the earlier is dealt first, and at most once more*)
(* than the later.                                                           *)
LEMMA EarlierIsAhead ==
  ASSUME NEW R \in Nat, NEW s \in Nat, NEW u \in Nat, s <= u, u + 1 <= R, NEW n \in Nat
  PROVE  /\ Dealt(1, s, R, n) \in Nat /\ Dealt(1, u, R, n) \in Nat
         /\ Dealt(1, u, R, n) <= Dealt(1, s, R, n)
         /\ Dealt(1, s, R, n) <= Dealt(1, u, R, n) + 1
<1>0. R \in Nat \ {0}
  OBVIOUS
<1>1. PICK k \in Nat, m \in Nat : k = n \div R /\ m = n % R /\ m < R
  BY <1>0, Euclid
<1>2. PICK x \in Nat : x = k * 1
  OBVIOUS
<1>3. Dealt(1, s, R, n) = x + (IF m <= s THEN 0 ELSE IF m <= s + 1 THEN m - s ELSE 1)
  BY <1>1, <1>2 DEF Dealt
<1>4. Dealt(1, u, R, n) = x + (IF m <= u THEN 0 ELSE IF m <= u + 1 THEN m - u ELSE 1)
  BY <1>1, <1>2 DEF Dealt
<1> QED
  BY <1>1, <1>3, <1>4

LEMMA CursorStep ==
  ASSUME RowsOK', TurnsOK, CursorOK, [PoolNext]_poolVars
  PROVE  CursorOK'
<1>1. CASE UNCHANGED <<table, cursor, dealt, mixed>>
  BY <1>1 DEF CursorOK
<1>2. ASSUME Reloaded PROVE CursorOK'
  <2>1. IsPool(table')
    <3>1. /\ lastId' \in 1..MaxEdits + 1 /\ primary' \in Secrets \cup {NoKey}
          /\ rows' \in Seq([id : 1..lastId', key : Secrets])
          /\ \A i, j \in DOMAIN rows' : rows'[i].id = rows'[j].id => i = j
      <4>1. lastId' \in 1..edits' + 1 /\ edits' \in 0..MaxEdits
        BY DEF RowsOK
      <4>2. /\ primary' \in Secrets \cup {NoKey}
            /\ rows' \in Seq([id : 1..lastId', key : Secrets])
            /\ \A i, j \in DOMAIN rows' : rows'[i].id = rows'[j].id => i = j
        BY DEF RowsOK
      <4>3. lastId' \in 1..MaxEdits + 1
        <5>1. MaxEdits \in Nat
          BY PoolAssumption
        <5>2. PICK e \in 0..MaxEdits : lastId' \in 1..e + 1
          BY <4>1, Zenon
        <5>3. 1..e + 1 \subseteq 1..MaxEdits + 1
          BY <5>1
        <5> QED
          BY <5>2, <5>3
      <4> QED
        BY <4>2, <4>3
    <3>2. IsPool(Pool(primary', rows'))
      BY <3>1, PoolIsPool
    <3> QED
      BY <1>2, <3>2 DEF Reloaded
  <2>2. cursor' \in Nat
    BY <1>2 DEF Reloaded, CursorOK
  <2>3. dealt' \in [Ids -> Nat] /\ mixed' \in BOOLEAN
    <3>1. CASE table' = table
      BY <1>2, <3>1 DEF Reloaded, CursorOK
    <3>2. CASE table' # table
      <4>1. dealt' = [h \in Ids |-> 0] /\ mixed' = FALSE
        BY <1>2, <3>2 DEF Reloaded
      <4> QED
        BY <4>1
    <3> QED
      BY <3>1, <3>2
  <2> QED
    BY <2>1, <2>2, <2>3 DEF CursorOK
<1>3. ASSUME NEW t \in Turns, Rotate(t) PROVE CursorOK'
  <2>1. PICK handle : handle = turn[t].pool[NextKeyIndex(Len(turn[t].pool))].handle
    OBVIOUS
  <2>2. Advance(t, handle) /\ table' = table
    BY <1>3, <2>1 DEF Rotate
  <2>3. CASE Len(turn[t].pool) <= 1
    BY <1>1, <2>2, <2>3 DEF Advance
  <2>4. CASE ~(Len(turn[t].pool) <= 1)
    <3>1. /\ cursor' = cursor + 1 /\ dealt' = [dealt EXCEPT ![handle] = @ + 1]
          /\ mixed' = (mixed \/ turn[t].pool # table)
      BY <2>2, <2>4 DEF Advance
    <3>2. mixed' \in BOOLEAN
      BY <3>1
    <3>3. cursor' \in Nat /\ dealt' \in [Ids -> Nat]
      <4>1. handle \in Ids
        BY <1>3, <2>1, DealsAnEntry DEF Rotate
      <4> QED
        BY <3>1, <4>1 DEF CursorOK
    <3>4. IsPool(table')
      BY <2>2 DEF CursorOK
    <3> QED
      BY <3>2, <3>3, <3>4 DEF CursorOK
  <2> QED
    BY <2>3, <2>4
<1>4. ASSUME NEW t \in Turns, Look(t) \/ Pin(t) PROVE CursorOK'
  BY <1>1, <1>4 DEF Look, Pin
<1>5. ASSUME NEW t \in Turns, NEW s, Begin(t, s) PROVE CursorOK'
  BY <1>1, <1>5 DEF Begin
<1> QED
  BY <1>1, <1>2, <1>3, <1>4, <1>5
  DEF PoolNext, poolVars, history, AddKey, DeleteKey, SetPrimary

(* An entry is dealt when the cursor stands at its place.                    *)
LEMMA EntryIsPassed ==
  ASSUME NEW R \in Nat, NEW j \in 1..R, NEW n \in Nat
  PROVE  /\ Dealt(1, j - 1, R, n) \in Nat
         /\ Dealt(1, j - 1, R, n + 1)
              = IF n % R = j - 1 THEN Dealt(1, j - 1, R, n) + 1 ELSE Dealt(1, j - 1, R, n)
<1>1. PICK s \in Nat : s = j - 1
  OBVIOUS
<1>2. 1 \in Nat \ {0} /\ s + 1 <= R /\ R \in Nat \ {0}
  BY <1>1
<1>3. /\ Dealt(1, s, R, n) \in Nat
      /\ s <= n % R /\ n % R < s + 1 => Dealt(1, s, R, n + 1) = Dealt(1, s, R, n) + 1
      /\ ~(s <= n % R /\ n % R < s + 1) => Dealt(1, s, R, n + 1) = Dealt(1, s, R, n)
  BY <1>2, DealtOne
<1>4. PICK m \in Nat : m = n % R
  BY <1>2, Euclid
<1>5. n % R = s <=> s <= n % R /\ n % R < s + 1
  BY <1>4
<1> QED
  BY <1>1, <1>3, <1>5

(* A turn that carries the table moves the cursor past the entry it takes.   *)
LEMMA DealtStep ==
  ASSUME TurnsOK, CursorOK, CursorOK', DealtInTurn, [PoolNext]_poolVars
  PROVE  DealtInTurn'
<1>0. cursor \in Nat /\ dealt \in [Ids -> Nat] /\ IsPool(table)
  BY DEF CursorOK
<1>1. CASE UNCHANGED <<table, cursor, dealt, mixed>>
  BY <1>1 DEF DealtInTurn
<1>2. ASSUME Reloaded PROVE DealtInTurn'
  <2>1. cursor' = cursor
    BY <1>2 DEF Reloaded
  <2>2. CASE table' = table
    BY <1>1, <1>2, <2>1, <2>2 DEF Reloaded
  <2>3. CASE table' # table
    <3>1. dealt' = [h \in Ids |-> 0]
      BY <1>2, <2>3 DEF Reloaded
    <3>2. SUFFICES ASSUME ~mixed', Len(table') > 1, NEW i \in DOMAIN table',
                          table'[i].handle \in Ids, Len(table') \in Nat, i \in 1..Len(table')
                   PROVE  Dealt(1, i - 1, Len(table'), cursor) + dealt'[table'[i].handle]
                            = Dealt(1, i - 1, Len(table'), cursor')
      <4>1. IsPool(table')
        BY DEF CursorOK
      <4>2. \A i \in DOMAIN table' : table'[i].handle \in Ids
        BY <4>1, HandlesAreIds DEF IsPool
      <4>3. Len(table') \in Nat /\ DOMAIN table' = 1..Len(table')
        BY <4>1 DEF IsPool
      <4>4. cursor \in 0..cursor'
        BY <1>0, <2>1
      <4> QED
        BY <4>2, <4>3, <4>4 DEF DealtInTurn
    <3>3. dealt'[table'[i].handle] = 0
      BY <3>1, <3>2
    <3>4. i - 1 \in Nat /\ i - 1 + 1 <= Len(table') /\ 1 \in Nat \ {0}
      BY <3>2
    <3>5. Dealt(1, i - 1, Len(table'), cursor) \in Nat
      BY <1>0, <3>2, <3>4, DealtOne
    <3> QED
      BY <2>1, <3>3, <3>5
  <2> QED
    BY <2>2, <2>3
<1>3. ASSUME NEW t \in Turns, Rotate(t) PROVE DealtInTurn'
  <2>1. PICK R, i, handle : /\ R = Len(turn[t].pool) /\ i = NextKeyIndex(R)
                            /\ handle = turn[t].pool[i].handle
    OBVIOUS
  <2>2. Advance(t, handle) /\ table' = table
    BY <1>3, <2>1 DEF Rotate
  <2>3. CASE R <= 1
    BY <1>1, <2>1, <2>2, <2>3 DEF Advance
  <2>4. CASE ~(R <= 1)
    <3>1. /\ cursor' = cursor + 1 /\ dealt' = [dealt EXCEPT ![handle] = @ + 1]
          /\ mixed' = (mixed \/ turn[t].pool # table)
      BY <2>1, <2>2, <2>4 DEF Advance
    <3>2. CASE mixed'
      BY <3>2 DEF DealtInTurn
    <3>3. CASE ~mixed'
      <4>1. turn[t].pool = table /\ ~mixed
        BY <3>1, <3>3
      <4>2. /\ R \in Nat /\ R > 1 /\ R = Len(table) /\ DOMAIN table = 1..R
            /\ handle = table[i].handle
        BY <1>0, <2>1, <2>4, <4>1 DEF IsPool
      <4>3. i = (cursor % R) + 1 /\ cursor % R \in Nat /\ cursor % R < R
        BY <1>0, <2>1, <2>4, <4>2, Euclid DEF NextKeyIndex
      <4>4. PICK from \in 0..cursor : \A j \in DOMAIN table :
               Dealt(1, j - 1, R, from) + dealt[table[j].handle] = Dealt(1, j - 1, R, cursor)
        BY <4>1, <4>2 DEF DealtInTurn
      <4>5. \A j \in 1..R : table[j].handle \in Ids /\ (table[j].handle = handle => j = i)
        <5>1. \A j \in DOMAIN table : table[j].handle \in Ids
          BY <1>0, HandlesAreIds DEF IsPool
        <5>2. i \in DOMAIN table
          BY <4>2, <4>3
        <5> QED
          BY <1>0, <4>2, <5>1, <5>2 DEF IsPool
      <4>6. ASSUME NEW j \in 1..R
            PROVE  Dealt(1, j - 1, R, from) + dealt'[table[j].handle]
                     = Dealt(1, j - 1, R, cursor + 1)
        <5>0. j - 1 \in Nat /\ j - 1 + 1 <= R /\ 1 \in Nat \ {0} /\ from \in Nat
          BY <1>0, <4>2
        <5>1. PICK a, b, c : /\ a = Dealt(1, j - 1, R, from)
                             /\ b = Dealt(1, j - 1, R, cursor)
                             /\ c = Dealt(1, j - 1, R, cursor + 1)
          OBVIOUS
        <5>2. a \in Nat
          BY <4>2, <5>0, <5>1, DealtOne
        <5>3. b \in Nat /\ c = IF cursor % R = j - 1 THEN b + 1 ELSE b
          BY <1>0, <4>2, <5>1, EntryIsPassed
        <5>4. IF j = i THEN c = b + 1 ELSE c = b
          BY <4>3, <5>3
        <5>5. dealt[table[j].handle] \in Nat /\ a + dealt[table[j].handle] = b
          BY <1>0, <4>2, <4>4, <4>5, <5>1
        <5>6. dealt'[table[j].handle]
                = IF j = i THEN dealt[table[j].handle] + 1 ELSE dealt[table[j].handle]
          BY <1>0, <3>1, <4>2, <4>5
        <5> QED
          BY <5>1, <5>2, <5>3, <5>4, <5>5, <5>6
      <4>7. from \in 0..cursor'
        BY <1>0, <3>1
      <4>8. table' = table /\ cursor' = cursor + 1
        BY <2>2, <3>1
      <4> QED
        BY <4>2, <4>6, <4>7, <4>8 DEF DealtInTurn
    <3> QED
      BY <3>2, <3>3
  <2> QED
    BY <2>3, <2>4
<1>4. ASSUME NEW t \in Turns, Look(t) \/ Pin(t) PROVE DealtInTurn'
  BY <1>1, <1>4 DEF Look, Pin
<1>5. ASSUME NEW t \in Turns, NEW s, Begin(t, s) PROVE DealtInTurn'
  BY <1>1, <1>5 DEF Begin
<1> QED
  BY <1>1, <1>2, <1>3, <1>4, <1>5
  DEF PoolNext, poolVars, history, AddKey, DeleteKey, SetPrimary

(* Positions dealt in turn leave no entry two ahead of another.              *)
LEMMA InTurnIsShared == CursorOK /\ DealtInTurn => KeysTakeTurns
<1> SUFFICES ASSUME CursorOK, DealtInTurn, ~mixed,
                    NEW g \in Handles(table), NEW h \in Handles(table)
             PROVE  dealt[g] <= dealt[h] + 1
  BY DEF KeysTakeTurns
<1>0. cursor \in Nat /\ dealt \in [Ids -> Nat] /\ table \in Seq(PoolEntry)
  BY DEF CursorOK, IsPool
<1>1. dealt[g] \in Nat /\ dealt[h] \in Nat
  BY <1>0, HandlesAreIds
<1>2. PICK R \in Nat : R = Len(table) /\ DOMAIN table = 1..R
  BY <1>0
<1>3. PICK i \in 1..R, j \in 1..R : g = table[i].handle /\ h = table[j].handle
  BY <1>2 DEF Handles
<1>4. CASE R <= 1
  <2>1. i = j
    BY <1>2, <1>4
  <2> QED
    BY <1>1, <1>3, <2>1
<1>5. CASE ~(R <= 1)
  <2>0. Len(table) > 1 /\ Len(table) = R /\ DOMAIN table = 1..R
    BY <1>2, <1>5
  <2>1. PICK from \in 0..cursor : \A l \in 1..R :
           Dealt(1, l - 1, R, from) + dealt[table[l].handle] = Dealt(1, l - 1, R, cursor)
    <3>1. \E from \in 0..cursor : \A l \in DOMAIN table :
             Dealt(1, l - 1, Len(table), from) + dealt[table[l].handle]
                = Dealt(1, l - 1, Len(table), cursor)
      BY <2>0 DEF DealtInTurn
    <3> QED
      BY <2>0, <3>1, Zenon
  <2>2. PICK a, b, c, d : /\ a = Dealt(1, i - 1, R, from) /\ b = Dealt(1, i - 1, R, cursor)
                          /\ c = Dealt(1, j - 1, R, from) /\ d = Dealt(1, j - 1, R, cursor)
    OBVIOUS
  <2>3. a + dealt[g] = b /\ c + dealt[h] = d
    BY <1>3, <2>1, <2>2
  <2>4. /\ i - 1 \in Nat /\ j - 1 \in Nat /\ i - 1 + 1 <= R /\ j - 1 + 1 <= R
        /\ from \in Nat
    BY <1>0
  <2>5. CASE i <= j
    <3>1. i - 1 <= j - 1
      BY <2>5
    <3>2. a \in Nat /\ c \in Nat /\ c <= a /\ a <= c + 1
      BY <2>2, <2>4, <3>1, EarlierIsAhead
    <3>3. b \in Nat /\ d \in Nat /\ d <= b /\ b <= d + 1
      BY <1>0, <2>2, <2>4, <3>1, EarlierIsAhead
    <3> QED
      BY <1>1, <2>3, <3>2, <3>3
  <2>6. CASE ~(i <= j)
    <3>1. j - 1 <= i - 1
      BY <2>6
    <3>2. a \in Nat /\ c \in Nat /\ a <= c /\ c <= a + 1
      BY <2>2, <2>4, <3>1, EarlierIsAhead
    <3>3. b \in Nat /\ d \in Nat /\ b <= d /\ d <= b + 1
      BY <1>0, <2>2, <2>4, <3>1, EarlierIsAhead
    <3> QED
      BY <1>1, <2>3, <3>2, <3>3
  <2> QED
    BY <2>5, <2>6
<1> QED
  BY <1>4, <1>5

-----------------------------------------------------------------------------
(* The pins are the table.                                                   *)

(* Whatever a turn, an edit or a rebuild does to the pins is one lookup or   *)
(* one insert of the session table, or nothing.                              *)
LEMMA PoolStepIsTableStep ==
  ASSUME TurnsOK, [PoolNext]_poolVars
  PROVE  [Next]_vars
<1>0. ASSUME NEW t \in Turns
      PROVE  turn[t].entry \in Ids /\ turn[t].session \in Keys \cup {NoSession}
  BY DEF TurnsOK, Turn
<1>1. CASE UNCHANGED pins
  BY <1>1 DEF pins, vars
<1>2. ASSUME NEW t \in Turns, Look(t) PROVE Next
  <2>1. turn[t].session \in Keys
    BY <1>0, <1>2 DEF Look, TurnsOK
  <2>2. Get(turn[t].session)
    BY <1>2 DEF Look
  <2> QED
    BY <2>1, <2>2 DEF Next
<1>3. ASSUME NEW t \in Turns, Pin(t) PROVE Next
  <2>1. turn[t].session \in Keys
    BY <1>0, <1>3 DEF Pin, TurnsOK
  <2>2. Insert(turn[t].session, turn[t].entry)
    BY <1>3 DEF Pin
  <2> QED
    BY <1>0, <2>1, <2>2 DEF Next
<1>4. ASSUME NEW t \in Turns, Rotate(t) PROVE UNCHANGED pins
  BY <1>4 DEF Rotate
<1>5. ASSUME NEW t \in Turns, NEW s, Begin(t, s) PROVE UNCHANGED pins
  BY <1>5 DEF Begin
<1>6. ASSUME Reloaded PROVE UNCHANGED pins
  BY <1>6 DEF Reloaded
<1> QED
  BY <1>1, <1>2, <1>3, <1>4, <1>5, <1>6
  DEF PoolNext, poolVars, AddKey, DeleteKey, SetPrimary

(* What a turn goes upstream with is what its session was last sent with.   *)
LEMMA SentIsLast ==
  ASSUME TurnsOK, NEW t \in Turns, turn[t].session \in Keys, NEW handle, Sent(t, handle)
  PROVE  /\ last'[turn[t].session] = {handle}
         /\ \A s \in Keys \ {turn[t].session} : last'[s] = last[s]
         /\ turn'[t].at = "idle" /\ turn'[t].entry = handle
         /\ \A u \in Turns \ {t} : turn'[u] = turn[u]
<1>1. turn[t].session # NoSession
  BY PoolAssumption
<1>2. last' = [last EXCEPT ![turn[t].session] = {handle}]
  BY <1>1 DEF Sent
<1>3. PICK r : r = [Resting EXCEPT !.entry = handle]
  OBVIOUS
<1>4. r.at = "idle" /\ r.entry = handle
  BY <1>3 DEF Resting
<1>5. turn' = [turn EXCEPT ![t] = r]
  BY <1>3 DEF Sent
<1> QED
  BY <1>2, <1>4, <1>5 DEF TurnsOK

(* While its one turn is choosing anew, nothing is said of a session's pin.  *)
LEMMA ChoosesAnew ==
  ASSUME NEW t \in Turns, NEW s, Followed(s),
         turn[t].at # "idle", turn[t].session = s,
         turn'[t].at \in {"rotate", "pin"}, turn'[t].session = s,
         \A u \in Turns \ {t} : turn'[u] = turn[u]
  PROVE  Followed(s)'
<1>1. t \in Choosing(s) /\ t \in Choosing(s)'
  BY DEF Choosing
<1>2. Choosing(s)' \subseteq Choosing(s)
  BY <1>1 DEF Choosing
<1>3. \A u, v \in Choosing(s)' : u = v
  BY <1>2 DEF Followed
<1>4. ~(\A u \in Choosing(s)' : turn'[u].at = "look")
  BY <1>1
<1> QED
  BY <1>3, <1>4 DEF Followed

(* The pin of a session another one's lookup or insert finds in place is as  *)
(* it was after it, or is gone once the session has been quiet.              *)
LEMMA PinsOfOthers ==
  ASSUME IInv, NEW key \in Keys, Get(key) \/ (\E id \in Ids : Insert(key, id)),
         NEW s \in Keys \ {key}, last'[s] = last[s], PinStands(s)
  PROVE  PinStands(s)'
<1>0. tick \in Nat /\ spoke \in [Keys -> Nat] /\ Kept \in Int
  BY CapacityAssumption DEF IInv, TypeOK, Kept
<1>1. tick' = tick + 1 /\ spoke'[s] = spoke[s]
  BY DEF Get, Insert, Operation, IInv, TypeOK
<1>2. tick' - spoke'[s] = tick - spoke[s] + 1 /\ tick - spoke[s] \in Int
  BY <1>0, <1>1
<1>3. CASE Get(key)
  <2>1. DOMAIN map' = DOMAIN map
    BY <1>3 DEF Get
  <2>2. s \in DOMAIN map => map'[s] = map[s]
    BY <1>3 DEF Get
  <2> QED
    BY <1>0, <1>2, <2>1, <2>2 DEF PinStands, Kept
<1>4. ASSUME NEW id \in Ids, Insert(key, id) PROVE PinStands(s)'
  <2>1. PICK m : m = Put(map, key, [id |-> id, used |-> tick + 1])
    OBVIOUS
  <2>2. /\ DOMAIN m = DOMAIN map \cup {key}
        /\ \A k \in DOMAIN map : k # key => m[k] = map[k]
    BY <2>1, PutIsTable
  <2>3. map' = EvictIfOver(m)
    BY <1>4, <2>1 DEF Insert
  <2>4. /\ DOMAIN map' \subseteq DOMAIN m
        /\ \A k \in DOMAIN map' : map'[k] = m[k]
    BY <2>1, <2>3, InsertKeeps
  <2>5. CASE s \in DOMAIN map /\ s \in DOMAIN map'
    <3>1. map'[s] = map[s] /\ last[s] = {map[s].id}
      BY <2>2, <2>4, <2>5 DEF PinStands
    <3> QED
      BY <2>5, <3>1 DEF PinStands
  <2>6. CASE s \in DOMAIN map /\ s \notin DOMAIN map'
    <3>1. [Next]_vars
      BY <1>4 DEF Next
    <3>2. tick' - spoke[s] >= Kept
      BY <2>6, <3>1, StepEvictsOnlyQuiet
    <3>3. tick' - spoke'[s] >= Kept
      BY <1>1, <3>2
    <3> QED
      BY <2>6, <3>3 DEF PinStands, Kept
  <2>7. CASE s \notin DOMAIN map
    <3>1. tick - spoke[s] >= Kept
      BY <2>7 DEF PinStands
    <3>2. tick' - spoke'[s] >= Kept
      BY <1>0, <1>2, <3>1
    <3>3. s \notin DOMAIN map'
      BY <2>2, <2>4, <2>7
    <3> QED
      BY <3>2, <3>3 DEF PinStands, Kept
  <2> QED
    BY <2>5, <2>6, <2>7
<1> QED
  BY <1>3, <1>4

(* A step of one turn says nothing of the sessions it does not carry.        *)
LEMMA FollowedByOthers ==
  ASSUME NEW t \in Turns, NEW s \in Keys, Followed(s),
         turn[t].at # "idle" => turn[t].session # s,
         turn'[t].at # "idle" => turn'[t].session # s,
         \A u \in Turns \ {t} : turn'[u] = turn[u],
         last'[s] = last[s], PinStands(s) => PinStands(s)'
  PROVE  Followed(s)'
<1>1. t \notin Choosing(s) /\ t \notin Choosing(s)'
  BY DEF Choosing
<1>2. \A u \in Turns \ {t} : u \in Choosing(s)' <=> u \in Choosing(s)
  BY DEF Choosing
<1>3. Choosing(s)' = Choosing(s) /\ Choosing(s) \subseteq Turns \ {t}
  BY <1>1, <1>2 DEF Choosing
<1>4. \A u \in Choosing(s) : turn'[u] = turn[u]
  BY <1>3
<1>5. \A u, v \in Choosing(s)' : u = v
  BY <1>3 DEF Followed
<1>6. ASSUME last'[s] # {}, \A u \in Choosing(s)' : turn'[u].at = "look"
      PROVE  PinStands(s)'
  BY <1>3, <1>4, <1>6 DEF Followed
<1> QED
  BY <1>5, <1>6 DEF Followed

LEMMA PinnedStep ==
  ASSUME IInv, TurnsOK, CursorOK, PinnedToLast, [PoolNext]_poolVars
  PROVE  PinnedToLast'
<1>0. ASSUME NEW t \in Turns
      PROVE  turn[t].entry \in Ids /\ turn[t].session \in Keys \cup {NoSession}
  BY DEF TurnsOK, Turn
<1>1. CASE UNCHANGED <<pins, turn, last, crossed>>
  <2>1. \A s \in Keys : Choosing(s)' = Choosing(s)
    BY <1>1 DEF Choosing
  <2>2. \A s \in Keys : PinStands(s)' <=> PinStands(s)
    BY <1>1 DEF PinStands, pins
  <2> QED
    BY <1>1, <2>1, <2>2 DEF PinnedToLast, Followed
<1>2. ASSUME NEW t \in Turns, NEW s0 \in Keys \cup {NoSession}, Begin(t, s0)
      PROVE  PinnedToLast'
  <2>1. PICK r : r = [Resting EXCEPT !.at = IF s0 = NoSession THEN "rotate" ELSE "look",
                                     !.session = s0, !.pool = table]
    OBVIOUS
  <2>2. /\ r.session = s0
        /\ r.at = IF s0 = NoSession THEN "rotate" ELSE "look"
    BY <2>1 DEF Resting
  <2>3. turn' = [turn EXCEPT ![t] = r] /\ turn[t].at = "idle" /\ last' = last
    BY <1>2, <2>1 DEF Begin
  <2>4. turn'[t] = r /\ \A u \in Turns \ {t} : turn'[u] = turn[u]
    BY <2>3 DEF TurnsOK
  <2>5. \A s \in Keys : PinStands(s)' <=> PinStands(s)
    BY <1>2 DEF Begin, PinStands, pins
  <2>6. crossed' = IF s0 # NoSession /\ Choosing(s0) # {} THEN crossed \cup {s0} ELSE crossed
    BY <1>2 DEF Begin
  <2> SUFFICES ASSUME NEW s \in Keys \ crossed' PROVE Followed(s)'
    BY DEF PinnedToLast
  <2>7. s \notin crossed /\ Followed(s)
    BY <2>6 DEF PinnedToLast
  <2>8. CASE s # s0
    BY <2>2, <2>3, <2>4, <2>5, <2>7, <2>8, FollowedByOthers
  <2>9. CASE s = s0
    <3>1. s0 # NoSession /\ Choosing(s) = {}
      BY <2>6, <2>9, PoolAssumption
    <3>2. \A u \in Turns \ {t} : u \notin Choosing(s)'
      BY <2>4, <3>1 DEF Choosing
    <3>3. Choosing(s)' \subseteq {t}
      BY <3>2 DEF Choosing
    <3>4. last[s] # {} => PinStands(s)
      BY <2>7, <3>1 DEF Followed
    <3>5. \A u, v \in Choosing(s)' : u = v
      BY <3>3
    <3>6. last'[s] # {} => PinStands(s)'
      BY <2>3, <2>5, <3>4
    <3> QED
      BY <3>5, <3>6 DEF Followed
  <2> QED
    BY <2>8, <2>9
<1>3. ASSUME NEW t \in Turns, Look(t) PROVE PinnedToLast'
  <2>1. PICK s0 \in Keys : s0 = turn[t].session
    BY <1>0, <1>3 DEF Look, TurnsOK
  <2>2. Get(s0) /\ crossed' = crossed /\ turn[t].at = "look"
    BY <1>3, <2>1 DEF Look
  <2> SUFFICES ASSUME NEW s \in Keys \ crossed PROVE Followed(s)'
    BY <2>2 DEF PinnedToLast
  <2>3. Followed(s)
    BY DEF PinnedToLast
  <2>4. CASE s0 \in DOMAIN map /\ map[s0].id \in Handles(turn[t].pool)
    <3>1. Sent(t, map[s0].id)
      BY <1>3, <2>1, <2>4 DEF Look
    <3>2. /\ last'[s0] = {map[s0].id}
          /\ \A k \in Keys \ {s0} : last'[k] = last[k]
          /\ turn'[t].at = "idle"
          /\ \A u \in Turns \ {t} : turn'[u] = turn[u]
      BY <2>1, <3>1, SentIsLast
    <3>3. CASE s # s0
      <4>1. PinStands(s) => PinStands(s)'
        BY <2>2, <3>2, <3>3, PinsOfOthers
      <4> QED
        BY <2>1, <2>3, <3>2, <3>3, <4>1, FollowedByOthers
    <3>4. CASE s = s0
      <4>1. map'[s0].id = map[s0].id /\ DOMAIN map' = DOMAIN map
        BY <2>2, <2>4 DEF Get, IInv, TypeOK, Entry
      <4>2. PinStands(s)'
        BY <2>4, <3>2, <3>4, <4>1 DEF PinStands
      <4>3. Choosing(s)' \subseteq Choosing(s)
        BY <3>2 DEF Choosing
      <4>4. \A u, v \in Choosing(s)' : u = v
        BY <2>3, <4>3 DEF Followed
      <4> QED
        BY <4>2, <4>4 DEF Followed
    <3> QED
      BY <3>3, <3>4
  <2>5. CASE ~(s0 \in DOMAIN map /\ map[s0].id \in Handles(turn[t].pool))
    <3>1. turn' = [turn EXCEPT ![t].at = "rotate"] /\ last' = last
      BY <1>3, <2>1, <2>5 DEF Look
    <3>2. /\ turn'[t].at = "rotate" /\ turn'[t].session = s0
          /\ \A u \in Turns \ {t} : turn'[u] = turn[u]
      BY <2>1, <3>1 DEF TurnsOK, Turn
    <3>3. CASE s # s0
      <4>1. PinStands(s) => PinStands(s)'
        BY <2>2, <3>1, <3>3, PinsOfOthers
      <4> QED
        BY <2>1, <2>3, <3>1, <3>2, <3>3, <4>1, FollowedByOthers
    <3>4. CASE s = s0
      BY <2>1, <2>2, <2>3, <3>2, <3>4, ChoosesAnew
    <3> QED
      BY <3>3, <3>4
  <2> QED
    BY <2>4, <2>5
<1>4. ASSUME NEW t \in Turns, Rotate(t) PROVE PinnedToLast'
  <2>1. PICK s0, handle : s0 = turn[t].session
                          /\ handle = turn[t].pool[NextKeyIndex(Len(turn[t].pool))].handle
    OBVIOUS
  <2>2. pins' = pins /\ crossed' = crossed /\ turn[t].at = "rotate"
    BY <1>4 DEF Rotate
  <2> SUFFICES ASSUME NEW s \in Keys \ crossed PROVE Followed(s)'
    BY <2>2 DEF PinnedToLast
  <2>3. Followed(s)
    BY DEF PinnedToLast
  <2>4. CASE s0 = NoSession
    <3>1. Sent(t, handle)
      BY <1>4, <2>1, <2>4 DEF Rotate
    <3>2. last' = last
      BY <2>1, <2>4, <3>1 DEF Sent
    <3>3. PICK r : r = [Resting EXCEPT !.entry = handle]
      OBVIOUS
    <3>4. turn' = [turn EXCEPT ![t] = r] /\ r.at = "idle"
      BY <3>1, <3>3 DEF Sent, Resting
    <3>5. turn'[t].at = "idle" /\ \A u \in Turns \ {t} : turn'[u] = turn[u]
      BY <3>4 DEF TurnsOK
    <3>6. PinStands(s)' <=> PinStands(s)
      BY <2>2, <3>2 DEF PinStands, pins
    <3>7. s # s0
      BY <2>4, PoolAssumption
    <3> QED
      BY <2>1, <2>3, <3>2, <3>5, <3>6, <3>7, FollowedByOthers
  <2>5. CASE s0 # NoSession
    <3>1. turn' = [turn EXCEPT ![t].at = "pin", ![t].entry = handle] /\ last' = last
      BY <1>4, <2>1, <2>5 DEF Rotate
    <3>2. /\ turn'[t].at = "pin" /\ turn'[t].session = s0
          /\ \A u \in Turns \ {t} : turn'[u] = turn[u]
      BY <2>1, <3>1 DEF TurnsOK, Turn
    <3>3. PinStands(s)' <=> PinStands(s)
      BY <2>2, <3>1 DEF PinStands, pins
    <3>4. CASE s # s0
      BY <2>1, <2>3, <3>1, <3>2, <3>3, <3>4, FollowedByOthers
    <3>5. CASE s = s0
      BY <2>1, <2>2, <2>3, <3>2, <3>5, ChoosesAnew
    <3> QED
      BY <3>4, <3>5
  <2> QED
    BY <2>4, <2>5
<1>5. ASSUME NEW t \in Turns, Pin(t) PROVE PinnedToLast'
  <2>1. PICK s0 \in Keys, id \in Ids : s0 = turn[t].session /\ id = turn[t].entry
    BY <1>0, <1>5 DEF Pin, TurnsOK
  <2>2. Insert(s0, id) /\ Sent(t, id) /\ crossed' = crossed /\ turn[t].at = "pin"
    BY <1>5, <2>1 DEF Pin
  <2> SUFFICES ASSUME NEW s \in Keys \ crossed PROVE Followed(s)'
    BY <2>2 DEF PinnedToLast
  <2>3. Followed(s)
    BY DEF PinnedToLast
  <2>4. /\ last'[s0] = {id}
        /\ \A k \in Keys \ {s0} : last'[k] = last[k]
        /\ turn'[t].at = "idle"
        /\ \A u \in Turns \ {t} : turn'[u] = turn[u]
    BY <2>1, <2>2, SentIsLast
  <2>5. CASE s # s0
    <3>1. PinStands(s) => PinStands(s)'
      BY <2>2, <2>4, <2>5, PinsOfOthers
    <3> QED
      BY <2>1, <2>3, <2>4, <2>5, <3>1, FollowedByOthers
  <2>6. CASE s = s0
    <3>1. PICK new, m : new = [id |-> id, used |-> tick + 1] /\ m = Put(map, s0, new)
      OBVIOUS
    <3>2. map' = EvictIfOver(m) /\ m[s0] = new /\ new.id = id
      BY <2>2, <3>1 DEF Insert, Put
    <3>3. s0 \in DOMAIN map' /\ map'[s0] = m[s0]
      BY <3>1, <3>2, InsertKeeps
    <3>4. PinStands(s)'
      BY <2>4, <2>6, <3>2, <3>3 DEF PinStands
    <3>5. Choosing(s)' \subseteq Choosing(s)
      BY <2>4 DEF Choosing
    <3>6. \A u, v \in Choosing(s)' : u = v
      BY <2>3, <3>5 DEF Followed
    <3> QED
      BY <3>4, <3>6 DEF Followed
  <2> QED
    BY <2>5, <2>6
<1>6. ASSUME Reloaded PROVE PinnedToLast'
  BY <1>1, <1>6 DEF Reloaded
<1> QED
  BY <1>1, <1>2, <1>3, <1>4, <1>5, <1>6
  DEF PoolNext, poolVars, history, AddKey, DeleteKey, SetPrimary

-----------------------------------------------------------------------------
(* The pool's invariant.                                                     *)

PoolIInv == IInv /\ RowsOK /\ TurnsOK /\ CursorOK /\ DealtInTurn /\ PinnedToLast

LEMMA InitPoolIInv == PoolInit => PoolIInv
<1> SUFFICES ASSUME PoolInit PROVE PoolIInv
  OBVIOUS
<1>1. IInv
  BY InitIInv DEF PoolInit
<1>2. PICK extra \in Secrets : rows = <<[id |-> 1, key |-> extra]>>
  BY DEF PoolInit
<1>3. edits = 0 /\ lastId = 1 /\ primary \in Secrets /\ MaxEdits \in Nat
  BY PoolAssumption DEF PoolInit
<1>4. RowsOK
  <2>1. PICK row : row = [id |-> 1, key |-> extra]
    OBVIOUS
  <2>2. row \in [id : 1..lastId, key : Secrets]
    BY <1>3, <2>1
  <2>3. rows = <<row>>
    BY <1>2, <2>1
  <2>4. rows \in Seq([id : 1..lastId, key : Secrets])
    <3> DEFINE R == [id : 1..lastId, key : Secrets]
    <3> HIDE DEF R
    <3>1. row \in R
      BY <2>2 DEF R
    <3>2. rows \in Seq(R)
      BY <2>3, <3>1
    <3> QED
      BY <3>2 DEF R
  <2>5. DOMAIN rows = {1}
    BY <2>3
  <2> QED
    BY <1>3, <2>4, <2>5 DEF RowsOK
<1>5. TurnsOK
  <2>1. Resting \in Turn
    <3>1. <<>> \in Seq(PoolEntry) /\ 0 \in Ids
      BY PoolAssumption
    <3> QED
      BY <3>1 DEF Turn, Resting, Primary
  <2>2. Resting.at = "idle" /\ Resting.pool = <<>>
    BY DEF Resting
  <2>3. IsPool(<<>>)
    BY DEF IsPool
  <2>4. turn = [t \in Turns |-> Resting] /\ last = [s \in Keys |-> {}] /\ crossed = {}
    BY DEF PoolInit
  <2>5. turn \in [Turns -> Turn] /\ last \in [Keys -> SUBSET Ids]
    BY <2>1, <2>4
  <2> QED
    BY <2>2, <2>3, <2>4, <2>5 DEF TurnsOK
<1>6. CursorOK
  <2>1. /\ lastId \in 1..MaxEdits + 1 /\ primary \in Secrets \cup {NoKey}
        /\ rows \in Seq([id : 1..lastId, key : Secrets])
        /\ \A i, j \in DOMAIN rows : rows[i].id = rows[j].id => i = j
    BY <1>3, <1>4 DEF RowsOK
  <2>2. IsPool(Pool(primary, rows))
    BY <2>1, PoolIsPool
  <2>3. table = Pool(primary, rows) /\ cursor = 0 /\ dealt = [h \in Ids |-> 0] /\ mixed = FALSE
    BY DEF PoolInit
  <2> QED
    BY <2>2, <2>3 DEF CursorOK
<1>7. DealtInTurn
  <2>1. cursor = 0 /\ dealt = [h \in Ids |-> 0]
    BY DEF PoolInit
  <2>2. SUFFICES ASSUME Len(table) > 1, NEW i \in DOMAIN table
                 PROVE  Dealt(1, i - 1, Len(table), 0) + dealt[table[i].handle]
                          = Dealt(1, i - 1, Len(table), 0)
    BY <2>1 DEF DealtInTurn
  <2>3. table \in Seq(PoolEntry)
    BY <1>6 DEF CursorOK, IsPool
  <2>4. Len(table) \in Nat /\ i \in 1..Len(table)
    BY <2>3
  <2>5. Dealt(1, i - 1, Len(table), 0) \in Nat
    BY <2>4, EntryIsPassed
  <2>6. dealt[table[i].handle] = 0
    BY <2>1, <2>3, HandlesAreIds
  <2> QED
    BY <2>5, <2>6
<1>8. PinnedToLast
  <2>1. \A s \in Keys : Choosing(s) = {} /\ last[s] = {}
    BY DEF PoolInit, Choosing, Resting
  <2> QED
    BY <2>1 DEF PinnedToLast, Followed
<1> QED
  BY <1>1, <1>4, <1>5, <1>6, <1>7, <1>8 DEF PoolIInv

LEMMA NextPoolIInv == PoolIInv /\ [PoolNext]_poolVars => PoolIInv'
<1> SUFFICES ASSUME PoolIInv, [PoolNext]_poolVars PROVE PoolIInv'
  OBVIOUS
<1> USE DEF PoolIInv
<1>1. RowsOK' /\ TurnsOK'
  BY RowsStep, TurnsStep
<1>2. CursorOK'
  BY <1>1, CursorStep
<1>3. DealtInTurn'
  BY <1>2, DealtStep
<1>4. PinnedToLast'
  BY PinnedStep
<1>5. IInv'
  BY PoolStepIsTableStep, NextIInv
<1> QED
  BY <1>1, <1>2, <1>3, <1>4, <1>5

THEOREM PoolInvariance == PoolSpec => []PoolIInv
<1> QED
  BY InitPoolIInv, NextPoolIInv, PTL DEF PoolSpec

(* The pins of a credential pool are a session table: whatever its turns,    *)
(* edits and rebuilds do, the pool performs lookups and inserts of the       *)
(* table's own specification and nothing else, so what is proved of the      *)
(* table is true of the pins.                                                *)
THEOREM PinsAreATable == PoolSpec => Spec
<1>1. PoolInit => Init
  BY DEF PoolInit
<1>2. PoolIInv /\ [PoolNext]_poolVars => [Next]_vars
  BY PoolStepIsTableStep DEF PoolIInv
<1> QED
  BY <1>1, <1>2, PoolInvariance, PTL DEF PoolSpec, Spec

(* The pool's cursor deals its entries in turn: no entry of the pool is      *)
(* dealt more than once more often than another while the route table        *)
(* stands, however turns that pin and turns that do not interleave.          *)
THEOREM EntriesTakeTurns == PoolSpec => []KeysTakeTurns
<1>1. PoolIInv => KeysTakeTurns
  BY InTurnIsShared DEF PoolIInv
<1> QED
  BY <1>1, PoolInvariance, PTL

(* What a lookup's step does for the conversation it is made for.            *)
LEMMA LookKeepsItsKey ==
  ASSUME PoolIInv, NEW t \in Turns, Look(t), turn'[t].at # "look",
         NEW s, s = turn[t].session
  PROVE  /\ s \notin crossed /\ tick - spoke[s] < Kept
               /\ last[s] # {} /\ last[s] \subseteq Handles(turn[t].pool)
            => turn'[t].at = "idle" /\ last'[s] = last[s]
         /\ turn'[t].at = "idle" => turn'[t].entry \in Handles(turn[t].pool)
<1> USE DEF PoolIInv
<1>1. s \in Keys /\ turn[t].at = "look"
  BY DEF Look, TurnsOK, Turn
<1>2. CASE s \in DOMAIN map /\ map[s].id \in Handles(turn[t].pool)
  <2>1. Sent(t, map[s].id)
    BY <1>2 DEF Look
  <2>2. /\ last'[s] = {map[s].id}
        /\ turn'[t].at = "idle" /\ turn'[t].entry = map[s].id
    BY <1>1, <2>1, SentIsLast
  <2>3. ASSUME s \notin crossed, tick - spoke[s] < Kept, last[s] # {}
        PROVE  last[s] = {map[s].id}
    <3>1. Followed(s)
      BY <1>1, <2>3 DEF PinnedToLast
    <3>2. t \in Choosing(s)
      BY <1>1 DEF Choosing
    <3>3. PinStands(s)
      BY <1>1, <2>3, <3>1, <3>2 DEF Followed
    <3> QED
      BY <1>2, <3>3 DEF PinStands
  <2> QED
    BY <1>2, <2>2, <2>3
<1>3. CASE ~(s \in DOMAIN map /\ map[s].id \in Handles(turn[t].pool))
  <2>1. turn' = [turn EXCEPT ![t].at = "rotate"]
    BY <1>3 DEF Look
  <2>2. turn'[t].at = "rotate"
    BY <2>1 DEF TurnsOK, Turn
  <2>3. ASSUME s \notin crossed, tick - spoke[s] < Kept, last[s] # {},
               last[s] \subseteq Handles(turn[t].pool)
        PROVE  FALSE
    <3>1. Followed(s)
      BY <1>1, <2>3 DEF PinnedToLast
    <3>2. t \in Choosing(s)
      BY <1>1 DEF Choosing
    <3>3. PinStands(s)
      BY <1>1, <2>3, <3>1, <3>2 DEF Followed
    <3>4. /\ tick \in Nat /\ spoke[s] \in Nat /\ Kept \in Int
      BY <1>1, CapacityAssumption DEF IInv, TypeOK, Kept
    <3>5. ~(tick - spoke[s] >= Kept)
      BY <2>3, <3>4
    <3>6. s \in DOMAIN map /\ last[s] = {map[s].id}
      BY <3>3, <3>5 DEF PinStands
    <3> QED
      BY <1>3, <2>3, <3>6
  <2> QED
    BY <2>2, <2>3
<1> QED
  BY <1>2, <1>3

(* A conversation stays on its entry of the pool (headers.rs): one that is   *)
(* not quiet and sends one turn at a time goes on with the entry it was last *)
(* sent with while its turn carries that entry, whatever is edited meanwhile *)
(* and whoever else speaks; no turn goes out with an entry it does not carry.*)
THEOREM ConversationsKeepTheirKey == PoolSpec => KeepsItsKey
<1> DEFINE Keeps(t) ==
             turn[t].at = "look" /\ turn'[t].at # "look" =>
                LET s == turn[t].session
                IN  /\ s \notin crossed /\ tick - spoke[s] < Kept
                          /\ last[s] # {} /\ last[s] \subseteq Handles(turn[t].pool)
                       => turn'[t].at = "idle" /\ last'[s] = last[s]
                    /\ turn'[t].at = "idle" => turn'[t].entry \in Handles(turn[t].pool)
<1>1. ASSUME PoolIInv, [PoolNext]_poolVars, NEW t \in Turns,
             turn[t].at = "look", turn'[t].at # "look"
      PROVE  Look(t)
  <2> USE DEF PoolIInv
  <2>1. turn' # turn
    BY <1>1
  <2>2. ASSUME NEW u \in Turns, u # t, NEW r, turn' = [turn EXCEPT ![u] = r] PROVE FALSE
    BY <1>1, <2>2 DEF TurnsOK
  <2>3. ASSUME NEW u \in Turns, NEW handle, Sent(u, handle) PROVE u = t
    BY <2>2, <2>3 DEF Sent
  <2>4. ASSUME NEW u \in Turns, Look(u) PROVE u = t
    <3>1. \/ Sent(u, map[turn[u].session].id)
          \/ turn' = [turn EXCEPT ![u].at = "rotate"]
      BY <2>4 DEF Look
    <3> QED
      BY <2>2, <2>3, <3>1
  <2>5. ASSUME NEW u \in Turns, Rotate(u) PROVE FALSE
    <3>1. PICK handle : handle = turn[u].pool[NextKeyIndex(Len(turn[u].pool))].handle
      OBVIOUS
    <3>2. \/ Sent(u, handle)
          \/ turn' = [turn EXCEPT ![u].at = "pin", ![u].entry = handle]
      BY <2>5, <3>1 DEF Rotate
    <3>3. u # t
      BY <1>1, <2>5 DEF Rotate
    <3> QED
      BY <1>1, <2>2, <2>3, <3>2, <3>3 DEF TurnsOK
  <2>6. ASSUME NEW u \in Turns, Pin(u) PROVE FALSE
    BY <1>1, <2>3, <2>6 DEF Pin
  <2>7. ASSUME NEW u \in Turns, NEW s, Begin(u, s) PROVE FALSE
    BY <1>1, <2>2, <2>7 DEF Begin
  <2>8. ASSUME Reloaded PROVE FALSE
    BY <2>1, <2>8 DEF Reloaded
  <2> QED
    BY <1>1, <2>1, <2>4, <2>5, <2>6, <2>7, <2>8
    DEF PoolNext, poolVars, AddKey, DeleteKey, SetPrimary
<1>2. ASSUME PoolIInv, [PoolNext]_poolVars, NEW t \in Turns PROVE Keeps(t)
  BY <1>1, <1>2, LookKeepsItsKey
<1>3. PoolIInv /\ [PoolNext]_poolVars => [\A t \in Turns : Keeps(t)]_poolVars
  BY <1>2
<1> QED
  BY <1>3, PoolInvariance, PTL DEF PoolSpec, KeepsItsKey
=============================================================================
