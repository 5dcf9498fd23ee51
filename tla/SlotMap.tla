---------------------------------- MODULE SlotMap ---------------------------------
(***************************************************************************)
(* src/collections/slot_map.rs: a SlotMap, whose keys are an index and the *)
(* version its slot had, and a SecondaryMap that is used with its keys.    *)
(*                                                                         *)
(* The version of a slot is odd while it is occupied and goes up by one    *)
(* with each insert and each remove; versions are words of Width bits.     *)
(* Vacant slots form a list that ends at the length of the slots.  A key   *)
(* is always used after a round trip through its u64 form, as by a C       *)
(* caller.                                                                 *)
(*                                                                         *)
(* dict, dead and shadow are what a reader of the documentation would      *)
(* remember: the values by their keys, the keys of values that were        *)
(* removed, and what the SecondaryMap was given for each key.              *)
(***************************************************************************)
EXTENDS Naturals, FiniteSets

CONSTANTS
    Values,
    NoValue,        \* State::Vacant, and the None of get and remove
    Width,          \* bits of a version (32) and of an index
    MaxIndex,       \* the index that a slot may not have (u32::MAX)
    MaxRemovals,    \* bound: the number of values ever removed
    MaxCount        \* bound: the COUNT of get_disjoint_mut

Word == 2 ^ Width

ASSUME SlotMapAssumption ==
    /\ Width \in Nat \ {0} /\ Word \in Nat /\ Word % 2 = 0 /\ MaxIndex \in 1 .. Word - 1 /\ MaxRemovals \in Nat
    /\ MaxCount \in Nat
    /\ NoValue \notin Values

VARIABLES
    slots, free_head, len,  \* SlotMap; a Slot is a record, Vacant(next) has no value
    secondary,              \* SecondaryMap.slots; version 0 stands for None
    removals,               \* number of removed values
    panicked,               \* a panic has come out of a call
    dict, dead, shadow      \* history, see above

MapState == <<slots, free_head, len>>
History == <<dict, dead, shadow>>
vars == <<MapState, secondary, removals, panicked, History>>

\* KeyData::new sets the lowest bit of the version.
Odd(version) == IF version % 2 = 0 THEN version + 1 ELSE version
as_ffi(key) == key[2] * Word + key[1]
from_ffi(n) == <<n % Word, Odd(n \div Word)>>
Key(k) == from_ffi(as_ffi(k))

Slot(version, value, next) == [version |-> version, value |-> value, next |-> next]

Init ==
    /\ slots = [i \in {0} |-> Slot(0, NoValue, 0)]
    /\ free_head = 1
    /\ len = 0
    /\ secondary = [i \in {} |-> [version |-> 0, value |-> NoValue]]
    /\ removals = 0
    /\ panicked = FALSE
    /\ dict = [k \in {} |-> NoValue]
    /\ dead = {}
    /\ shadow = [k \in {} |-> NoValue]

Size == Cardinality(DOMAIN slots)
Occupied == {i \in DOMAIN slots : slots[i].value # NoValue}
Without(f, keys) == [k \in DOMAIN f \ keys |-> f[k]]
With(f, k, v) == [x \in DOMAIN f \cup {k} |-> IF x = k THEN v ELSE f[x]]

-----------------------------------------------------------------------------
(* SlotMap                                                                 *)

Remembered(k, v) ==
    /\ dict' = With(dict, k, v)
    /\ UNCHANGED <<dead, shadow>>

\* insert into the first vacant slot of the list
InsertReused(v) ==
    /\ free_head \in DOMAIN slots
    /\ LET slot == slots[free_head]
           version == Odd(slot.version)
       IN  /\ slots' = [slots EXCEPT ![free_head] = Slot(version, v, 0)]
           /\ free_head' = IF slot.value = NoValue THEN slot.next ELSE free_head
           /\ Remembered(<<free_head, version>>, v)
    /\ len' = len + 1
    /\ UNCHANGED <<secondary, removals, panicked>>

\* insert into a new slot
InsertNew(v) ==
    /\ free_head \notin DOMAIN slots /\ Size < MaxIndex
    /\ slots' = With(slots, Size, Slot(1, v, 0))
    /\ free_head' = Size + 1
    /\ Remembered(<<Size, 1>>, v)
    /\ len' = len + 1
    /\ UNCHANGED <<secondary, removals, panicked>>

\* "SlotMap is full": len is one too many from then on.
InsertFails ==
    /\ free_head \notin DOMAIN slots /\ Size >= MaxIndex
    /\ ~panicked        \* bound: one panic is enough
    /\ len' = len + 1
    /\ panicked' = TRUE
    /\ UNCHANGED <<slots, free_head, secondary, removals, History>>

\* Altered form: a slot keeps its version when its value is removed.
NextVersionKept(version) == version

NextVersion(version) == (version + 1) % Word

\* get, and with a value of the slot get_mut, index and index_mut
Get(key) ==
    LET k == Key(key)
    IN  IF k[1] \in DOMAIN slots /\ slots[k[1]].version = k[2] THEN slots[k[1]].value ELSE NoValue

\* Altered form: the slot points at what followed the one freed before it.
RemoveCutsList(key) ==
    /\ removals < MaxRemovals
    /\ LET k == Key(key)
           next == IF free_head \in DOMAIN slots THEN slots[free_head].next ELSE free_head
       IN  /\ k[1] \in DOMAIN slots /\ slots[k[1]].version = k[2]
           /\ slots' = [slots EXCEPT ![k[1]] = Slot(NextVersion(k[2]), NoValue, next)]
           /\ free_head' = k[1]
    /\ len' = len - 1
    /\ removals' = removals + 1
    /\ dict' = Without(dict, {key})
    /\ dead' = dead \cup {key}
    /\ UNCHANGED <<secondary, panicked, shadow>>

\* remove with a key that is current; with another it changes nothing.
Remove(key) ==
    /\ removals < MaxRemovals
    /\ LET k == Key(key)
       IN  /\ k[1] \in DOMAIN slots /\ slots[k[1]].version = k[2]
           /\ slots' = [slots EXCEPT ![k[1]] = Slot(NextVersion(k[2]), NoValue, free_head)]
           /\ free_head' = k[1]
    /\ len' = len - 1
    /\ removals' = removals + 1
    /\ dict' = Without(dict, {key})
    /\ dead' = dead \cup {key}
    /\ UNCHANGED <<secondary, panicked, shadow>>

\* clear up to the slot `last`: the occupied slots in order, each in front of
\* the list.  A value whose drop panics at `last` leaves its slot vacant, but
\* not in the list, and the rest as it was.
Clearing(last, completes) ==
    LET cleared == {i \in Occupied : i <= last}
        listed == IF completes THEN cleared ELSE cleared \ {last}
        before(i) == {j \in cleared : j < i}
        head(s) == IF s = {} THEN free_head ELSE CHOOSE i \in s : \A j \in s : j <= i
        gone == {k \in DOMAIN dict : k[1] \in cleared}
    IN  /\ removals + Cardinality(cleared) <= MaxRemovals
        /\ slots' = [i \in DOMAIN slots |->
               IF i \in cleared
               THEN Slot(NextVersion(slots[i].version), NoValue, head(before(i)))
               ELSE slots[i]]
        /\ free_head' = head(listed)
        /\ len' = IF completes THEN 0 ELSE len
        /\ removals' = removals + Cardinality(cleared)
        /\ dict' = Without(dict, gone)
        /\ dead' = dead \cup gone
        /\ UNCHANGED <<secondary, shadow>>

Clear == Clearing(Size - 1, TRUE) /\ UNCHANGED panicked

ClearPanics(i) ==
    /\ ~panicked        \* bound: one panic is enough
    /\ i \in Occupied
    /\ Clearing(i, FALSE)
    /\ panicked' = TRUE

\* keys, values and values_mut
keys == {<<i, Odd(slots[i].version)>> : i \in Occupied}

-----------------------------------------------------------------------------
(* SecondaryMap                                                            *)

\* Altered form: any key that differs replaces the entry.
OlderNever(version, than) == FALSE

\* data.version.wrapping_sub(entry.version) >= 1 << 31
Older(version, than) == (version + Word - than) % Word >= Word \div 2

Stored(k) ==
    IF k[1] \in DOMAIN secondary THEN secondary[k[1]] ELSE [version |-> 0, value |-> NoValue]

\* insert with any key the map ever gave: old ones are ignored.
SecondaryInsert(key, v) ==
    /\ LET k == Key(key)
           entry == [version |-> k[2], value |-> v]
           grown == [i \in DOMAIN secondary \cup (0 .. k[1]) |-> Stored(<<i>>)]
           ignored == Stored(k).version \notin {0, k[2]} /\ Older(k[2], Stored(k).version)
       IN  secondary' = IF ignored THEN grown ELSE [grown EXCEPT ![k[1]] = entry]
    /\ shadow' = With(shadow, key, v)
    /\ UNCHANGED <<MapState, removals, panicked, dict, dead>>

SecondaryGet(key) ==
    LET k == Key(key) IN IF Stored(k).version = k[2] THEN Stored(k).value ELSE NoValue

SecondaryRemove(key) ==
    /\ SecondaryGet(key) # NoValue
    /\ secondary' = [secondary EXCEPT ![Key(key)[1]] = [version |-> 0, value |-> NoValue]]
    /\ shadow' = Without(shadow, {key})
    /\ UNCHANGED <<MapState, removals, panicked, dict, dead>>

\* get_disjoint_mut of an array of keys, when it hands out references (each key
\* is found, and none before it has its slot; otherwise it changes nothing), and
\* a write of vs[n] through the n-th of them, one after the other.  Its holder
\* remembers what it wrote, whatever is written through the ones after it.
GetDisjointMut(ks, vs) ==
    LET at(n) == Key(ks[n])[1]
        refs(i) == {n \in DOMAIN ks : at(n) = i}
        last(ns) == CHOOSE n \in ns : \A m \in ns : m <= n
        first(k) == CHOOSE n \in DOMAIN ks : ks[n] = k /\ \A m \in 1 .. n - 1 : ks[m] # k
    IN  /\ \A n \in DOMAIN ks :
               /\ SecondaryGet(ks[n]) # NoValue
               /\ \A m \in 1 .. n - 1 : at(m) # at(n)
        /\ secondary' = [i \in DOMAIN secondary |->
               IF refs(i) = {} THEN secondary[i]
               ELSE [version |-> secondary[i].version, value |-> vs[last(refs(i))]]]
        /\ shadow' = [k \in DOMAIN shadow |->
               IF \E n \in DOMAIN ks : ks[n] = k THEN vs[first(k)] ELSE shadow[k]]
        /\ UNCHANGED <<MapState, removals, panicked, dict, dead>>

-----------------------------------------------------------------------------

Given == DOMAIN dict \cup dead

Next ==
    \/ \E v \in Values : InsertReused(v) \/ InsertNew(v)
    \/ InsertFails
    \/ \E k \in Given : Remove(k) \/ SecondaryRemove(k)
    \/ \E k \in Given, v \in Values : SecondaryInsert(k, v)
    \/ \E n \in 1 .. MaxCount : \E ks \in [1 .. n -> Given], vs \in [1 .. n -> Values] : GetDisjointMut(ks, vs)
    \/ Clear
    \/ \E i \in DOMAIN slots : ClearPanics(i)

Spec == Init /\ [][Next]_vars

-----------------------------------------------------------------------------
(* Properties                                                              *)

\* "A key from a removed value does not find a later value in the same slot"
\* (README.md:62), nor does a key of a slot that clear emptied.
DeadKeysFindNothing == \A k \in dead : Get(k) = NoValue

\* A key finds the value it was given for, whatever was inserted, removed and
\* cleared around it, until that value is removed; the keys of removed values
\* find nothing, and the iterators give the rest.
KeysFindTheirValues ==
    /\ \A k \in DOMAIN dict : Get(k) = dict[k]
    /\ DeadKeysFindNothing
    /\ keys = DOMAIN dict

\* The list of vacant slots leads from one to the next to the end of the slots,
\* past no occupied slot and past none twice; it misses none, and len is right,
\* unless a call has panicked.  Exactly the occupied slots have odd versions, so
\* that a key, whose version is odd, finds no vacant one.
FreeListIsSound ==
    LET after[n \in 0 .. Size] == IF n = 0 THEN free_head
                                  ELSE LET i == after[n - 1] IN IF i \in DOMAIN slots THEN slots[i].next ELSE i
        listed == {after[n] : n \in 0 .. Size} \cap DOMAIN slots
        vacant == (DOMAIN slots \ Occupied) \ {0}
    IN  /\ listed \subseteq vacant
        /\ after[Size] = Size
        /\ Occupied = {i \in DOMAIN slots : slots[i].version % 2 = 1}
        /\ Cardinality(Occupied) <= len
        /\ ~panicked => listed = vacant /\ Cardinality(Occupied) = len

\* What the SecondaryMap was given for a key that is still good it keeps: an
\* insert with an older key of the same slot does not put it out, one with the
\* newer key is not taken for an old one, and what is written through one of the
\* references that get_disjoint_mut hands out together is not overwritten
\* through another.
GoodKeysKeepTheirs ==
    \A k \in DOMAIN dict \cap DOMAIN shadow : SecondaryGet(k) = shadow[k]
=============================================================================
