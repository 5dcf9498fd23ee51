------------------------------ MODULE CollectionsProofs ----------------------------
(***************************************************************************)
(* Theorems about the collections, for any values, capacity and number of  *)
(* slots and elements, and any sequence of calls.                          *)
(*                                                                         *)
(* SlotMap.  A key finds its value because the version of a slot never     *)
(* goes back (Versions), because each occupied slot has one key in the     *)
(* dictionary (Live), and because insert never takes an occupied slot off  *)
(* the list of vacant ones: that list runs down a ranking of its slots     *)
(* (Listed), so that it does not come back to a slot that was taken off.   *)
(* The theorems about keys suppose that no slot's version comes round to a *)
(* half of its range (it goes up by two with each removal), the one about  *)
(* the list of vacant slots does not.                                      *)
(*                                                                         *)
(* SmallVec and ArrayVec.  Each operation is shown to leave the vector     *)
(* with the sequence that it should have: a loop by induction over its     *)
(* rounds (LoopRuns), a move of cells place by place.  Of an element's     *)
(* owners the invariant (VecInv) says that the vector's and the iterator's *)
(* sequences have each element once and none in common; an operation       *)
(* splits one of them into parts (Split) and gives a part away (Handover). *)
(***************************************************************************)
EXTENDS Collections, FiniteSetTheorems, SequenceTheorems, WellFoundedInduction, NaturalsInduction, TLAPS

NoWrap == 4 * MaxRemovals + 2 <= Word

SlotType == [version : Nat, value : Values \cup {NoValue}, next : Nat]

Shape ==
    /\ slots \in [DOMAIN slots -> SlotType]
    /\ DOMAIN slots = 0 .. Size - 1
    /\ Size \in 1 .. MaxIndex
    /\ removals \in 0 .. MaxRemovals

\* A version is odd while the slot is occupied, and counts the removals.
Versions ==
    \A i \in DOMAIN slots :
        /\ slots[i].version <= 2 * removals + 1
        /\ slots[i].value # NoValue <=> slots[i].version % 2 = 1

\* A key that the map has given.
IsKey(k) ==
    /\ k \in (0 .. Size - 1) \X Nat
    /\ k[2] % 2 = 1
    /\ k[2] <= slots[k[1]].version

Current(k) == slots[k[1]].version = k[2]

Live ==
    /\ \A k \in Given : IsKey(k)
    /\ \A k \in DOMAIN dict : Current(k) /\ dict[k] = slots[k[1]].value
    /\ \A k \in dead : ~Current(k)
    /\ \A i \in Occupied : <<i, slots[i].version>> \in DOMAIN dict

\* The slots of L are vacant and each leads to one of a lower rank or to the end.
ListOf(L, r) ==
    /\ L \subseteq DOMAIN slots \ Occupied
    /\ free_head \in L \cup {Size}
    /\ \A i \in L : \/ slots[i].next = Size
                    \/ slots[i].next \in L /\ r[slots[i].next] < r[i]

Listed == \E L : \E r \in [L -> Nat] : ListOf(L, r)

MapInv == Shape /\ Versions /\ Live /\ Listed

\* What a step may do to keys: versions only go up, keys stay given, and a key
\* that is new to the dictionary is new altogether.
MapMoves ==
    /\ DOMAIN slots \subseteq DOMAIN slots'
    /\ \A i \in DOMAIN slots : slots[i].version <= slots'[i].version
    /\ Given \subseteq Given'
    /\ \A k \in DOMAIN dict' : k \in DOMAIN dict \/ k \notin Given

-----------------------------------------------------------------------------
(* Numbers                                                                 *)

LEMMA DivMod ==
    ASSUME NEW W \in Nat, W > 0, NEW v \in Nat, NEW i \in 0 .. W - 1
    PROVE  (v * W + i) % W = i /\ (v * W + i) \div W = v
  OBVIOUS

LEMMA SmallMod ==
    ASSUME NEW W \in Nat, W > 0, NEW i \in 0 .. W - 1
    PROVE  i % W = i /\ (i + W) % W = i
  OBVIOUS

\* A key survives the round trip through its u64.
LEMMA KeyKept ==
    ASSUME Shape, NEW k, IsKey(k)
    PROVE  Key(k) = k
<1>1. k = <<k[1], k[2]>> /\ k[1] \in 0 .. Word - 1 /\ k[2] \in Nat /\ k[2] % 2 = 1
  BY SlotMapAssumption DEF IsKey, Shape
<1>2. as_ffi(k) % Word = k[1] /\ as_ffi(k) \div Word = k[2]
  BY <1>1, DivMod, SlotMapAssumption DEF as_ffi
<1>3. Odd(k[2]) = k[2]
  BY <1>1 DEF Odd
<1> QED
  BY <1>1, <1>2, <1>3 DEF Key, from_ffi

\* A set of natural numbers below a bound that is not empty has a largest member.
LEMMA LargestMember ==
    ASSUME NEW n \in Nat, NEW S \in SUBSET (0 .. n), S # {}
    PROVE  \E i \in S : \A j \in S : j <= i
<1> DEFINE less == OpToRel(<, Nat)
           bounds == {m \in Nat : \A j \in S : j <= m}
<1>1. IsWellFoundedOn(less, Nat)
  BY NatLessThanWellFounded
<1>2. n \in bounds /\ bounds \in SUBSET Nat
  OBVIOUS
<1> HIDE DEF less
<1>3. PICK m \in bounds : \A j \in bounds : ~ (<<j, m>> \in less)
  <2> HIDE DEF bounds
  <2> QED
    BY <1>1, <1>2, WFMin
<1>4. \A j \in bounds : ~(j < m)
  BY <1>3 DEF less, OpToRel
<1>5. CASE m \in S
  BY <1>5
<1>6. CASE m \notin S
  <2>0. PICK s \in S : s <= m
    OBVIOUS
  <2>1. m - 1 \in Nat /\ \A j \in S : j <= m - 1
    BY <1>6, <2>0
  <2>2. m - 1 \in bounds
    BY <2>1
  <2> QED
    BY <1>4, <2>2
<1> QED
  BY <1>5, <1>6

\* The number of slots, from their indices.
LEMMA SizeIs ==
    ASSUME NEW n \in Nat
    PROVE  Cardinality(0 .. n - 1) = n /\ IsFiniteSet(0 .. n - 1)
<1>1. IsFiniteSet(0 .. n - 1) /\ Cardinality(0 .. n - 1) = IF 0 > n - 1 THEN 0 ELSE (n - 1) - 0 + 1
  BY FS_Interval
<1> QED
  BY <1>1

-----------------------------------------------------------------------------

LEMMA InitMapInv == Init => MapInv
<1> SUFFICES ASSUME Init PROVE MapInv
  OBVIOUS
<1>1. DOMAIN slots = {0} /\ slots[0] = Slot(0, NoValue, 0)
  BY DEF Init
<1>2. Size = 1
  BY <1>1, FS_Singleton DEF Size
<1>3. Shape
  BY <1>1, <1>2, SlotMapAssumption DEF Init, Shape, SlotType, Slot
<1>4. Versions /\ Occupied = {}
  BY <1>1, SlotMapAssumption DEF Init, Versions, Slot, Occupied
<1>5. Given = {} /\ DOMAIN dict = {} /\ dead = {}
  BY DEF Init, Given
<1>6. Live
  BY <1>4, <1>5 DEF Live
<1>7. ListOf({}, [i \in {} |-> 0])
  BY <1>2 DEF Init, ListOf
<1> QED
  BY <1>3, <1>4, <1>6, <1>7 DEF MapInv, Listed

\* A step that keeps the slots, the head and the dictionary.
LEMMA MapUntouched ==
    ASSUME MapInv, UNCHANGED <<slots, free_head, removals, dict, dead>>
    PROVE  MapInv'
<1>1. Size' = Size /\ Occupied' = Occupied /\ Given' = Given
  BY DEF Size, Occupied, Given
<1>2. Shape' /\ Versions' /\ Live'
  BY <1>1 DEF MapInv, Shape, Versions, Live, IsKey, Current
<1>3. \A L, r : ListOf(L, r) => ListOf(L, r)'
  BY <1>1 DEF ListOf
<1> QED
  BY <1>2, <1>3 DEF MapInv, Listed

\* insert into a vacant slot gives a key that no earlier one equals.
LEMMA ReusedStep ==
    ASSUME MapInv, NEW v \in Values, InsertReused(v)
    PROVE  MapInv' /\ MapMoves
<1>h. PICK h : h = free_head
  OBVIOUS
<1>k. PICK k : k = <<h, slots[h].version + 1>>
  OBVIOUS
<1>1. PICK L : \E q \in [L -> Nat] : ListOf(L, q)
  BY DEF MapInv, Listed
<1>2. PICK r \in [L -> Nat] : ListOf(L, r)
  BY <1>1
<1>3. h \in DOMAIN slots /\ h \in L /\ h \notin Occupied /\ h \in 0 .. Size - 1
  BY <1>h, <1>2 DEF InsertReused, ListOf, MapInv, Shape
<1>4. slots[h].value = NoValue /\ slots[h].version \in Nat /\ slots[h].version % 2 = 0 /\ slots[h].next \in Nat
  BY <1>3 DEF Occupied, MapInv, Versions, Shape, SlotType
<1>5. Odd(slots[h].version) = slots[h].version + 1
  BY <1>4 DEF Odd
<1>6. /\ slots' = [slots EXCEPT ![h] = Slot(slots[h].version + 1, v, 0)]
      /\ free_head' = slots[h].next
      /\ dict' = With(dict, k, v)
      /\ UNCHANGED <<dead, removals>>
  BY <1>h, <1>k, <1>4, <1>5 DEF InsertReused, Remembered
<1>7. /\ DOMAIN slots' = DOMAIN slots /\ Size' = Size
      /\ slots'[h] = Slot(slots[h].version + 1, v, 0)
      /\ \A i \in DOMAIN slots : i # h => slots'[i] = slots[i]
  BY <1>3, <1>6 DEF Size
<1>8. v # NoValue /\ Occupied' = Occupied \cup {h}
  BY <1>3, <1>7, SlotMapAssumption DEF Occupied, Slot
<1>9. Shape'
  BY <1>3, <1>4, <1>6, <1>7 DEF MapInv, Shape, SlotType, Slot
<1>10. Versions'
  <2>1. slots[h].version + 1 <= 2 * removals + 1 /\ (slots[h].version + 1) % 2 = 1
    <3>1. slots[h].version <= 2 * removals + 1 /\ removals \in Nat
      BY <1>3 DEF MapInv, Versions, Shape
    <3> QED
      BY <1>4, <3>1
  <2> QED
    BY <1>6, <1>7, <1>8, <2>1 DEF MapInv, Versions, Slot
<1>11. /\ DOMAIN dict' = DOMAIN dict \cup {k} /\ dict'[k] = v
       /\ \A x \in DOMAIN dict : x # k => dict'[x] = dict[x]
  BY <1>6 DEF With
<1>12. ASSUME NEW x \in Given PROVE IsKey(x)' /\ x[1] \in DOMAIN slots /\ x # k /\ (x[1] = h => ~Current(x)) /\ (x[1] # h => (Current(x)' <=> Current(x)))
  <2>1. x \in (0 .. Size - 1) \X Nat /\ x[2] % 2 = 1 /\ x[2] <= slots[x[1]].version
    BY DEF MapInv, Live, IsKey
  <2>2. x[1] \in DOMAIN slots /\ x[2] \in Nat
    BY <2>1 DEF MapInv, Shape
  <2>3. CASE x[1] = h
    <3>1. x[2] < slots[h].version
      BY <1>4, <2>1, <2>2, <2>3
    <3>2. k[2] = slots[h].version + 1
      BY <1>k
    <3>3. x # k /\ ~Current(x)
      BY <1>4, <2>2, <2>3, <3>1, <3>2 DEF Current
    <3> QED
      BY <1>4, <1>7, <2>1, <2>2, <2>3, <3>1, <3>3 DEF IsKey, Slot
  <2>4. CASE x[1] # h
    <3>1. slots'[x[1]] = slots[x[1]] /\ k[1] = h
      BY <1>k, <1>7, <2>2, <2>4
    <3> QED
      BY <1>7, <2>1, <2>2, <2>4, <3>1 DEF IsKey, Current
  <2> QED
    BY <2>3, <2>4
<1>13. IsKey(k)' /\ Current(k)' /\ k[1] = h
  <2>1. k \in (0 .. Size - 1) \X Nat /\ k[1] = h /\ k[2] = slots[h].version + 1
    BY <1>k, <1>3, <1>4
  <2>2. (slots[h].version + 1) % 2 = 1
    BY <1>4
  <2> QED
    BY <1>7, <2>1, <2>2 DEF IsKey, Current, Slot
<1>14. Given' = Given \cup {k}
  BY <1>6, <1>11 DEF Given
<1>15. Live'
  <2>1. \A x \in Given' : IsKey(x)'
    BY <1>12, <1>13, <1>14
  <2>2. \A x \in DOMAIN dict : x[1] # h
    BY <1>12 DEF MapInv, Live, Given
  <2>3. \A x \in DOMAIN dict' : Current(x)' /\ dict'[x] = slots'[x[1]].value
    <3> SUFFICES ASSUME NEW x \in DOMAIN dict' PROVE Current(x)' /\ dict'[x] = slots'[x[1]].value
      OBVIOUS
    <3>1. CASE x = k
      BY <1>7, <1>11, <1>13, <3>1 DEF Slot
    <3>2. CASE x # k
      <4>1. x \in DOMAIN dict /\ x \in Given
        BY <1>11, <3>2 DEF Given
      <4> QED
        BY <1>7, <1>11, <1>12, <2>2, <3>2, <4>1 DEF MapInv, Live
    <3> QED
      BY <3>1, <3>2
  <2>4. \A x \in dead' : ~Current(x)'
    <3> SUFFICES ASSUME NEW x \in dead PROVE ~Current(x)'
      BY <1>6
    <3>1. x \in Given /\ ~Current(x)
      BY DEF Given, MapInv, Live
    <3>2. CASE x[1] # h
      BY <1>12, <3>1, <3>2
    <3>3. CASE x[1] = h
      <4>1. x[2] <= slots[h].version /\ x[2] \in Nat
        BY <3>1, <3>3 DEF MapInv, Live, IsKey
      <4> QED
        BY <1>4, <1>7, <3>3, <4>1 DEF Current, Slot
    <3> QED
      BY <3>2, <3>3
  <2>5. \A i \in Occupied' : <<i, slots'[i].version>> \in DOMAIN dict'
    <3> SUFFICES ASSUME NEW i \in Occupied' PROVE <<i, slots'[i].version>> \in DOMAIN dict'
      OBVIOUS
    <3>1. CASE i = h
      BY <1>7, <1>k, <1>11, <3>1 DEF Slot
    <3>2. CASE i # h
      BY <1>7, <1>8, <1>11, <3>2 DEF MapInv, Live, Occupied
    <3> QED
      BY <3>1, <3>2
  <2> QED
    BY <2>1, <2>3, <2>4, <2>5 DEF Live
<1>16. Listed'
  <2>m. PICK M : M = {i \in L : r[i] < r[h]}
    OBVIOUS
  <2>q. PICK q : q = [i \in M |-> r[i]]
    OBVIOUS
  <2>1. q \in [M -> Nat] /\ h \notin M /\ M \subseteq L
    BY <1>3, <2>m, <2>q
  <2>2. \A i \in M : slots'[i] = slots[i] /\ i \notin Occupied' /\ i \in DOMAIN slots'
    BY <1>2, <1>7, <1>8, <2>1 DEF ListOf
  <2>3. free_head' \in M \cup {Size}
    BY <1>2, <1>3, <1>6, <2>m DEF ListOf
  <2>4. \A i \in M : slots[i].next = Size \/ (slots[i].next \in M /\ q[slots[i].next] < q[i])
    <3> SUFFICES ASSUME NEW i \in M, slots[i].next # Size
                 PROVE  slots[i].next \in M /\ q[slots[i].next] < q[i]
      OBVIOUS
    <3>1. slots[i].next \in L /\ r[slots[i].next] < r[i] /\ r[i] < r[h]
      BY <1>2, <2>m DEF ListOf
    <3>2. r[slots[i].next] \in Nat /\ r[i] \in Nat /\ r[h] \in Nat
      BY <1>3, <2>m, <3>1
    <3> QED
      BY <2>m, <2>q, <3>1, <3>2
  <2>5. ListOf(M, q)'
    BY <1>7, <2>2, <2>3, <2>4 DEF ListOf
  <2> QED
    BY <2>1, <2>5 DEF Listed
<1>17. \A i \in DOMAIN slots : slots[i].version <= slots'[i].version
  <2> TAKE i \in DOMAIN slots
  <2>1. slots[i].version \in Nat
    BY DEF MapInv, Shape, SlotType
  <2>2. CASE i = h
    BY <1>4, <1>7, <2>2 DEF Slot
  <2>3. CASE i # h
    BY <1>7, <2>1, <2>3
  <2> QED
    BY <2>2, <2>3
<1>18. MapMoves
  BY <1>7, <1>11, <1>12, <1>14, <1>17 DEF MapMoves
<1> QED
  BY <1>9, <1>10, <1>15, <1>16, <1>18 DEF MapInv

\* insert into a new slot, when the list is at its end
LEMMA NewStep ==
    ASSUME MapInv, NEW v \in Values, InsertNew(v)
    PROVE  MapInv' /\ MapMoves
<1>n. PICK n : n = Size
  OBVIOUS
<1>k. PICK k : k = <<n, 1>>
  OBVIOUS
<1>1. n \in Nat /\ n >= 1 /\ DOMAIN slots = 0 .. n - 1 /\ n + 1 <= MaxIndex /\ n \notin DOMAIN slots
  BY <1>n, SlotMapAssumption DEF MapInv, Shape, InsertNew
<1>2. /\ slots' = With(slots, n, Slot(1, v, 0))
      /\ free_head' = n + 1
      /\ dict' = With(dict, k, v)
      /\ UNCHANGED <<dead, removals>>
  BY <1>n, <1>k DEF InsertNew, Remembered
<1>3. /\ DOMAIN slots' = 0 .. (n + 1) - 1
      /\ slots'[n] = Slot(1, v, 0)
      /\ \A i \in DOMAIN slots : slots'[i] = slots[i]
  <2>1. DOMAIN slots' = DOMAIN slots \cup {n}
    BY <1>2 DEF With
  <2> QED
    BY <1>1, <1>2, <2>1 DEF With
<1>4. Size' = n + 1
  BY <1>1, <1>3, SizeIs DEF Size
<1>5. v # NoValue /\ Occupied' = Occupied \cup {n}
  BY <1>1, <1>3, SlotMapAssumption DEF Occupied, Slot
<1>6. Shape'
  <2>1. \A i \in DOMAIN slots' : slots'[i] \in SlotType
    BY <1>1, <1>3 DEF MapInv, Shape, SlotType, Slot
  <2>2. slots' \in [DOMAIN slots' -> SlotType]
    BY <1>2, <2>1 DEF With
  <2> QED
    BY <1>1, <1>2, <1>3, <1>4, <2>2 DEF MapInv, Shape
<1>7. Versions'
  <2>1. removals \in Nat
    BY DEF MapInv, Shape
  <2>2. /\ slots'[n].version = 1 /\ slots'[n].value # NoValue
        /\ 1 <= 2 * removals + 1 /\ 1 % 2 = 1
    BY <1>3, <1>5, <2>1 DEF Slot
  <2>3. \A i \in DOMAIN slots' : i = n \/ i \in DOMAIN slots
    BY <1>1, <1>3
  <2> QED
    BY <1>2, <1>3, <2>2, <2>3 DEF MapInv, Versions
<1>8. /\ DOMAIN dict' = DOMAIN dict \cup {k} /\ dict'[k] = v
      /\ \A x \in DOMAIN dict : x # k => dict'[x] = dict[x]
  BY <1>2 DEF With
<1>9. ASSUME NEW x \in Given PROVE IsKey(x)' /\ x[1] \in DOMAIN slots /\ x # k /\ (Current(x)' <=> Current(x))
  <2>1. x \in (0 .. n - 1) \X Nat /\ x[2] % 2 = 1 /\ x[2] <= slots[x[1]].version
    BY <1>n DEF MapInv, Live, IsKey
  <2>2. x[1] \in DOMAIN slots /\ x \in (0 .. (n + 1) - 1) \X Nat
    BY <1>1, <2>1
  <2>3. slots'[x[1]] = slots[x[1]] /\ x[1] # n
    BY <1>1, <1>3, <2>2
  <2> QED
    BY <1>k, <1>4, <2>1, <2>2, <2>3 DEF IsKey, Current
<1>10. IsKey(k)' /\ Current(k)' /\ k[1] = n
  BY <1>k, <1>1, <1>3, <1>4 DEF IsKey, Current, Slot
<1>11. Given' = Given \cup {k}
  BY <1>2, <1>8 DEF Given
<1>12. Live'
  <2>1. \A x \in Given' : IsKey(x)'
    BY <1>9, <1>10, <1>11
  <2>2. \A x \in DOMAIN dict' : Current(x)' /\ dict'[x] = slots'[x[1]].value
    <3> SUFFICES ASSUME NEW x \in DOMAIN dict' PROVE Current(x)' /\ dict'[x] = slots'[x[1]].value
      OBVIOUS
    <3>1. CASE x = k
      BY <1>3, <1>8, <1>10, <3>1 DEF Slot
    <3>2. CASE x # k
      <4>1. x \in DOMAIN dict /\ x \in Given
        BY <1>8, <3>2 DEF Given
      <4> QED
        BY <1>3, <1>8, <1>9, <3>2, <4>1 DEF MapInv, Live
    <3> QED
      BY <3>1, <3>2
  <2>3. \A x \in dead' : ~Current(x)'
    BY <1>2, <1>9 DEF MapInv, Live, Given
  <2>4. \A i \in Occupied' : <<i, slots'[i].version>> \in DOMAIN dict'
    <3> SUFFICES ASSUME NEW i \in Occupied' PROVE <<i, slots'[i].version>> \in DOMAIN dict'
      OBVIOUS
    <3>1. CASE i = n
      BY <1>k, <1>3, <1>8, <3>1 DEF Slot
    <3>2. CASE i # n
      BY <1>3, <1>5, <1>8, <3>2 DEF MapInv, Live, Occupied
    <3> QED
      BY <3>1, <3>2
  <2> QED
    BY <2>1, <2>2, <2>3, <2>4 DEF Live
<1>13. ListOf({}, [i \in {} |-> 0])'
  BY <1>2, <1>4 DEF ListOf
<1>14. MapMoves
  <2>1. \A i \in DOMAIN slots : slots[i].version \in Nat
    BY DEF MapInv, Shape, SlotType
  <2>2. DOMAIN slots \subseteq DOMAIN slots'
    BY <1>1, <1>3
  <2> QED
    BY <1>3, <1>8, <1>9, <1>11, <2>1, <2>2 DEF MapMoves
<1> QED
  BY <1>6, <1>7, <1>12, <1>13, <1>14 DEF MapInv, Listed

\* The slots of a set are vacated: by remove or clear, whole or cut short.
LEMMA Vacated ==
    ASSUME NoWrap, MapInv, NEW cleared \in SUBSET Occupied,
           slots' \in [DOMAIN slots -> SlotType],
           \A i \in cleared : slots'[i].version = NextVersion(slots[i].version) /\ slots'[i].value = NoValue,
           \A i \in DOMAIN slots \ cleared : slots'[i] = slots[i],
           removals' \in 0 .. MaxRemovals, removals' >= removals, cleared # {} => removals' >= removals + 1,
           NEW lost, lost = {k \in DOMAIN dict : k[1] \in cleared},
           dict' = Without(dict, lost), dead' = dead \cup lost
    PROVE  Shape' /\ Versions' /\ Live' /\ Size' = Size /\ Occupied' = Occupied \ cleared
           /\ (\A i \in DOMAIN slots : slots[i].version <= slots'[i].version)
           /\ Given \subseteq Given' /\ DOMAIN dict' \subseteq DOMAIN dict
<1>1. DOMAIN slots' = DOMAIN slots /\ Size' = Size
  BY DEF Size
<1>2. Occupied' = Occupied \ cleared /\ cleared \subseteq DOMAIN slots
  BY <1>1 DEF Occupied
<1>3. Shape'
  BY <1>1 DEF MapInv, Shape
<1>4. ASSUME NEW i \in cleared
      PROVE  /\ slots[i].version \in Nat /\ slots[i].version % 2 = 1
             /\ slots'[i].version = slots[i].version + 1
             /\ slots'[i].version <= 2 * removals'
  <2>1. slots[i].version \in Nat /\ slots[i].version <= 2 * removals + 1 /\ removals \in Nat
    BY <1>2 DEF MapInv, Shape, Versions, SlotType
  <2>2. removals' >= removals + 1 /\ removals' \in Nat /\ removals' <= MaxRemovals
    OBVIOUS
  <2>3. slots[i].version + 1 \in 0 .. Word - 1
    BY <2>1, <2>2, SlotMapAssumption DEF NoWrap
  <2>4. NextVersion(slots[i].version) = slots[i].version + 1
    BY <2>3, SmallMod, SlotMapAssumption DEF NextVersion
  <2>5. slots[i].version % 2 = 1
    BY DEF MapInv, Versions, Occupied
  <2> QED
    BY <2>1, <2>2, <2>4, <2>5
<1>5. Versions'
  <2> SUFFICES ASSUME NEW i \in DOMAIN slots
               PROVE  /\ slots'[i].version <= 2 * removals' + 1
                      /\ slots'[i].value # NoValue <=> slots'[i].version % 2 = 1
    BY <1>1 DEF Versions
  <2>1. CASE i \in cleared
    <3>1. slots[i].version \in Nat /\ slots[i].version % 2 = 1 /\ slots'[i].version = slots[i].version + 1
          /\ slots'[i].version <= 2 * removals' /\ removals' \in Nat /\ slots'[i].value = NoValue
      BY <1>4, <2>1
    <3> QED
      BY <3>1
  <2>2. CASE i \notin cleared
    <3>1. /\ slots'[i] = slots[i] /\ slots[i].version \in Nat /\ slots[i].version <= 2 * removals + 1
          /\ removals \in Nat /\ removals' \in Nat
      BY <2>2 DEF MapInv, Shape, Versions, SlotType
    <3>2. slots'[i].version <= 2 * removals' + 1
      BY <3>1
    <3> QED
      BY <3>1, <3>2 DEF MapInv, Versions
  <2> QED
    BY <2>1, <2>2
<1>6. DOMAIN dict' = DOMAIN dict \ lost /\ (\A k \in DOMAIN dict' : dict'[k] = dict[k]) /\ Given' = Given
  BY DEF Without, Given
<1>7. ASSUME NEW k \in Given
      PROVE  /\ IsKey(k)'
             /\ k[1] \in cleared => ~Current(k)'
             /\ k[1] \notin cleared => slots'[k[1]] = slots[k[1]]
  <2>1. k \in (0 .. Size - 1) \X Nat /\ k[2] % 2 = 1 /\ k[2] <= slots[k[1]].version
    BY DEF MapInv, Live, IsKey
  <2>2. k[1] \in DOMAIN slots /\ k[2] \in Nat
    BY <2>1 DEF MapInv, Shape
  <2>3. CASE k[1] \in cleared
    <3>1. k[2] <= slots'[k[1]].version /\ k[2] # slots'[k[1]].version
      BY <1>4, <2>1, <2>2, <2>3
    <3> QED
      BY <1>1, <2>1, <2>2, <2>3, <3>1 DEF IsKey, Current
  <2>4. CASE k[1] \notin cleared
    BY <1>1, <2>1, <2>2, <2>4 DEF IsKey
  <2> QED
    BY <2>3, <2>4
<1>8. Live'
  <2>1. \A k \in Given' : IsKey(k)'
    BY <1>6, <1>7
  <2>2. \A k \in DOMAIN dict' : Current(k)' /\ dict'[k] = slots'[k[1]].value
    <3> SUFFICES ASSUME NEW k \in DOMAIN dict' PROVE Current(k)' /\ dict'[k] = slots'[k[1]].value
      OBVIOUS
    <3>1. k \in DOMAIN dict /\ k[1] \notin cleared /\ k \in Given
      BY <1>6 DEF Given
    <3>2. Current(k) /\ dict[k] = slots[k[1]].value
      BY <3>1 DEF MapInv, Live
    <3> QED
      BY <1>6, <1>7, <3>1, <3>2 DEF Current
  <2>3. \A k \in dead' : ~Current(k)'
    <3> SUFFICES ASSUME NEW k \in dead' PROVE ~Current(k)'
      OBVIOUS
    <3>1. k \in Given
      BY <1>6 DEF Given
    <3>2. CASE k[1] \in cleared
      BY <1>7, <3>1, <3>2
    <3>3. CASE k[1] \notin cleared
      <4>1. k \in dead
        BY <3>3
      <4> QED
        BY <1>7, <3>1, <3>3, <4>1 DEF MapInv, Live, Current
    <3> QED
      BY <3>2, <3>3
  <2>4. \A i \in Occupied' : <<i, slots'[i].version>> \in DOMAIN dict'
    <3> SUFFICES ASSUME NEW i \in Occupied' PROVE <<i, slots'[i].version>> \in DOMAIN dict'
      OBVIOUS
    <3>1. i \in Occupied /\ i \notin cleared /\ slots'[i] = slots[i]
      BY <1>2 DEF Occupied
    <3>2. <<i, slots[i].version>> \in DOMAIN dict /\ <<i, slots[i].version>> \notin lost
      BY <3>1 DEF MapInv, Live
    <3> QED
      BY <1>6, <3>1, <3>2
  <2> QED
    BY <2>1, <2>2, <2>3, <2>4 DEF Live
<1>9. \A i \in DOMAIN slots : slots[i].version <= slots'[i].version
  <2> TAKE i \in DOMAIN slots
  <2>1. slots[i].version \in Nat
    BY DEF MapInv, Shape, SlotType
  <2>2. CASE i \in cleared
    BY <1>4, <2>2
  <2>3. CASE i \notin cleared
    BY <2>1, <2>3
  <2> QED
    BY <2>2, <2>3
<1>10. Given \subseteq Given' /\ DOMAIN dict' \subseteq DOMAIN dict
  BY <1>6
<1> QED
  BY <1>1, <1>2, <1>3, <1>5, <1>8, <1>9, <1>10

\* Slots are put in front of the list, each before those put there earlier.
LEMMA ListGrows ==
    ASSUME MapInv, Size' = Size, DOMAIN slots' = DOMAIN slots,
           NEW added \in SUBSET Occupied, added \subseteq DOMAIN slots' \ Occupied',
           \A i \in DOMAIN slots \ Occupied : slots'[i] = slots[i] /\ i \notin Occupied',
           \A i \in added : \/ slots'[i].next = free_head
                            \/ slots'[i].next \in added /\ slots'[i].next < i,
           free_head' = free_head \/ free_head' \in added
    PROVE  Listed'
<1>1. PICK L : \E q \in [L -> Nat] : ListOf(L, q)
  BY DEF MapInv, Listed
<1>2. PICK r \in [L -> Nat] : ListOf(L, r)
  BY <1>1
<1>3. PICK base \in Nat : free_head \in L => r[free_head] = base
  <2>1. CASE free_head \in L
    BY <2>1
  <2>2. CASE free_head \notin L
    BY <2>2
  <2> QED
    BY <2>1, <2>2
<1>4. added \subseteq Nat /\ L \cap added = {}
  BY <1>2 DEF MapInv, Shape, Occupied, ListOf
<1>5. PICK M : M = L \cup added
  OBVIOUS
<1>6. PICK q : q = [i \in M |-> IF i \in L THEN r[i] ELSE base + 1 + i]
  OBVIOUS
<1>7. /\ q \in [M -> Nat]
      /\ \A i \in L : q[i] = r[i] /\ r[i] \in Nat
      /\ \A i \in added : q[i] = base + 1 + i
  <2>1. \A i \in L : r[i] \in Nat
    OBVIOUS
  <2>2. \A i \in added : base + 1 + i \in Nat /\ i \notin L
    BY <1>4
  <2>3. \A i \in M : (IF i \in L THEN r[i] ELSE base + 1 + i) \in Nat
    BY <1>5, <2>1, <2>2
  <2> QED
    BY <1>5, <1>6, <2>1, <2>2, <2>3
<1>8. M \subseteq DOMAIN slots' \ Occupied'
  BY <1>2, <1>5 DEF ListOf
<1>9. free_head \in L \cup {Size} /\ free_head' \in M \cup {Size}
  BY <1>2, <1>5 DEF ListOf
<1>10. ASSUME NEW i \in M PROVE slots'[i].next = Size \/ (slots'[i].next \in M /\ q[slots'[i].next] < q[i])
  <2>1. CASE i \in L
    <3>1. slots'[i] = slots[i]
      BY <1>2, <2>1 DEF ListOf
    <3>2. slots[i].next = Size \/ (slots[i].next \in L /\ r[slots[i].next] < r[i])
      BY <1>2, <2>1 DEF ListOf
    <3> QED
      BY <1>5, <1>7, <2>1, <3>1, <3>2
  <2>2. CASE i \in added /\ slots'[i].next = free_head
    <3>1. CASE free_head \in L
      <4>1. q[free_head] = base /\ q[i] = base + 1 + i /\ i \in Nat
        BY <1>3, <1>4, <1>7, <2>2, <3>1
      <4> QED
        BY <1>5, <2>2, <3>1, <4>1
    <3> QED
      BY <1>9, <2>2, <3>1
  <2>3. CASE i \in added /\ slots'[i].next \in added /\ slots'[i].next < i
    <3>1. q[i] = base + 1 + i /\ q[slots'[i].next] = base + 1 + slots'[i].next /\ i \in Nat /\ slots'[i].next \in Nat
      BY <1>4, <1>7, <2>3
    <3> QED
      BY <1>5, <2>3, <3>1
  <2> QED
    BY <1>5, <2>1, <2>2, <2>3
<1>11. ListOf(M, q)'
  BY <1>8, <1>9, <1>10 DEF ListOf
<1> QED
  BY <1>7, <1>11 DEF Listed

LEMMA RemoveStep ==
    ASSUME NoWrap, MapInv, NEW key \in Given, Remove(key)
    PROVE  MapInv' /\ MapMoves
<1>1. IsKey(key) /\ Key(key) = key
  BY KeyKept DEF MapInv, Live
<1>i. PICK i : i = key[1]
  OBVIOUS
<1>2. /\ i \in DOMAIN slots /\ slots[i].version = key[2] /\ removals < MaxRemovals
      /\ slots' = [slots EXCEPT ![i] = Slot(NextVersion(key[2]), NoValue, free_head)]
      /\ free_head' = i /\ removals' = removals + 1
      /\ dict' = Without(dict, {key}) /\ dead' = dead \cup {key}
  BY <1>1, <1>i DEF Remove
<1>3. i \in Occupied /\ key \in DOMAIN dict
  BY <1>1, <1>i, <1>2 DEF MapInv, Versions, Live, Occupied, Given, IsKey, Current
<1>4. {k \in DOMAIN dict : k[1] \in {i}} = {key}
  <2> SUFFICES ASSUME NEW k \in DOMAIN dict, k[1] = i PROVE k = key
    BY <1>i, <1>3
  <2>1. IsKey(k) /\ slots[i].version = k[2]
    BY DEF MapInv, Live, Given, Current
  <2>2. k = <<k[1], k[2]>> /\ key = <<key[1], key[2]>>
    BY <1>1, <2>1 DEF IsKey
  <2> QED
    BY <1>i, <1>2, <2>1, <2>2
<1>5. /\ slots'[i] = Slot(NextVersion(slots[i].version), NoValue, free_head)
      /\ \A j \in DOMAIN slots \ {i} : slots'[j] = slots[j]
      /\ DOMAIN slots' = DOMAIN slots
  BY <1>2
<1>6. NextVersion(slots[i].version) \in Nat /\ free_head \in Nat
  <2>1. slots[i].version \in Nat
    BY <1>2 DEF MapInv, Shape, SlotType
  <2>2. free_head \in Nat
    BY DEF MapInv, Listed, ListOf, Shape
  <2> QED
    BY <2>1, <2>2, SlotMapAssumption DEF NextVersion
<1>7. slots' \in [DOMAIN slots -> SlotType]
  BY <1>2, <1>5, <1>6 DEF MapInv, Shape, SlotType, Slot
<1>8. removals \in Nat /\ removals' \in 0 .. MaxRemovals /\ removals' >= removals + 1 /\ removals' >= removals
  BY <1>2, SlotMapAssumption DEF MapInv, Shape
<1>9. Shape' /\ Versions' /\ Live' /\ Size' = Size /\ Occupied' = Occupied \ {i}
      /\ (\A j \in DOMAIN slots : slots[j].version <= slots'[j].version)
      /\ Given \subseteq Given' /\ DOMAIN dict' \subseteq DOMAIN dict
  <2>1. slots'[i].version = NextVersion(slots[i].version) /\ slots'[i].value = NoValue
    BY <1>5 DEF Slot
  <2>2. PICK cleared : cleared = {i}
    OBVIOUS
  <2>3. PICK lost : lost = {k \in DOMAIN dict : k[1] \in cleared}
    OBVIOUS
  <2>4. cleared \in SUBSET Occupied /\ (cleared # {} => removals' >= removals + 1)
    BY <1>3, <1>8, <2>2
  <2>5. /\ \A j \in cleared : slots'[j].version = NextVersion(slots[j].version) /\ slots'[j].value = NoValue
        /\ \A j \in DOMAIN slots \ cleared : slots'[j] = slots[j]
    BY <1>5, <2>1, <2>2
  <2>6. dict' = Without(dict, lost) /\ dead' = dead \cup lost
    BY <1>2, <1>4, <2>2, <2>3
  <2>7. removals' \in 0 .. MaxRemovals /\ removals' >= removals
    BY <1>8
  <2> QED
    BY <1>7, <2>2, <2>3, <2>4, <2>5, <2>6, <2>7, Vacated
<1>10. Listed'
  <2>1. slots'[i].next = free_head
    BY <1>5 DEF Slot
  <2>2. {i} \subseteq DOMAIN slots' \ Occupied'
    BY <1>2, <1>5, <1>9
  <2>3. \A j \in DOMAIN slots \ Occupied : slots'[j] = slots[j] /\ j \notin Occupied'
    BY <1>3, <1>5, <1>9
  <2>4. {i} \in SUBSET Occupied /\ free_head' \in {i} /\ \A j \in {i} : slots'[j].next = free_head
    BY <1>2, <1>3, <2>1
  <2> QED
    BY <1>5, <1>9, <2>2, <2>3, <2>4, ListGrows
<1>11. MapMoves
  BY <1>5, <1>9 DEF MapMoves
<1> QED
  BY <1>9, <1>10, <1>11 DEF MapInv

LEMMA ClearingStep ==
    ASSUME NoWrap, MapInv, NEW last \in Nat, NEW completes \in BOOLEAN, Clearing(last, completes)
    PROVE  MapInv' /\ MapMoves
<1> DEFINE before(i, s) == {j \in s : j < i}
           head(s) == IF s = {} THEN free_head ELSE CHOOSE i \in s : \A j \in s : j <= i
<1>c. PICK cleared : cleared = {i \in Occupied : i <= last}
  OBVIOUS
<1>l. PICK listed : listed = IF completes THEN cleared ELSE cleared \ {last}
  OBVIOUS
<1>g. PICK lost : lost = {k \in DOMAIN dict : k[1] \in cleared}
  OBVIOUS
<1>1. /\ removals + Cardinality(cleared) <= MaxRemovals
      /\ slots' = [i \in DOMAIN slots |->
             IF i \in cleared
             THEN Slot(NextVersion(slots[i].version), NoValue, head(before(i, cleared)))
             ELSE slots[i]]
      /\ free_head' = head(listed)
      /\ removals' = removals + Cardinality(cleared)
      /\ dict' = Without(dict, lost) /\ dead' = dead \cup lost
  BY <1>c, <1>l, <1>g DEF Clearing
<1>2. cleared \subseteq Occupied /\ cleared \subseteq DOMAIN slots /\ cleared \subseteq 0 .. last
  BY <1>c DEF Occupied, MapInv, Shape
<1>3. IsFiniteSet(cleared) /\ Cardinality(cleared) \in Nat /\ (cleared # {} => Cardinality(cleared) >= 1)
  <2>1. IsFiniteSet(0 .. last)
    BY FS_Interval
  <2>2. IsFiniteSet(cleared)
    BY <1>2, <2>1, FS_Subset
  <2>3. Cardinality(cleared) \in Nat /\ (Cardinality(cleared) = 0 <=> cleared = {})
    BY <2>2, FS_CardinalityType, FS_EmptySet
  <2> QED
    BY <2>2, <2>3
<1>4. ASSUME NEW s \in SUBSET cleared, s # {} PROVE head(s) \in s
  <2>1. \E i \in s : \A j \in s : j <= i
    BY <1>2, <1>4, LargestMember
  <2> QED
    BY <1>4, <2>1
<1>5. ASSUME NEW i \in cleared
      PROVE  \/ head(before(i, cleared)) = free_head
             \/ head(before(i, cleared)) \in listed /\ head(before(i, cleared)) < i
  <2>1. CASE before(i, cleared) = {}
    BY <2>1
  <2>2. CASE before(i, cleared) # {}
    <3>1. head(before(i, cleared)) \in before(i, cleared)
      BY <1>4, <2>2
    <3>2. before(i, cleared) \subseteq listed
      BY <1>2, <1>l
    <3> QED
      BY <3>1, <3>2
  <2> QED
    BY <2>1, <2>2
<1>6. free_head' = free_head \/ free_head' \in listed
  <2>1. listed \subseteq cleared
    BY <1>l
  <2> QED
    BY <1>1, <1>4, <2>1
<1>7. free_head \in Nat /\ \A i \in cleared : head(before(i, cleared)) \in Nat
  <2>1. free_head \in Nat
    BY DEF MapInv, Listed, ListOf, Shape
  <2>2. listed \subseteq Nat
    BY <1>2, <1>l
  <2> QED
    BY <1>5, <2>1, <2>2
<1>h. PICK nx : nx = [i \in cleared |-> head(before(i, cleared))]
  OBVIOUS
<1>n. \A i \in cleared : nx[i] \in Nat /\ (nx[i] = free_head \/ (nx[i] \in listed /\ nx[i] < i))
  BY <1>h, <1>5, <1>7
<1>8. /\ DOMAIN slots' = DOMAIN slots
      /\ \A i \in cleared : slots'[i] = Slot(NextVersion(slots[i].version), NoValue, nx[i])
      /\ \A i \in DOMAIN slots \ cleared : slots'[i] = slots[i]
  BY <1>h, <1>1, <1>2
<1>9. \A i \in cleared : NextVersion(slots[i].version) \in Nat
  <2>1. \A i \in cleared : slots[i].version \in Nat
    BY <1>2 DEF MapInv, Shape, SlotType
  <2> QED
    BY <2>1, SlotMapAssumption DEF NextVersion
<1>10. ASSUME NEW i \in cleared
       PROVE  /\ slots'[i].version = NextVersion(slots[i].version) /\ slots'[i].value = NoValue
              /\ slots'[i].next = nx[i] /\ slots'[i] \in SlotType
  <2>1. slots'[i] = Slot(NextVersion(slots[i].version), NoValue, nx[i])
    BY <1>8
  <2>2. NextVersion(slots[i].version) \in Nat /\ nx[i] \in Nat
    BY <1>n, <1>9
  <2> QED
    BY <2>1, <2>2 DEF Slot, SlotType
<1>11. slots' \in [DOMAIN slots -> SlotType]
  <2>1. \A i \in DOMAIN slots : slots'[i] \in SlotType
    BY <1>8, <1>10 DEF MapInv, Shape
  <2> QED
    BY <1>1, <2>1
<1>12. removals' \in 0 .. MaxRemovals /\ removals' >= removals /\ (cleared # {} => removals' >= removals + 1)
  BY <1>1, <1>3, SlotMapAssumption DEF MapInv, Shape
<1>13. Shape' /\ Versions' /\ Live' /\ Size' = Size /\ Occupied' = Occupied \ cleared
       /\ (\A i \in DOMAIN slots : slots[i].version <= slots'[i].version)
       /\ Given \subseteq Given' /\ DOMAIN dict' \subseteq DOMAIN dict
  <2>1. cleared \in SUBSET Occupied /\ dict' = Without(dict, lost) /\ dead' = dead \cup lost
    BY <1>1, <1>2
  <2>2. /\ \A i \in cleared : slots'[i].version = NextVersion(slots[i].version) /\ slots'[i].value = NoValue
        /\ \A i \in DOMAIN slots \ cleared : slots'[i] = slots[i]
    BY <1>8, <1>10
  <2> QED
    BY <1>g, <1>11, <1>12, <2>1, <2>2, Vacated
<1>14. Listed'
  <2>1. listed \subseteq cleared /\ listed \in SUBSET Occupied /\ listed \subseteq DOMAIN slots' \ Occupied'
    BY <1>l, <1>2, <1>8, <1>13
  <2>2. \A i \in DOMAIN slots \ Occupied : slots'[i] = slots[i] /\ i \notin Occupied'
    BY <1>2, <1>8, <1>13
  <2>3. \A i \in listed : \/ slots'[i].next = free_head
                          \/ slots'[i].next \in listed /\ slots'[i].next < i
    BY <1>n, <1>10, <2>1
  <2> QED
    BY <1>6, <1>8, <1>13, <2>1, <2>2, <2>3, ListGrows
<1>15. MapMoves
  BY <1>8, <1>13 DEF MapMoves
<1> QED
  BY <1>13, <1>14, <1>15 DEF MapInv

LEMMA MapInvStep ==
    ASSUME NoWrap
    PROVE  MapInv /\ [Next]_vars => MapInv'
<1> SUFFICES ASSUME MapInv, [Next]_vars PROVE MapInv'
  OBVIOUS
<1>1. ASSUME NEW v \in Values, InsertReused(v) PROVE MapInv'
  BY <1>1, ReusedStep
<1>2. ASSUME NEW v \in Values, InsertNew(v) PROVE MapInv'
  BY <1>2, NewStep
<1>3. ASSUME InsertFails PROVE MapInv'
  BY <1>3, MapUntouched DEF InsertFails, History
<1>4. ASSUME NEW k \in Given, Remove(k) PROVE MapInv'
  BY <1>4, RemoveStep
<1>5. ASSUME NEW k \in Given, SecondaryRemove(k) PROVE MapInv'
  BY <1>5, MapUntouched DEF SecondaryRemove, MapState
<1>6. ASSUME NEW k \in Given, NEW v \in Values, SecondaryInsert(k, v) PROVE MapInv'
  BY <1>6, MapUntouched DEF SecondaryInsert, MapState
<1>7. ASSUME Clear PROVE MapInv'
  <2>1. PICK last : last = Size - 1
    OBVIOUS
  <2>2. last \in Nat /\ Clearing(last, TRUE)
    BY <1>7, <2>1, SlotMapAssumption DEF Clear, MapInv, Shape, Clearing
  <2> QED
    BY <2>2, ClearingStep
<1>8. ASSUME NEW i \in DOMAIN slots, ClearPanics(i) PROVE MapInv'
  <2>1. i \in Nat
    BY SlotMapAssumption DEF MapInv, Shape
  <2>2. Clearing(i, FALSE)
    BY <1>8, Zenon DEF ClearPanics
  <2> QED
    BY <2>1, <2>2, ClearingStep
<1>9. ASSUME NEW n \in Nat, NEW ks \in [1 .. n -> Given], NEW vs \in [1 .. n -> Values], GetDisjointMut(ks, vs)
      PROVE  MapInv'
  BY <1>9, MapUntouched DEF GetDisjointMut, MapState
<1>10. CASE UNCHANGED vars
  BY <1>10, MapUntouched DEF vars, MapState, History
<1> QED
  BY <1>1, <1>2, <1>3, <1>4, <1>5, <1>6, <1>7, <1>8, <1>9, <1>10, SlotMapAssumption DEF Next

\* For every sequence of inserts, removes and clears, with panics in between: a
\* key finds its value and nothing else, and finds nothing once it was removed.
THEOREM KeysAreGood ==
    ASSUME NoWrap
    PROVE  Spec => []KeysFindTheirValues
<1>1. MapInv => KeysFindTheirValues
  <2> SUFFICES ASSUME MapInv PROVE KeysFindTheirValues
    OBVIOUS
  <2>1. \A k \in Given : Key(k) = k /\ k = <<k[1], k[2]>> /\ k[1] \in DOMAIN slots
    BY KeyKept DEF MapInv, Live, IsKey, Shape
  <2>2. \A k \in DOMAIN dict : Get(k) = dict[k]
    BY <2>1 DEF Get, MapInv, Live, Current, Given
  <2>3. DeadKeysFindNothing
    BY <2>1 DEF DeadKeysFindNothing, Get, MapInv, Live, Current, Given
  <2>4. keys = DOMAIN dict
    <3>1. \A i \in Occupied : Odd(slots[i].version) = slots[i].version
      BY DEF Odd, MapInv, Versions, Occupied
    <3>2. ASSUME NEW k \in DOMAIN dict PROVE k[1] \in Occupied /\ k = <<k[1], slots[k[1]].version>>
      <4>1. IsKey(k) /\ slots[k[1]].version = k[2]
        BY DEF MapInv, Live, Given, Current
      <4>2. k[1] \in DOMAIN slots /\ slots[k[1]].version % 2 = 1
        BY <2>1, <4>1 DEF Given, IsKey
      <4> QED
        BY <2>1, <4>1, <4>2 DEF Occupied, MapInv, Versions, Given
    <3>3. \A i \in Occupied : <<i, slots[i].version>> \in DOMAIN dict
      BY DEF MapInv, Live
    <3> QED
      BY <3>1, <3>2, <3>3 DEF keys
  <2> QED
    BY <2>2, <2>3, <2>4 DEF KeysFindTheirValues
<1> QED
  BY <1>1, InitMapInv, MapInvStep, PTL DEF Spec

-----------------------------------------------------------------------------
(* The SecondaryMap                                                        *)

Entry(j) == IF j \in DOMAIN secondary THEN secondary[j] ELSE [version |-> 0, value |-> NoValue]

\* An entry has the version of a key that the map has given, and a key that is
\* still good has its own entry if it was ever used for one.
SecondaryInv ==
    /\ \A j : \/ Entry(j).version = 0
              \/ /\ j \in DOMAIN slots /\ Entry(j).version \in Nat
                 /\ Entry(j).version % 2 = 1 /\ Entry(j).version <= slots[j].version
    /\ DOMAIN shadow \subseteq Given
    /\ \A k \in DOMAIN dict \cap DOMAIN shadow : Entry(k[1]).version = k[2] /\ Entry(k[1]).value = shadow[k]

LEMMA InitSecondaryInv == Init => SecondaryInv
<1> SUFFICES ASSUME Init PROVE SecondaryInv
  OBVIOUS
<1>1. DOMAIN secondary = {} /\ DOMAIN shadow = {} /\ DOMAIN dict = {}
  BY DEF Init
<1> QED
  BY <1>1 DEF SecondaryInv, Entry

\* Two versions in less than half of their range are ordered as numbers.
LEMMA OlderIsLess ==
    ASSUME NoWrap, NEW a \in 0 .. 2 * MaxRemovals + 1, NEW b \in 1 .. 2 * MaxRemovals + 1
    PROVE  Older(a, b) <=> a < b
<1>1. Word \in Nat /\ MaxRemovals \in Nat /\ 4 * MaxRemovals + 2 <= Word
  BY SlotMapAssumption DEF NoWrap
<1>2. CASE a < b
  <2>1. a + Word - b \in 0 .. Word - 1
    BY <1>1, <1>2
  <2>2. (a + Word - b) % Word = a + Word - b
    BY <1>1, <2>1, SmallMod
  <2> QED
    BY <1>1, <1>2, <2>2 DEF Older
<1>3. CASE ~(a < b)
  <2>1. a - b \in 0 .. Word - 1 /\ a + Word - b = (a - b) + Word
    BY <1>1, <1>3
  <2>2. (a + Word - b) % Word = a - b
    BY <1>1, <2>1, SmallMod
  <2> QED
    BY <1>1, <1>3, <2>1, <2>2 DEF Older
<1> QED
  BY <1>2, <1>3

\* Steps of the SlotMap only make versions higher and keys that are new.
LEMMA MovesKeepSecondary ==
    ASSUME MapInv, MapInv', SecondaryInv, MapMoves, UNCHANGED <<secondary, shadow>>
    PROVE  SecondaryInv'
<1>1. \A j : Entry(j)' = Entry(j)
  BY DEF Entry
<1>2. ASSUME NEW j, j \in DOMAIN slots, Entry(j).version \in Nat, Entry(j).version <= slots[j].version
      PROVE  j \in DOMAIN slots' /\ Entry(j).version <= slots'[j].version
  <2>1. slots[j].version \in Nat /\ j \in DOMAIN slots' /\ slots[j].version <= slots'[j].version
    BY <1>2 DEF MapMoves, MapInv, Shape, SlotType
  <2>2. slots'[j].version \in Nat
    BY <2>1 DEF MapInv, Shape, SlotType
  <2> QED
    BY <1>2, <2>1, <2>2
<1>3. \A k \in DOMAIN dict' \cap DOMAIN shadow' : k \in DOMAIN dict \cap DOMAIN shadow
  BY DEF MapMoves, SecondaryInv
<1> QED
  BY <1>1, <1>2, <1>3 DEF SecondaryInv, MapMoves

\* A key of the map has a version within the bound.
LEMMA KeyInRange ==
    ASSUME MapInv, NEW k \in Given
    PROVE  /\ k[1] \in DOMAIN slots /\ k[2] \in 0 .. 2 * MaxRemovals + 1
           /\ k[2] % 2 = 1 /\ k[2] <= slots[k[1]].version
           /\ slots[k[1]].version \in 0 .. 2 * MaxRemovals + 1
           /\ k \in DOMAIN dict => k[2] = slots[k[1]].version
           /\ k \notin DOMAIN dict => k[2] # slots[k[1]].version
           /\ Key(k) = k /\ k = <<k[1], k[2]>>
<1>1. IsKey(k) /\ Key(k) = k /\ k = <<k[1], k[2]>>
  BY KeyKept DEF MapInv, Live, IsKey
<1>2. k[1] \in DOMAIN slots /\ k[2] \in Nat /\ k[2] % 2 = 1 /\ k[2] <= slots[k[1]].version
  BY <1>1 DEF IsKey, MapInv, Shape
<1>3. /\ slots[k[1]].version \in Nat /\ slots[k[1]].version <= 2 * removals + 1
      /\ removals \in Nat /\ removals <= MaxRemovals
  BY <1>2, SlotMapAssumption DEF MapInv, Shape, Versions, SlotType
<1>4. slots[k[1]].version \in 0 .. 2 * MaxRemovals + 1 /\ k[2] \in 0 .. 2 * MaxRemovals + 1
  BY <1>2, <1>3, SlotMapAssumption
<1> QED
  BY <1>1, <1>2, <1>4 DEF MapInv, Live, Current, Given

LEMMA SecondaryInsertStep ==
    ASSUME NoWrap, MapInv, SecondaryInv, NEW key \in Given, NEW v \in Values, SecondaryInsert(key, v)
    PROVE  SecondaryInv'
<1>i. PICK i : i = key[1]
  OBVIOUS
<1>e. PICK e : e = Entry(i).version
  OBVIOUS
<1>1. /\ i \in DOMAIN slots /\ i \in Nat /\ key[2] \in 0 .. 2 * MaxRemovals + 1 /\ key[2] % 2 = 1
      /\ key[2] <= slots[i].version /\ Key(key) = key
      /\ slots[i].version \in 0 .. 2 * MaxRemovals + 1
  BY <1>i, KeyInRange DEF MapInv, Shape
<1>2. UNCHANGED <<slots, dict, dead>> /\ Given' = Given /\ shadow' = With(shadow, key, v)
  BY DEF SecondaryInsert, MapState, Given
<1>3. e # 0 => e \in 1 .. 2 * MaxRemovals + 1 /\ e <= slots[i].version
  <2>1. e # 0 => e \in Nat /\ e <= slots[i].version
    BY <1>e DEF SecondaryInv
  <2> QED
    BY <1>1, <2>1, SlotMapAssumption
<1>4. /\ \A j : j # i => Entry(j)' = Entry(j)
      /\ IF e \notin {0, key[2]} /\ key[2] < e
         THEN Entry(i)' = Entry(i)
         ELSE Entry(i)' = [version |-> key[2], value |-> v]
  <2> DEFINE new == [version |-> key[2], value |-> v]
             grown == [j \in DOMAIN secondary \cup (0 .. i) |-> Entry(j)]
  <2>1. \A j : Stored(<<j>>) = Entry(j)
    BY DEF Stored, Entry
  <2>2. Stored(key) = Entry(i)
    BY <1>i DEF Stored, Entry
  <2>3. e \notin {0, key[2]} => (Older(key[2], e) <=> key[2] < e)
    BY <1>1, <1>3, OlderIsLess
  <2>4. secondary' = IF e \notin {0, key[2]} /\ Older(key[2], e) THEN grown ELSE [grown EXCEPT ![i] = new]
    BY <1>i, <1>e, <1>1, <2>1, <2>2 DEF SecondaryInsert
  <2>5. secondary' = IF e \notin {0, key[2]} /\ key[2] < e THEN grown ELSE [grown EXCEPT ![i] = new]
    BY <2>3, <2>4
  <2>6. i \in DOMAIN grown /\ DOMAIN grown = DOMAIN secondary \cup (0 .. i) /\ \A j \in DOMAIN grown : grown[j] = Entry(j)
    BY <1>1
  <2>7. \A j : j \notin DOMAIN grown => Entry(j) = [version |-> 0, value |-> NoValue]
    BY DEF Entry
  <2> HIDE DEF grown
  <2>8. CASE e \notin {0, key[2]} /\ key[2] < e
    <3>1. secondary' = grown
      BY <2>5, <2>8
    <3>2. \A j : Entry(j)' = Entry(j)
      BY <2>6, <2>7, <3>1 DEF Entry
    <3> QED
      BY <2>8, <3>2
  <2>9. CASE ~(e \notin {0, key[2]} /\ key[2] < e)
    <3>1. secondary' = [grown EXCEPT ![i] = new]
      BY <2>5, <2>9
    <3>2. DOMAIN secondary' = DOMAIN grown /\ secondary'[i] = new /\ \A j \in DOMAIN grown : j # i => secondary'[j] = Entry(j)
      BY <2>6, <3>1
    <3>3. Entry(i)' = new
      BY <2>6, <3>2 DEF Entry
    <3>4. \A j : j # i => Entry(j)' = Entry(j)
      BY <2>7, <3>2 DEF Entry
    <3> QED
      BY <2>9, <3>3, <3>4
  <2> QED
    BY <2>8, <2>9
<1>5. \A j : \/ Entry(j)'.version = 0
             \/ /\ j \in DOMAIN slots' /\ Entry(j)'.version \in Nat
                /\ Entry(j)'.version % 2 = 1 /\ Entry(j)'.version <= slots'[j].version
  <2> TAKE j
  <2>1. CASE Entry(j)' = Entry(j)
    BY <1>2, <2>1 DEF SecondaryInv
  <2>2. CASE j = i /\ Entry(i)' = [version |-> key[2], value |-> v]
    BY <1>1, <1>2, <2>2
  <2> QED
    BY <1>4, <2>1, <2>2
<1>6. DOMAIN shadow' = DOMAIN shadow \cup {key} /\ shadow'[key] = v /\ \A k \in DOMAIN shadow : k # key => shadow'[k] = shadow[k]
  BY <1>2 DEF With
<1>7. ASSUME NEW k \in DOMAIN dict' \cap DOMAIN shadow'
      PROVE  Entry(k[1])'.version = k[2] /\ Entry(k[1])'.value = shadow'[k]
  <2>1. k \in DOMAIN dict /\ k \in Given /\ k[2] = slots[k[1]].version
    BY <1>2, KeyInRange DEF Given
  <2>2. CASE k = key
    <3>1. key[2] = slots[i].version
      BY <1>i, <2>1, <2>2
    <3>2. ~(e \notin {0, key[2]} /\ key[2] < e)
      BY <1>1, <1>3, <3>1
    <3>3. Entry(i)' = [version |-> key[2], value |-> v]
      BY <1>4, <3>2
    <3> QED
      BY <1>i, <1>6, <2>2, <3>3
  <2>3. CASE k # key
    <3>1. Entry(k[1]).version = k[2] /\ Entry(k[1]).value = shadow[k] /\ shadow'[k] = shadow[k]
      BY <1>6, <2>1, <2>3 DEF SecondaryInv
    <3>2. CASE k[1] # i
      BY <1>4, <3>1, <3>2
    <3>3. CASE k[1] = i
      <4>1. e = slots[i].version /\ e = k[2]
        BY <1>e, <2>1, <3>1, <3>3
      <4>2. key[2] # k[2]
        BY <1>i, <2>1, <2>3, <3>3, KeyInRange
      <4>3. e # 0
        BY <2>1, <4>1, KeyInRange
      <4>4. e \notin {0, key[2]} /\ key[2] < e
        BY <1>1, <4>1, <4>2, <4>3
      <4> QED
        BY <1>4, <3>1, <3>3, <4>4
    <3> QED
      BY <3>2, <3>3
  <2> QED
    BY <2>2, <2>3
<1> QED
  BY <1>2, <1>5, <1>6, <1>7 DEF SecondaryInv

LEMMA SecondaryRemoveStep ==
    ASSUME MapInv, SecondaryInv, NEW key \in Given, SecondaryRemove(key)
    PROVE  SecondaryInv'
<1>i. PICK i : i = key[1]
  OBVIOUS
<1>1. Key(key) = key
  BY KeyInRange
<1>2. /\ UNCHANGED <<slots, dict, dead>> /\ Given' = Given /\ shadow' = Without(shadow, {key})
      /\ secondary' = [secondary EXCEPT ![i] = [version |-> 0, value |-> NoValue]]
      /\ Stored(key).version = key[2]
  BY <1>i, <1>1 DEF SecondaryRemove, MapState, Given, SecondaryGet
<1>3. Entry(i).version = key[2]
  BY <1>i, <1>2 DEF Entry, Stored
<1>4. (\A j : j # i => Entry(j)' = Entry(j)) /\ Entry(i)'.version = 0
  BY <1>2 DEF Entry
<1>5. DOMAIN shadow' = DOMAIN shadow \ {key} /\ \A k \in DOMAIN shadow' : shadow'[k] = shadow[k]
  BY <1>2 DEF Without
<1>6. ASSUME NEW k \in DOMAIN dict' \cap DOMAIN shadow'
      PROVE  Entry(k[1])'.version = k[2] /\ Entry(k[1])'.value = shadow'[k]
  <2>1. k \in DOMAIN dict \cap DOMAIN shadow /\ k # key /\ k \in Given /\ shadow'[k] = shadow[k]
    BY <1>2, <1>5 DEF Given
  <2>2. Entry(k[1]).version = k[2] /\ Entry(k[1]).value = shadow[k]
    BY <2>1 DEF SecondaryInv
  <2>3. k[1] # i
    BY <1>i, <1>3, <2>1, <2>2, KeyInRange
  <2> QED
    BY <1>4, <2>1, <2>2, <2>3
<1>7. \A j : \/ Entry(j)'.version = 0
             \/ /\ j \in DOMAIN slots' /\ Entry(j)'.version \in Nat
                /\ Entry(j)'.version % 2 = 1 /\ Entry(j)'.version <= slots'[j].version
  <2> TAKE j
  <2>1. CASE j = i
    BY <1>4, <2>1
  <2>2. CASE j # i
    <3>1. Entry(j)' = Entry(j)
      BY <1>4, <2>2
    <3> QED
      BY <1>2, <3>1 DEF SecondaryInv
  <2> QED
    BY <2>1, <2>2
<1> QED
  BY <1>2, <1>5, <1>6, <1>7 DEF SecondaryInv

\* References that are handed out together are to entries of different slots, so
\* that each entry gets what was written through its own.
LEMMA DisjointStep ==
    ASSUME MapInv, SecondaryInv, NEW n \in Nat, NEW ks \in [1 .. n -> Given],
           NEW vs \in [1 .. n -> Values], GetDisjointMut(ks, vs)
    PROVE  SecondaryInv'
<1> DEFINE at(m) == Key(ks[m])[1]
           refs(i) == {m \in DOMAIN ks : at(m) = i}
           last(ms) == CHOOSE m \in ms : \A l \in ms : l <= m
           first(k) == CHOOSE m \in DOMAIN ks : ks[m] = k /\ \A l \in 1 .. m - 1 : ks[l] # k
<1>1. /\ \A m \in 1 .. n : SecondaryGet(ks[m]) # NoValue /\ \A l \in 1 .. m - 1 : at(l) # at(m)
      /\ secondary' = [i \in DOMAIN secondary |->
             IF refs(i) = {} THEN secondary[i]
             ELSE [version |-> secondary[i].version, value |-> vs[last(refs(i))]]]
      /\ shadow' = [k \in DOMAIN shadow |->
             IF \E m \in DOMAIN ks : ks[m] = k THEN vs[first(k)] ELSE shadow[k]]
  BY DEF GetDisjointMut
<1>2. UNCHANGED <<slots, dict, dead>> /\ Given' = Given
  BY DEF GetDisjointMut, MapState, Given
<1>3. \A m \in 1 .. n : ks[m] \in Given /\ Key(ks[m]) = ks[m] /\ at(m) = ks[m][1] /\ ks[m] = <<ks[m][1], ks[m][2]>>
  BY KeyInRange
<1>4. ASSUME NEW l \in 1 .. n, NEW m \in 1 .. n, at(l) = at(m) PROVE l = m
  <2>1. l \notin 1 .. m - 1 /\ m \notin 1 .. l - 1
    BY <1>1, <1>4
  <2> QED
    BY <2>1
<1>5. ASSUME NEW m \in 1 .. n
      PROVE  /\ refs(ks[m][1]) = {m} /\ last({m}) = m /\ first(ks[m]) = m
             /\ ks[m][1] \in DOMAIN secondary /\ Entry(ks[m][1]).version = ks[m][2]
  <2>1. refs(ks[m][1]) = {m}
    BY <1>3, <1>4
  <2>2. last({m}) = m
    OBVIOUS
  <2>3. first(ks[m]) = m
    <3>1. \A l \in 1 .. n : ks[l] = ks[m] <=> l = m
      BY <1>4
    <3> QED
      BY <3>1
  <2>4. Stored(ks[m]).version = ks[m][2] /\ Stored(ks[m]).value # NoValue
    BY <1>1, <1>3 DEF SecondaryGet
  <2>5. ks[m][1] \in DOMAIN secondary
    BY <2>4 DEF Stored
  <2> QED
    BY <2>1, <2>2, <2>3, <2>4, <2>5 DEF Stored, Entry
<1> HIDE DEF first, refs, last, at
<1>6. ASSUME NEW m \in 1 .. n, NEW i, i = ks[m][1]
      PROVE  Entry(i)'.version = ks[m][2] /\ Entry(i)'.value = vs[m]
  <2>1. /\ refs(i) = {m} /\ last(refs(i)) = m /\ i \in DOMAIN secondary
        /\ secondary[i].version = ks[m][2]
    BY <1>5, <1>6 DEF Entry
  <2>2. secondary'[i] = [version |-> ks[m][2], value |-> vs[m]] /\ i \in DOMAIN secondary'
    BY <1>1, <2>1
  <2> QED
    BY <2>2 DEF Entry
<1>7. ASSUME NEW j, \A m \in 1 .. n : ks[m][1] # j
      PROVE  Entry(j)' = Entry(j)
  <2>1. refs(j) = {}
    BY <1>3, <1>7 DEF refs
  <2> QED
    BY <1>1, <2>1 DEF Entry
<1>8. ASSUME NEW j PROVE Entry(j)'.version = Entry(j).version
  <2>1. CASE \E m \in 1 .. n : ks[m][1] = j
    <3>1. PICK m \in 1 .. n : ks[m][1] = j
      BY <2>1
    <3> QED
      BY <1>5, <1>6, <3>1
  <2>2. CASE \A m \in 1 .. n : ks[m][1] # j
    BY <1>7, <2>2
  <2> QED
    BY <2>1, <2>2
<1>9. /\ DOMAIN shadow' = DOMAIN shadow
      /\ \A m \in 1 .. n : ks[m] \in DOMAIN shadow => shadow'[ks[m]] = vs[m]
      /\ \A k \in DOMAIN shadow : (\A m \in 1 .. n : ks[m] # k) => shadow'[k] = shadow[k]
  BY <1>1, <1>5
<1>10. ASSUME NEW k \in DOMAIN dict' \cap DOMAIN shadow'
       PROVE  Entry(k[1])'.version = k[2] /\ Entry(k[1])'.value = shadow'[k]
  <2>1. /\ k \in DOMAIN dict \cap DOMAIN shadow /\ k \in Given /\ k = <<k[1], k[2]>>
        /\ Entry(k[1]).version = k[2] /\ Entry(k[1]).value = shadow[k]
    BY <1>2, <1>9, KeyInRange DEF SecondaryInv, Given
  <2>2. ASSUME NEW m \in 1 .. n, ks[m][1] = k[1] PROVE ks[m] = k
    <3>1. ks[m] = <<ks[m][1], ks[m][2]>>
      BY <1>3
    <3>2. ks[m][2] = k[2]
      BY <1>5, <2>1, <2>2
    <3> QED
      BY <2>1, <2>2, <3>1, <3>2
  <2>3. CASE \E m \in 1 .. n : ks[m] = k
    <3>1. PICK m \in 1 .. n : ks[m] = k
      BY <2>3
    <3>2. Entry(k[1])'.version = ks[m][2] /\ Entry(k[1])'.value = vs[m]
      BY <1>6, <3>1
    <3>3. shadow'[ks[m]] = vs[m]
      BY <1>9, <2>1, <3>1
    <3> QED
      BY <3>1, <3>2, <3>3
  <2>4. CASE \A m \in 1 .. n : ks[m] # k
    BY <1>7, <1>9, <2>1, <2>2, <2>4
  <2> QED
    BY <2>3, <2>4
<1> QED
  BY <1>2, <1>8, <1>9, <1>10 DEF SecondaryInv

LEMMA SecondaryInvStep ==
    ASSUME NoWrap
    PROVE  MapInv /\ MapInv' /\ SecondaryInv /\ [Next]_vars => SecondaryInv'
<1> SUFFICES ASSUME MapInv, MapInv', SecondaryInv, [Next]_vars PROVE SecondaryInv'
  OBVIOUS
<1>1. ASSUME NEW v \in Values, InsertReused(v) PROVE SecondaryInv'
  BY <1>1, ReusedStep, MovesKeepSecondary DEF InsertReused, Remembered
<1>2. ASSUME NEW v \in Values, InsertNew(v) PROVE SecondaryInv'
  BY <1>2, NewStep, MovesKeepSecondary DEF InsertNew, Remembered
<1>3. ASSUME UNCHANGED <<slots, dict, dead, secondary, shadow>> PROVE SecondaryInv'
  <2>1. MapMoves
    <3>1. \A i \in DOMAIN slots : slots[i].version \in Nat
      BY DEF MapInv, Shape, SlotType
    <3> QED
      BY <1>3, <3>1 DEF MapMoves, Given
  <2> QED
    BY <1>3, <2>1, MovesKeepSecondary
<1>4. ASSUME NEW k \in Given, Remove(k) PROVE SecondaryInv'
  BY <1>4, RemoveStep, MovesKeepSecondary DEF Remove
<1>5. ASSUME NEW last \in Nat, NEW completes \in BOOLEAN, Clearing(last, completes) PROVE SecondaryInv'
  <2>1. UNCHANGED <<secondary, shadow>>
    BY <1>5 DEF Clearing
  <2> QED
    BY <1>5, <2>1, ClearingStep, MovesKeepSecondary
<1>6. ASSUME Clear PROVE SecondaryInv'
  <2>1. PICK last : last = Size - 1
    OBVIOUS
  <2>2. last \in Nat /\ Clearing(last, TRUE)
    BY <1>6, <2>1, SlotMapAssumption DEF Clear, MapInv, Shape, Clearing
  <2> QED
    BY <1>5, <2>2
<1>7. ASSUME NEW i \in DOMAIN slots, ClearPanics(i) PROVE SecondaryInv'
  <2>1. i \in Nat
    BY SlotMapAssumption DEF MapInv, Shape
  <2>2. Clearing(i, FALSE)
    BY <1>7, Zenon DEF ClearPanics
  <2> QED
    BY <1>5, <2>1, <2>2
<1>8. ASSUME InsertFails PROVE SecondaryInv'
  BY <1>3, <1>8 DEF InsertFails, History
<1>9. CASE UNCHANGED vars
  BY <1>3, <1>9 DEF vars, MapState, History
<1>10. ASSUME NEW n \in 1 .. MaxCount, NEW ks \in [1 .. n -> Given], NEW vs \in [1 .. n -> Values],
              GetDisjointMut(ks, vs)
       PROVE  SecondaryInv'
  BY <1>10, DisjointStep, SlotMapAssumption
<1> QED
  BY <1>1, <1>2, <1>4, <1>6, <1>7, <1>8, <1>9, <1>10, SecondaryInsertStep, SecondaryRemoveStep DEF Next

\* What was stored under a key that is still good stays under it, whichever old
\* keys of its slot are used in between, and whatever is written through the
\* other references of an array that get_disjoint_mut hands out.
THEOREM SecondaryKeepsTheirs ==
    ASSUME NoWrap
    PROVE  Spec => []GoodKeysKeepTheirs
<1> DEFINE Inv == MapInv /\ SecondaryInv
<1>1. Init => Inv
  BY InitMapInv, InitSecondaryInv
<1>2. Inv /\ [Next]_vars => Inv'
  BY MapInvStep, SecondaryInvStep
<1>3. Inv => GoodKeysKeepTheirs
  <2> SUFFICES ASSUME Inv PROVE GoodKeysKeepTheirs
    OBVIOUS
  <2> SUFFICES ASSUME NEW k \in DOMAIN dict \cap DOMAIN shadow PROVE SecondaryGet(k) = shadow[k]
    BY DEF GoodKeysKeepTheirs
  <2>1. Entry(k[1]).version = k[2] /\ Entry(k[1]).value = shadow[k] /\ Key(k) = k
    BY KeyInRange DEF SecondaryInv, Given
  <2>2. Stored(k) = Entry(k[1])
    BY DEF Stored, Entry
  <2> QED
    BY <2>1, <2>2 DEF SecondaryGet
<1> QED
  BY <1>1, <1>2, <1>3, PTL DEF Spec

-----------------------------------------------------------------------------
(* The list of vacant slots.                                               *)
(*                                                                         *)
(* Listed says that the list ends; that it misses no slot needs to know    *)
(* how long it is.  The slots on it are ranked from its end, without a     *)
(* gap (RankedList), so that the walk from the head meets them all.  No    *)
(* version is compared here, so versions may wrap.                         *)

Vacant == (DOMAIN slots \ Occupied) \ {0}

RankedList(L, r) ==
    /\ L \subseteq Vacant /\ (~panicked => L = Vacant)
    /\ \A i, j \in L : r[i] = r[j] => i = j
    /\ \/ L = {} /\ free_head = Size
       \/ free_head \in L /\ r[free_head] = Cardinality(L)
    /\ \A i \in L : IF r[i] = 1 THEN slots[i].next = Size
                    ELSE slots[i].next \in L /\ r[slots[i].next] = r[i] - 1

Ranked == \E L \in SUBSET Vacant : \E r \in [L -> 1 .. Cardinality(L)] : RankedList(L, r)

\* Slot 0 is never used, and the version of a slot tells whether it is occupied.
Parity ==
    /\ slots[0].value = NoValue
    /\ \A i \in DOMAIN slots : slots[i].value # NoValue <=> slots[i].version % 2 = 1

Counted == len \in Nat /\ Cardinality(Occupied) <= len /\ (~panicked => Cardinality(Occupied) = len)

Keyed == \A k \in Given : k[1] \in Nat /\ k[2] \in Nat

ListInv == Shape /\ panicked \in BOOLEAN /\ Ranked /\ Parity /\ Counted /\ Keyed

\* Sets of slots are finite and smaller than the map.
LEMMA SlotSets ==
    ASSUME Shape
    PROVE  /\ Size \in Nat /\ Size >= 1 /\ Size \notin DOMAIN slots /\ 0 \in DOMAIN slots
           /\ IsFiniteSet(DOMAIN slots) /\ Cardinality(DOMAIN slots) = Size
           /\ \A S \in SUBSET (DOMAIN slots) :
                IsFiniteSet(S) /\ Cardinality(S) \in 0 .. Size /\ (Cardinality(S) = 0 <=> S = {})
<1>1. Size \in Nat /\ Size >= 1 /\ DOMAIN slots = 0 .. Size - 1
  BY SlotMapAssumption DEF Shape
<1>2. IsFiniteSet(DOMAIN slots) /\ Cardinality(DOMAIN slots) = Size
  BY <1>1, SizeIs
<1>3. ASSUME NEW S \in SUBSET (DOMAIN slots)
      PROVE  IsFiniteSet(S) /\ Cardinality(S) \in 0 .. Size /\ (Cardinality(S) = 0 <=> S = {})
  <2>1. IsFiniteSet(S) /\ Cardinality(S) <= Size
    BY <1>2, FS_Subset
  <2>2. Cardinality(S) \in Nat
    BY <2>1, FS_CardinalityType
  <2> QED
    BY <1>1, <2>1, <2>2, FS_EmptySet
<1> QED
  BY <1>1, <1>2, <1>3

\* The versions are words, and a word of an even range keeps its parity when it wraps.
LEMMA WrapsEven ==
    ASSUME NEW v \in Nat
    PROVE  /\ NextVersion(v) \in Nat /\ NextVersion(v) % 2 = (v + 1) % 2
           /\ Odd(v) \in Nat /\ Odd(v) % 2 = 1
<1>1. Word \in Nat /\ Word > 0
  BY SlotMapAssumption
<1>2. PICK h \in Int : Word = 2 * h
  <2>1. Word % 2 = 0
    BY SlotMapAssumption
  <2> QED
    BY <1>1, <2>1
<1>3. PICK q \in Int, e \in Nat : v + 1 = q * Word + e /\ e = (v + 1) % Word
  <2>1. (v + 1) \div Word \in Int /\ (v + 1) % Word \in Nat
    BY <1>1
  <2>2. v + 1 = Word * ((v + 1) \div Word) + ((v + 1) % Word)
    BY <1>1
  <2>3. v + 1 = ((v + 1) \div Word) * Word + ((v + 1) % Word)
    BY <1>1, <2>1, <2>2
  <2> QED
    BY <2>1, <2>3
<1>4. e % 2 = (v + 1) % 2
  <2>1. PICK g \in Int : g = q * h
    OBVIOUS
  <2>2. q * Word = 2 * g
    BY <1>2, <2>1
  <2>3. v + 1 = 2 * g + e
    BY <1>3, <2>2
  <2> QED
    BY <2>3
<1>5. Odd(v) \in Nat /\ Odd(v) % 2 = 1
  BY DEF Odd
<1> QED
  BY <1>3, <1>4, <1>5 DEF NextVersion

\* Distinct ranks from 1 to the number of the ranked leave none out.
LEMMA RanksAreTaken ==
    ASSUME NEW L, IsFiniteSet(L), NEW r \in [L -> 1 .. Cardinality(L)],
           \A i, j \in L : r[i] = r[j] => i = j
    PROVE  \A k \in 1 .. Cardinality(L) : \E i \in L : r[i] = k
<1>1. PICK m \in Nat : m = Cardinality(L)
  BY FS_CardinalityType
<1>2. IsFiniteSet(1 .. m) /\ Cardinality(1 .. m) = m
  <2>1. IsFiniteSet(1 .. m) /\ Cardinality(1 .. m) = IF 1 > m THEN 0 ELSE m - 1 + 1
    BY FS_Interval
  <2> QED
    BY <2>1
<1>3. r \in Injection(L, 1 .. m)
  BY <1>1 DEF Injection, IsInjective
<1>4. r \in Surjection(L, 1 .. m)
  BY <1>1, <1>2, <1>3, FS_Injection
<1> QED
  BY <1>1, <1>4 DEF Surjection

\* The walk from h through the slots in D, n steps at a time
Walked(N, D, h, s) ==
    CHOOSE f : f = [n \in 0 .. N |-> IF n = 0 THEN h
                                    ELSE LET i == f[n - 1] IN IF i \in D THEN s[i].next ELSE i]

\* L is ranked down from h, without a gap, to the end N.
Descends(N, D, h, s, L, m, r) ==
    /\ N \in Nat /\ N \notin D /\ L \in SUBSET D /\ m \in 0 .. N /\ r \in [L -> 1 .. m]
    /\ \A i, j \in L : r[i] = r[j] => i = j
    /\ \A k \in 1 .. m : \E i \in L : r[i] = k
    /\ (L = {} /\ h = N) \/ (h \in L /\ r[h] = m)
    /\ \A i \in L : IF r[i] = 1 THEN s[i].next = N
                    ELSE s[i].next \in L /\ r[s[i].next] = r[i] - 1

\* After n steps the walk is at the slot of rank m - n, and from the m-th step on
\* at the end.
LEMMA Walk ==
    ASSUME NEW N, NEW D, NEW h, NEW s, NEW L, NEW m, NEW r, Descends(N, D, h, s, L, m, r),
           NEW after, after = Walked(N, D, h, s)
    PROVE  \A n \in 0 .. N : IF n < m THEN after[n] \in L /\ r[after[n]] = m - n ELSE after[n] = N
<1> USE DEF Descends
<1> DEFINE from(f) == [n \in 0 .. N |-> IF n = 0 THEN h
                                       ELSE LET i == f[n - 1] IN IF i \in D THEN s[i].next ELSE i]
           stands(n, i) == IF n < m THEN i \in L /\ r[i] = m - n ELSE i = N
<1>0. L = {} <=> m = 0
  OBVIOUS
<1>1. stands(0, h)
  BY <1>0
<1>2. ASSUME NEW n \in 1 .. N, NEW i, stands(n - 1, i)
      PROVE  stands(n, IF i \in D THEN s[i].next ELSE i)
  <2>1. CASE n - 1 < m
    <3>1. i \in L /\ i \in D /\ r[i] = m - (n - 1) /\ r[i] \in 1 .. m
      BY <1>2, <2>1
    <3>2. CASE n < m
      <4>1. r[i] # 1 /\ r[i] - 1 = m - n
        BY <3>1, <3>2
      <4> QED
        BY <3>1, <3>2, <4>1
    <3>3. CASE ~(n < m)
      <4>1. r[i] = 1
        BY <2>1, <3>1, <3>3
      <4> QED
        BY <3>1, <3>3, <4>1
    <3> QED
      BY <3>2, <3>3
  <2>2. CASE ~(n - 1 < m)
    BY <1>2, <2>2
  <2> QED
    BY <2>1, <2>2
<1>3. \A n \in 0 .. N : \A i, j : stands(n, i) /\ stands(n, j) => i = j
  OBVIOUS
<1>4. \A n \in 0 .. N : \E i : stands(n, i)
  OBVIOUS
<1>5. PICK g : g = [n \in 0 .. N |-> CHOOSE i : stands(n, i)]
  OBVIOUS
<1>6. \A n \in 0 .. N : stands(n, g[n])
  <2> HIDE DEF stands
  <2> SUFFICES ASSUME NEW n \in 0 .. N PROVE stands(n, g[n])
    OBVIOUS
  <2>1. \E i : stands(n, i)
    BY <1>4
  <2>2. stands(n, CHOOSE i : stands(n, i))
    BY <2>1, Zenon
  <2> QED
    BY <1>5, <2>2
<1>7. g = from(g)
  <2>1. ASSUME NEW n \in 0 .. N PROVE g[n] = from(g)[n]
    <3>1. CASE n = 0
      <4>1. from(g)[n] = h
        BY <3>1
      <4> HIDE DEF stands, from
      <4>2. stands(n, g[n]) /\ stands(n, h)
        BY <1>1, <1>6, <3>1
      <4> QED
        BY <1>3, <4>1, <4>2
    <3>2. CASE n # 0
      <4>1. n \in 1 .. N /\ n - 1 \in 0 .. N
        BY <3>2
      <4>2. from(g)[n] = IF g[n - 1] \in D THEN s[g[n - 1]].next ELSE g[n - 1]
        BY <4>1
      <4> HIDE DEF stands, from
      <4>3. stands(n, g[n]) /\ stands(n - 1, g[n - 1])
        BY <1>6, <4>1
      <4>4. stands(n, IF g[n - 1] \in D THEN s[g[n - 1]].next ELSE g[n - 1])
        BY <1>2, <4>1, <4>3
      <4> QED
        BY <1>3, <4>2, <4>3, <4>4
    <3> QED
      BY <3>1, <3>2
  <2>2. g = [n \in 0 .. N |-> g[n]]
    BY <1>5
  <2>3. from(g) = [n \in 0 .. N |-> from(g)[n]]
    OBVIOUS
  <2> HIDE DEF from
  <2> QED
    BY <2>1, <2>2, <2>3
<1>8. after = from(after)
  <2>1. after = CHOOSE f : f = from(f)
    BY DEF Walked
  <2> HIDE DEF from
  <2> QED
    BY <1>7, <2>1, Zenon
<1>9. after[0] = h /\ \A n \in 1 .. N : after[n] = IF after[n - 1] \in D THEN s[after[n - 1]].next ELSE after[n - 1]
  <2>1. ASSUME NEW n \in 0 .. N PROVE from(after)[n] = IF n = 0 THEN h
                                       ELSE IF after[n - 1] \in D THEN s[after[n - 1]].next ELSE after[n - 1]
    OBVIOUS
  <2> HIDE DEF from
  <2>2. \A n \in 0 .. N : after[n] = from(after)[n]
    BY <1>8
  <2>3. after[0] = h
    <3>1. 0 \in 0 .. N
      OBVIOUS
    <3> QED
      BY <2>1, <2>2, <3>1
  <2>4. ASSUME NEW n \in 1 .. N
        PROVE  after[n] = IF after[n - 1] \in D THEN s[after[n - 1]].next ELSE after[n - 1]
    <3>1. n \in 0 .. N /\ n # 0
      OBVIOUS
    <3>2. after[n] = from(after)[n]
      BY <2>2, <3>1
    <3> QED
      BY <2>1, <3>1, <3>2
  <2> QED
    BY <2>3, <2>4
\* The first step at which the walk leaves the list's order is none.
<1>10. \A n \in 0 .. N : stands(n, after[n])
  <2> DEFINE less == OpToRel(<, Nat)
             astray == {n \in 0 .. N : ~stands(n, after[n])}
  <2> HIDE DEF stands, less
  <2>1. SUFFICES ASSUME astray # {} PROVE FALSE
    OBVIOUS
  <2>2. astray \subseteq Nat
    OBVIOUS
  <2>3. IsWellFoundedOn(less, Nat)
    BY NatLessThanWellFounded DEF less
  <2>4. PICK n \in astray : \A k \in astray : ~(<<k, n>> \in less)
    <3> HIDE DEF astray
    <3> QED
      BY <2>1, <2>2, <2>3, WFMin
  <2>5. \A k \in astray : ~(k < n)
    BY <2>2, <2>4 DEF less, OpToRel
  <2>6. CASE n = 0
    BY <1>1, <1>9, <2>6
  <2>7. CASE n # 0
    <3>1. n \in 1 .. N /\ n - 1 \in 0 .. N /\ n - 1 < n
      BY <2>7
    <3>2. stands(n - 1, after[n - 1])
      BY <2>5, <3>1
    <3>3. stands(n, after[n])
      BY <1>2, <1>9, <3>1, <3>2
    <3> QED
      BY <3>3
  <2> QED
    BY <2>6, <2>7
<1> QED
  BY <1>10

\* What the invariant says is what the walk finds.
LEMMA RankedIsSound == ListInv => FreeListIsSound
<1> SUFFICES ASSUME ListInv PROVE FreeListIsSound
  OBVIOUS
<1> DEFINE after[n \in 0 .. Size] == IF n = 0 THEN free_head
                                     ELSE LET i == after[n - 1] IN IF i \in DOMAIN slots THEN slots[i].next ELSE i
           listed == {after[n] : n \in 0 .. Size} \cap DOMAIN slots
           vacant == (DOMAIN slots \ Occupied) \ {0}
<1>0. PICK L \in SUBSET Vacant : \E q \in [L -> 1 .. Cardinality(L)] : RankedList(L, q)
  BY DEF ListInv, Ranked
<1>1. PICK r \in [L -> 1 .. Cardinality(L)] : RankedList(L, r)
  BY <1>0
<1>2. /\ Size \in Nat /\ Size \notin DOMAIN slots
      /\ L \in SUBSET (DOMAIN slots) /\ IsFiniteSet(L) /\ Cardinality(L) \in 0 .. Size
  BY <1>1, SlotSets DEF ListInv, Vacant
<1>3. PICK m \in 0 .. Size : m = Cardinality(L)
  BY <1>2
<1>4. \A k \in 1 .. m : \E i \in L : r[i] = k
  BY <1>1, <1>2, <1>3, RanksAreTaken DEF RankedList
<1>5. /\ r \in [L -> 1 .. m]
      /\ \A i, j \in L : r[i] = r[j] => i = j
      /\ (L = {} /\ free_head = Size) \/ (free_head \in L /\ r[free_head] = m)
      /\ \A i \in L : IF r[i] = 1 THEN slots[i].next = Size
                      ELSE slots[i].next \in L /\ r[slots[i].next] = r[i] - 1
  BY <1>1, <1>3 DEF RankedList
<1>6. \A n \in 0 .. Size : IF n < m THEN after[n] \in L /\ r[after[n]] = m - n ELSE after[n] = Size
  <2>1. after = Walked(Size, DOMAIN slots, free_head, slots)
    BY DEF Walked
  <2>2. Descends(Size, DOMAIN slots, free_head, slots, L, m, r)
    BY <1>2, <1>4, <1>5 DEF Descends
  <2> HIDE DEF after
  <2> QED
    BY <2>1, <2>2, Walk
<1> HIDE DEF after
<1>7. listed = L
  <2>1. ASSUME NEW n \in 0 .. Size, after[n] \in DOMAIN slots PROVE after[n] \in L
    BY <1>2, <1>6, <2>1
  <2>2. ASSUME NEW i \in L PROVE \E n \in 0 .. Size : after[n] = i
    <3>1. r[i] \in 1 .. m
      BY <1>5
    <3>2. PICK n \in 0 .. Size : n = m - r[i] /\ n < m
      BY <1>2, <3>1
    <3>3. after[n] \in L /\ r[after[n]] = r[i]
      BY <1>6, <3>1, <3>2
    <3> QED
      BY <1>5, <3>3
  <2> QED
    BY <1>2, <2>1, <2>2
<1>8. after[Size] = Size
  BY <1>2, <1>6
<1>9. Occupied = {i \in DOMAIN slots : slots[i].version % 2 = 1}
  BY DEF ListInv, Parity, Occupied
<1>10. Vacant = vacant /\ listed \subseteq vacant /\ (~panicked => listed = vacant)
  BY <1>1, <1>7 DEF Vacant, RankedList
<1>11. Cardinality(Occupied) <= len /\ (~panicked => Cardinality(Occupied) = len)
  BY DEF ListInv, Counted
<1> HIDE DEF listed, vacant
<1>12. /\ listed \subseteq vacant
       /\ after[Size] = Size
       /\ Occupied = {i \in DOMAIN slots : slots[i].version % 2 = 1}
       /\ Cardinality(Occupied) <= len
       /\ ~panicked => listed = vacant /\ Cardinality(Occupied) = len
  BY <1>8, <1>9, <1>10, <1>11
<1> USE DEF after, listed, vacant
<1> QED
  BY <1>12 DEF FreeListIsSound

LEMMA InitListInv == Init => ListInv
<1> SUFFICES ASSUME Init PROVE ListInv
  OBVIOUS
<1>1. DOMAIN slots = {0} /\ slots[0] = Slot(0, NoValue, 0)
  BY DEF Init
<1>2. Size = 1
  BY <1>1, FS_Singleton DEF Size
<1>3. Shape
  BY <1>1, <1>2, SlotMapAssumption DEF Init, Shape, SlotType, Slot
<1>4. Parity /\ Occupied = {} /\ Vacant = {}
  BY <1>1, SlotMapAssumption DEF Parity, Slot, Occupied, Vacant
<1>5. Ranked
  <2>1. [i \in {} |-> 0] \in [{} -> 1 .. Cardinality({})]
    OBVIOUS
  <2>2. RankedList({}, [i \in {} |-> 0])
    BY <1>2, <1>4 DEF Init, RankedList
  <2> QED
    BY <2>1, <2>2 DEF Ranked
<1>6. Counted /\ Keyed
  BY <1>4, FS_EmptySet DEF Init, Counted, Keyed, Given
<1> QED
  BY <1>3, <1>4, <1>5, <1>6 DEF Init, ListInv

\* What leaves the map alone leaves its list alone.
LEMMA ListUntouched ==
    ASSUME ListInv, UNCHANGED <<slots, free_head, removals, Given>>,
           panicked' \in BOOLEAN, panicked => panicked',
           (len' = len /\ panicked' = panicked) \/ (len' = len + 1 /\ panicked')
    PROVE  ListInv'
<1>1. Size' = Size /\ Occupied' = Occupied /\ Vacant' = Vacant
  BY DEF Size, Occupied, Vacant
<1>2. Shape' /\ Parity' /\ Keyed'
  BY <1>1 DEF ListInv, Shape, Parity, Keyed
<1>3. \A L, r : RankedList(L, r) => RankedList(L, r)'
  BY <1>1 DEF RankedList
<1>4. Ranked'
  BY <1>1, <1>3 DEF ListInv, Ranked
<1>5. Counted'
  <2>1. Cardinality(Occupied) \in Nat
    BY SlotSets DEF ListInv, Occupied
  <2> QED
    BY <1>1, <2>1 DEF ListInv, Counted
<1> QED
  BY <1>2, <1>4, <1>5 DEF ListInv

\* insert takes the first slot off the list, the one of the highest rank.
LEMMA ListReused ==
    ASSUME ListInv, NEW v \in Values, InsertReused(v)
    PROVE  ListInv'
<1>0. PICK L \in SUBSET Vacant : \E q \in [L -> 1 .. Cardinality(L)] : RankedList(L, q)
  BY DEF ListInv, Ranked
<1>1. PICK r \in [L -> 1 .. Cardinality(L)] : RankedList(L, r)
  BY <1>0
<1>h. PICK h : h = free_head
  OBVIOUS
<1>2. Size \in Nat /\ Size \notin DOMAIN slots /\ IsFiniteSet(L) /\ IsFiniteSet(Occupied)
  BY SlotSets DEF ListInv, Vacant, Occupied
<1>3. PICK m \in Nat : m = Cardinality(L)
  BY <1>2, FS_CardinalityType
<1>4. /\ h \in L /\ h \in Vacant /\ h \in DOMAIN slots /\ h \notin Occupied /\ h # 0
      /\ r[h] = m /\ m >= 1
      /\ \A i \in L : r[i] \in 1 .. m /\ (r[i] = m => i = h)
  BY <1>1, <1>2, <1>3, <1>h DEF InsertReused, RankedList, Vacant
<1>5. slots[h].value = NoValue /\ slots[h].version \in Nat /\ slots[h].next \in Nat
  BY <1>4 DEF Occupied, ListInv, Shape, SlotType
<1>6. PICK version \in Nat : version = Odd(slots[h].version) /\ version % 2 = 1
  BY <1>5, WrapsEven
<1>7. /\ slots' = [slots EXCEPT ![h] = Slot(version, v, 0)]
      /\ free_head' = slots[h].next
      /\ dict' = With(dict, <<h, version>>, v)
      /\ len' = len + 1
      /\ UNCHANGED <<dead, removals, panicked>>
  BY <1>h, <1>5, <1>6 DEF InsertReused, Remembered
<1>8. /\ DOMAIN slots' = DOMAIN slots /\ Size' = Size
      /\ slots'[h] = Slot(version, v, 0)
      /\ \A i \in DOMAIN slots : i # h => slots'[i] = slots[i]
  BY <1>4, <1>7 DEF Size
<1>9. v # NoValue /\ Occupied' = Occupied \cup {h} /\ Vacant' = Vacant \ {h}
  BY <1>4, <1>8, SlotMapAssumption DEF Occupied, Vacant, Slot
<1>10. Shape'
  BY <1>4, <1>7, <1>8 DEF ListInv, Shape, SlotType, Slot
<1>11. Parity'
  <2>1. slots'[0].value = NoValue
    BY <1>4, <1>8, SlotSets DEF ListInv, Parity
  <2>2. slots'[h].value # NoValue /\ slots'[h].version % 2 = 1
    BY <1>6, <1>8, <1>9 DEF Slot
  <2> QED
    BY <1>8, <2>1, <2>2 DEF ListInv, Parity
<1>12. Ranked'
  <2>1. PICK M : M = L \ {h}
    OBVIOUS
  <2>2. PICK q : q = [i \in M |-> r[i]]
    OBVIOUS
  <2>3. Cardinality(M) = m - 1 /\ IsFiniteSet(M)
    BY <1>2, <1>3, <1>4, <2>1, FS_RemoveElement
  <2>4. q \in [M -> 1 .. Cardinality(M)]
    <3>1. \A i \in M : r[i] \in 1 .. m - 1
      BY <1>4, <2>1
    <3> QED
      BY <2>2, <2>3, <3>1
  <2>5. M \in SUBSET Vacant' /\ (~panicked' => M = Vacant')
    BY <1>1, <1>7, <1>9, <2>1 DEF RankedList
  <2>6. \A i, j \in M : q[i] = q[j] => i = j
    BY <1>1, <2>1, <2>2 DEF RankedList
  <2>7. \A i \in M : slots'[i] = slots[i] /\ q[i] = r[i]
    BY <1>1, <1>8, <2>1, <2>2 DEF Vacant
  <2>8. \A i \in L : r[i] # 1 => slots[i].next \in M /\ q[slots[i].next] = r[i] - 1
    <3> SUFFICES ASSUME NEW i \in L, r[i] # 1 PROVE slots[i].next \in M /\ q[slots[i].next] = r[i] - 1
      OBVIOUS
    <3>1. slots[i].next \in L /\ r[slots[i].next] = r[i] - 1
      BY <1>1 DEF RankedList
    <3>2. r[slots[i].next] # m
      BY <1>4, <3>1
    <3> QED
      BY <1>4, <2>1, <2>2, <3>1, <3>2
  <2>9. \A i \in M : IF q[i] = 1 THEN slots'[i].next = Size'
                     ELSE slots'[i].next \in M /\ q[slots'[i].next] = q[i] - 1
    <3>1. \A i \in M : r[i] = 1 => slots[i].next = Size
      BY <1>1, <2>1 DEF RankedList
    <3> QED
      BY <1>8, <2>1, <2>7, <2>8, <3>1
  <2>10. \/ M = {} /\ free_head' = Size'
         \/ free_head' \in M /\ q[free_head'] = Cardinality(M)
    <3>1. CASE m = 1
      <4>1. M = {}
        BY <2>3, <3>1, FS_EmptySet
      <4>2. slots[h].next = Size
        BY <1>1, <1>4, <3>1 DEF RankedList
      <4> QED
        BY <1>7, <1>8, <4>1, <4>2
    <3>2. CASE m # 1
      BY <1>4, <1>7, <2>3, <2>8, <3>2
    <3> QED
      BY <3>1, <3>2
  <2>11. RankedList(M, q)'
    BY <2>5, <2>6, <2>9, <2>10 DEF RankedList
  <2> QED
    BY <2>4, <2>5, <2>11 DEF Ranked
<1>13. Counted'
  <2>1. Cardinality(Occupied') = Cardinality(Occupied) + 1 /\ Cardinality(Occupied) \in Nat
    BY <1>2, <1>4, <1>9, FS_AddElement, FS_CardinalityType
  <2> QED
    BY <1>7, <2>1 DEF ListInv, Counted
<1>14. Keyed'
  <2>1. Given' = Given \cup {<<h, version>>}
    BY <1>7 DEF Given, With
  <2>2. h \in Nat
    BY <1>4, SlotMapAssumption DEF ListInv, Shape
  <2> QED
    BY <2>1, <2>2 DEF ListInv, Keyed
<1> QED
  BY <1>7, <1>10, <1>11, <1>12, <1>13, <1>14 DEF ListInv

\* insert makes a slot when the list is at its end, where it stays.
LEMMA ListNew ==
    ASSUME ListInv, NEW v \in Values, InsertNew(v)
    PROVE  ListInv'
<1>0. PICK L \in SUBSET Vacant : \E q \in [L -> 1 .. Cardinality(L)] : RankedList(L, q)
  BY DEF ListInv, Ranked
<1>1. PICK r \in [L -> 1 .. Cardinality(L)] : RankedList(L, r)
  BY <1>0
<1>n. PICK n : n = Size
  OBVIOUS
<1>2. /\ n \in Nat /\ n >= 1 /\ DOMAIN slots = 0 .. n - 1 /\ n + 1 <= MaxIndex /\ n \notin DOMAIN slots
      /\ IsFiniteSet(Occupied) /\ 0 \in DOMAIN slots
  BY <1>n, SlotMapAssumption, SlotSets DEF ListInv, Shape, InsertNew, Occupied
<1>3. L = {}
  BY <1>1 DEF InsertNew, RankedList, Vacant
<1>4. /\ slots' = With(slots, n, Slot(1, v, 0))
      /\ free_head' = n + 1
      /\ dict' = With(dict, <<n, 1>>, v)
      /\ len' = len + 1
      /\ UNCHANGED <<dead, removals, panicked>>
  BY <1>n DEF InsertNew, Remembered
<1>5. /\ DOMAIN slots' = 0 .. (n + 1) - 1
      /\ slots'[n] = Slot(1, v, 0)
      /\ \A i \in DOMAIN slots : slots'[i] = slots[i]
  <2>1. DOMAIN slots' = DOMAIN slots \cup {n}
    BY <1>4 DEF With
  <2> QED
    BY <1>2, <1>4, <2>1 DEF With
<1>6. Size' = n + 1
  BY <1>2, <1>5, SizeIs DEF Size
<1>7. v # NoValue /\ Occupied' = Occupied \cup {n} /\ Vacant' = Vacant /\ n \notin Occupied
  BY <1>2, <1>5, SlotMapAssumption DEF Occupied, Vacant, Slot
<1>8. Shape'
  <2>1. \A i \in DOMAIN slots' : slots'[i] \in SlotType
    BY <1>2, <1>5 DEF ListInv, Shape, SlotType, Slot
  <2>2. slots' \in [DOMAIN slots' -> SlotType]
    BY <1>4, <2>1 DEF With
  <2> QED
    BY <1>2, <1>4, <1>5, <1>6, <2>2 DEF ListInv, Shape
<1>9. Parity'
  <2>1. slots'[0].value = NoValue
    BY <1>2, <1>5 DEF ListInv, Parity
  <2>2. slots'[n].value # NoValue /\ slots'[n].version % 2 = 1
    BY <1>5, <1>7 DEF Slot
  <2>3. \A i \in DOMAIN slots' : i = n \/ i \in DOMAIN slots
    BY <1>2, <1>5
  <2> QED
    BY <1>5, <2>1, <2>2, <2>3 DEF ListInv, Parity
<1>10. Ranked'
  <2>1. (~panicked' => {} = Vacant') /\ free_head' = Size'
    BY <1>1, <1>3, <1>4, <1>6, <1>7 DEF RankedList
  <2>2. RankedList({}, [i \in {} |-> 0])'
    BY <2>1 DEF RankedList
  <2>3. [i \in {} |-> 0] \in [{} -> 1 .. Cardinality({})]
    OBVIOUS
  <2> QED
    BY <2>2, <2>3 DEF Ranked
<1>11. Counted'
  <2>1. Cardinality(Occupied') = Cardinality(Occupied) + 1 /\ Cardinality(Occupied) \in Nat
    BY <1>2, <1>7, FS_AddElement, FS_CardinalityType
  <2> QED
    BY <1>4, <2>1 DEF ListInv, Counted
<1>12. Keyed'
  <2>1. Given' = Given \cup {<<n, 1>>}
    BY <1>4 DEF Given, With
  <2> QED
    BY <1>2, <2>1 DEF ListInv, Keyed
<1> QED
  BY <1>4, <1>8, <1>9, <1>10, <1>11, <1>12 DEF ListInv

\* The slots of `listed` go in front of the list in the order of their indices, the
\* last in front.  Their ranks go on from that of the old head.
LEMMA ListLengthens ==
    ASSUME Shape, Ranked, Size' = Size, DOMAIN slots' = DOMAIN slots,
           NEW listed \in SUBSET Occupied, 0 \notin listed,
           \A i \in Vacant : slots'[i] = slots[i],
           Vacant \cup listed \subseteq Vacant',
           ~panicked' => ~panicked /\ Vacant' = Vacant \cup listed,
           \A i \in listed :
               \/ slots'[i].next = free_head /\ \A j \in listed : i <= j
               \/ /\ slots'[i].next \in listed /\ slots'[i].next < i
                  /\ \A j \in listed : j < i => j <= slots'[i].next,
           IF listed = {} THEN free_head' = free_head
           ELSE free_head' \in listed /\ \A j \in listed : j <= free_head'
    PROVE  Ranked'
<1>0. PICK L \in SUBSET Vacant : \E p \in [L -> 1 .. Cardinality(L)] : RankedList(L, p)
  BY DEF Ranked
<1>1. PICK r \in [L -> 1 .. Cardinality(L)] : RankedList(L, r)
  BY <1>0
<1>2. /\ IsFiniteSet(L) /\ IsFiniteSet(listed) /\ DOMAIN slots \subseteq Nat /\ L \cap listed = {}
      /\ listed \subseteq Nat /\ listed \subseteq DOMAIN slots
  BY SlotSets, SlotMapAssumption DEF Vacant, Occupied, Shape
<1>3. PICK m \in Nat, l \in Nat : m = Cardinality(L) /\ l = Cardinality(listed)
  BY <1>2, FS_CardinalityType
<1> DEFINE upto(i) == {j \in listed : j <= i}
<1>4. ASSUME NEW i \in listed
      PROVE  /\ IsFiniteSet(upto(i)) /\ Cardinality(upto(i)) \in 1 .. l
             /\ Cardinality(upto(i)) = 1 <=> \A j \in listed : i <= j
  <2>1. upto(i) \in SUBSET listed /\ i \in upto(i)
    BY <1>2
  <2>2. IsFiniteSet(upto(i)) /\ Cardinality(upto(i)) <= l
    BY <1>2, <1>3, <2>1, FS_Subset
  <2>3. Cardinality(upto(i)) \in Nat /\ Cardinality(upto(i)) # 0
    BY <2>1, <2>2, FS_CardinalityType, FS_EmptySet
  <2>4. ASSUME \A j \in listed : i <= j PROVE Cardinality(upto(i)) = 1
    <3>1. upto(i) = {i}
      <4>1. \A j \in listed : j \in Nat /\ i \in Nat /\ i <= j
        BY <1>2, <2>4
      <4>2. \A j \in listed : j <= i => j = i
        BY <4>1
      <4> QED
        BY <2>1, <4>2
    <3> QED
      BY <3>1, FS_Singleton
  <2>5. ASSUME Cardinality(upto(i)) = 1, NEW j \in listed PROVE i <= j
    <3>1. PICK x : upto(i) = {x}
      BY <2>2, <2>5, FS_Singleton
    <3>2. \A k \in listed : k <= i => k = i
      BY <2>1, <3>1
    <3> QED
      BY <1>2, <2>5, <3>2
  <2> QED
    BY <2>2, <2>3, <2>4, <2>5
<1>5. ASSUME NEW i \in listed, NEW j \in listed, i < j, \A k \in listed : k < j => k <= i
      PROVE  Cardinality(upto(j)) = Cardinality(upto(i)) + 1
  <2>1. upto(j) = upto(i) \cup {j} /\ j \notin upto(i)
    <3>1. \A k \in listed : k \in Nat /\ i \in Nat /\ j \in Nat
      BY <1>2
    <3>2. \A k \in listed : k <= j <=> (k <= i \/ k = j)
      BY <1>5, <3>1
    <3>3. ~(j <= i)
      BY <1>5, <3>1
    <3> QED
      BY <3>2, <3>3
  <2>2. IsFiniteSet(upto(i))
    BY <1>4
  <2> HIDE DEF upto
  <2>3. Cardinality(upto(i) \cup {j}) = Cardinality(upto(i)) + 1
    BY <2>1, <2>2, FS_AddElement, Zenon
  <2> QED
    BY <2>1, <2>3, Zenon
<1>6. ASSUME NEW i \in listed, NEW j \in listed, i < j
      PROVE  Cardinality(upto(i)) < Cardinality(upto(j))
  <2>1. upto(i) \in SUBSET upto(j) /\ j \in upto(j) /\ j \notin upto(i)
    <3>1. \A k \in listed : k \in Nat
      BY <1>2
    <3>2. ~(j <= i) /\ j <= j /\ \A k \in listed : k <= i => k <= j
      BY <1>6, <3>1
    <3> QED
      BY <3>2
  <2>2. Cardinality(upto(i)) <= Cardinality(upto(j)) /\ Cardinality(upto(i)) # Cardinality(upto(j))
    BY <1>4, <2>1, FS_Subset
  <2>3. Cardinality(upto(i)) \in Nat /\ Cardinality(upto(j)) \in Nat
    <3> HIDE DEF upto
    <3>1. Cardinality(upto(i)) \in 1 .. l /\ Cardinality(upto(j)) \in 1 .. l
      BY <1>4
    <3> QED
      BY <3>1
  <2> HIDE DEF upto
  <2> QED
    BY <2>2, <2>3
<1>7. PICK M : M = L \cup listed
  OBVIOUS
<1>8. IsFiniteSet(M) /\ Cardinality(M) = m + l
  <2>1. Cardinality(L \cap listed) = 0
    BY <1>2, FS_EmptySet
  <2>2. IsFiniteSet(L \cup listed) /\ Cardinality(L \cup listed) = m + l - Cardinality(L \cap listed)
    BY <1>2, <1>3, FS_Union
  <2> QED
    BY <1>3, <1>7, <2>1, <2>2
<1>9. PICK q : q = [i \in M |-> IF i \in L THEN r[i] ELSE m + Cardinality(upto(i))]
  OBVIOUS
<1>10. /\ \A i \in L : q[i] = r[i] /\ q[i] \in 1 .. m
       /\ \A i \in listed : q[i] = m + Cardinality(upto(i)) /\ q[i] \in m + 1 .. m + l
  <2> HIDE DEF upto
  <2>1. \A i \in L : q[i] = r[i] /\ r[i] \in 1 .. m
    BY <1>1, <1>3, <1>7, <1>9
  <2>2. \A i \in listed : q[i] = m + Cardinality(upto(i)) /\ Cardinality(upto(i)) \in 1 .. l
    BY <1>2, <1>4, <1>7, <1>9
  <2> QED
    BY <2>1, <2>2
<1> HIDE DEF upto
<1>11. q \in [M -> 1 .. Cardinality(M)]
  <2>1. \A i \in M : q[i] \in 1 .. m + l
    BY <1>7, <1>10
  <2> QED
    BY <1>8, <1>9, <2>1
<1>12. \A i, j \in M : q[i] = q[j] => i = j
  <2>1. \A i, j \in L : q[i] = q[j] => i = j
    BY <1>1, <1>10 DEF RankedList
  <2>2. ASSUME NEW i \in listed, NEW j \in listed, q[i] = q[j] PROVE i = j
    <3>1. Cardinality(upto(i)) = Cardinality(upto(j)) /\ i \in Nat /\ j \in Nat /\ Cardinality(upto(i)) \in Nat
      BY <1>2, <1>4, <1>10, <2>2
    <3>2. ~(i < j) /\ ~(j < i)
      BY <1>6, <3>1
    <3> QED
      BY <3>1, <3>2
  <2>3. \A i \in L, j \in listed : q[i] # q[j]
    BY <1>10
  <2> QED
    BY <1>7, <2>1, <2>2, <2>3
<1>13. M \in SUBSET Vacant' /\ (~panicked' => M = Vacant')
  BY <1>0, <1>1, <1>7 DEF RankedList
<1>14. \/ M = {} /\ free_head' = Size'
       \/ free_head' \in M /\ q[free_head'] = Cardinality(M)
  <2>1. CASE listed = {}
    <3>1. l = 0 /\ M = L /\ free_head' = free_head
      BY <1>3, <1>7, <2>1, FS_EmptySet
    <3> QED
      BY <1>1, <1>3, <1>8, <1>10, <3>1 DEF RankedList
  <2>2. CASE listed # {}
    <3>1. upto(free_head') = listed
      BY <2>2 DEF upto
    <3> QED
      BY <1>3, <1>7, <1>8, <1>10, <2>2, <3>1
  <2> QED
    BY <2>1, <2>2
<1>15. ASSUME NEW i \in M
       PROVE  IF q[i] = 1 THEN slots'[i].next = Size'
              ELSE slots'[i].next \in M /\ q[slots'[i].next] = q[i] - 1
  <2>1. CASE i \in L
    <3>1. slots'[i] = slots[i] /\ q[i] = r[i]
      BY <1>0, <1>10, <2>1
    <3>2. IF r[i] = 1 THEN slots[i].next = Size ELSE slots[i].next \in L /\ r[slots[i].next] = r[i] - 1
      BY <1>1, <2>1 DEF RankedList
    <3> QED
      BY <1>7, <1>10, <3>1, <3>2
  <2>2. CASE i \in listed /\ slots'[i].next = free_head /\ \A j \in listed : i <= j
    <3>1. q[i] = m + 1
      BY <1>4, <1>10, <2>2
    <3>2. CASE L = {} /\ free_head = Size
      <4>1. m = 0
        BY <1>3, <3>2, FS_EmptySet
      <4> QED
        BY <2>2, <3>1, <3>2, <4>1
    <3>3. CASE free_head \in L /\ r[free_head] = m
      <4>1. q[free_head] = m /\ m \in 1 .. m
        BY <1>10, <3>3
      <4> QED
        BY <1>7, <2>2, <3>1, <3>3, <4>1
    <3> QED
      BY <1>1, <1>3, <3>2, <3>3 DEF RankedList
  <2>3. CASE /\ i \in listed /\ slots'[i].next \in listed /\ slots'[i].next < i
             /\ \A j \in listed : j < i => j <= slots'[i].next
    <3>1. PICK p \in listed : p = slots'[i].next
      BY <2>3
    <3>2. Cardinality(upto(i)) = Cardinality(upto(p)) + 1 /\ Cardinality(upto(p)) \in 1 .. l
      BY <1>4, <1>5, <2>3, <3>1
    <3>3. q[i] = m + Cardinality(upto(i)) /\ q[p] = m + Cardinality(upto(p))
      BY <1>10, <2>3
    <3> QED
      BY <1>3, <1>7, <2>3, <3>1, <3>2, <3>3
  <2> QED
    BY <1>7, <2>1, <2>2, <2>3
<1>16. RankedList(M, q)'
  BY <1>12, <1>13, <1>14, <1>15 DEF RankedList
<1> QED
  BY <1>11, <1>13, <1>16 DEF Ranked

\* Slots are vacated: by remove or clear, whole or cut short.
LEMMA ListVacated ==
    ASSUME ListInv, NEW cleared \in SUBSET Occupied,
           slots' \in [DOMAIN slots -> SlotType],
           \A i \in cleared : slots'[i].version = NextVersion(slots[i].version) /\ slots'[i].value = NoValue,
           \A i \in DOMAIN slots \ cleared : slots'[i] = slots[i],
           removals' \in 0 .. MaxRemovals
    PROVE  /\ Shape' /\ Parity' /\ Size' = Size /\ 0 \notin cleared
           /\ Occupied' = Occupied \ cleared /\ Vacant' = Vacant \cup cleared
           /\ \A i \in Vacant : slots'[i] = slots[i]
<1>1. DOMAIN slots' = DOMAIN slots /\ Size' = Size
  BY DEF Size
<1>2. Occupied' = Occupied \ cleared /\ cleared \subseteq DOMAIN slots
  BY <1>1 DEF Occupied
<1>3. 0 \in DOMAIN slots /\ 0 \notin cleared
  BY SlotSets DEF ListInv, Parity, Occupied
<1>4. Vacant' = Vacant \cup cleared /\ Vacant \subseteq DOMAIN slots \ cleared
  BY <1>1, <1>2, <1>3 DEF Vacant
<1>5. Shape'
  BY <1>1 DEF ListInv, Shape
<1>6. ASSUME NEW i \in DOMAIN slots PROVE slots'[i].value # NoValue <=> slots'[i].version % 2 = 1
  <2>1. CASE i \in cleared
    <3>1. slots[i].version \in Nat /\ slots[i].version % 2 = 1
      BY <1>2, <2>1 DEF ListInv, Shape, SlotType, Parity, Occupied
    <3>2. (slots[i].version + 1) % 2 = 0
      BY <3>1
    <3>3. slots'[i].version % 2 = 0
      BY <2>1, <3>1, <3>2, WrapsEven
    <3> QED
      BY <2>1, <3>3
  <2>2. CASE i \notin cleared
    BY <2>2 DEF ListInv, Parity
  <2> QED
    BY <2>1, <2>2
<1>7. Parity'
  BY <1>1, <1>3, <1>6 DEF ListInv, Parity
<1> QED
  BY <1>1, <1>2, <1>3, <1>4, <1>5, <1>7

\* remove puts the slot in front of the list.  A key has an odd version, so that
\* one which is current names an occupied slot.
LEMMA ListRemove ==
    ASSUME ListInv, NEW key \in Given, Remove(key)
    PROVE  ListInv'
<1>k. PICK k : k = Key(key)
  OBVIOUS
<1>i. PICK i : i = k[1]
  OBVIOUS
<1>1. k[2] \in Nat /\ k[2] % 2 = 1
  <2>1. key[1] \in Nat /\ key[2] \in Nat /\ Word \in Nat /\ Word > 0
    BY SlotMapAssumption DEF ListInv, Keyed
  <2>2. as_ffi(key) \in Nat
    BY <2>1 DEF as_ffi
  <2>3. as_ffi(key) \div Word \in Nat
    BY <2>1, <2>2
  <2>4. k[2] = Odd(as_ffi(key) \div Word)
    BY <1>k DEF Key, from_ffi
  <2> QED
    BY <2>3, <2>4, WrapsEven
<1>2. /\ i \in DOMAIN slots /\ slots[i].version = k[2] /\ removals < MaxRemovals
      /\ slots' = [slots EXCEPT ![i] = Slot(NextVersion(k[2]), NoValue, free_head)]
      /\ free_head' = i /\ removals' = removals + 1 /\ len' = len - 1
      /\ dict' = Without(dict, {key}) /\ dead' = dead \cup {key}
      /\ panicked' = panicked
  BY <1>k, <1>i DEF Remove
<1>3. i \in Occupied
  BY <1>1, <1>2 DEF ListInv, Parity, Occupied
<1>4. /\ slots'[i] = Slot(NextVersion(slots[i].version), NoValue, free_head)
      /\ \A j \in DOMAIN slots \ {i} : slots'[j] = slots[j]
      /\ DOMAIN slots' = DOMAIN slots
  BY <1>2
<1>5. NextVersion(slots[i].version) \in Nat /\ free_head \in Nat
  <2>1. NextVersion(slots[i].version) \in Nat
    BY <1>1, <1>2, WrapsEven
  <2>2. DOMAIN slots \subseteq Nat /\ Size \in Nat
    BY SlotMapAssumption DEF ListInv, Shape
  <2>3. free_head = Size \/ free_head \in Vacant
    BY DEF ListInv, Ranked, RankedList
  <2> QED
    BY <2>1, <2>2, <2>3 DEF Vacant
<1>6. slots' \in [DOMAIN slots -> SlotType]
  BY <1>2, <1>4, <1>5 DEF ListInv, Shape, SlotType, Slot
<1>7. removals' \in 0 .. MaxRemovals
  BY <1>2, SlotMapAssumption DEF ListInv, Shape
<1>8. PICK cleared : cleared = {i}
  OBVIOUS
<1>9. /\ Shape' /\ Parity' /\ Size' = Size /\ 0 \notin cleared
      /\ Occupied' = Occupied \ cleared /\ Vacant' = Vacant \cup cleared
      /\ \A j \in Vacant : slots'[j] = slots[j]
  <2>1. \A j \in cleared : slots'[j].version = NextVersion(slots[j].version) /\ slots'[j].value = NoValue
    BY <1>4, <1>8 DEF Slot
  <2>2. cleared \in SUBSET Occupied /\ \A j \in DOMAIN slots \ cleared : slots'[j] = slots[j]
    BY <1>3, <1>4, <1>8
  <2> QED
    BY <1>6, <1>7, <2>1, <2>2, ListVacated
<1>10. Ranked'
  <2>1. \A j \in cleared : slots'[j].next = free_head /\ \A x \in cleared : j <= x
    <3>1. i \in Nat
      BY <1>2, SlotMapAssumption DEF ListInv, Shape
    <3> QED
      BY <1>4, <1>8, <3>1 DEF Slot
  <2>2. free_head' \in cleared /\ \A x \in cleared : x <= free_head'
    BY <1>2, <1>8, <2>1
  <2>3. cleared \in SUBSET Occupied /\ cleared # {} /\ Shape /\ Ranked
    BY <1>3, <1>8 DEF ListInv
  <2> QED
    BY <1>2, <1>4, <1>9, <2>1, <2>2, <2>3, ListLengthens
<1>11. Counted'
  <2>1. IsFiniteSet(Occupied) /\ Cardinality(Occupied) \in Nat /\ Cardinality(Occupied) # 0
    BY <1>3, SlotSets DEF ListInv, Occupied
  <2>2. Cardinality(Occupied') = Cardinality(Occupied) - 1
    BY <1>3, <1>8, <1>9, <2>1, FS_RemoveElement
  <2> QED
    BY <1>2, <2>1, <2>2 DEF ListInv, Counted
<1>12. Keyed'
  <2>1. Given' = Given
    BY <1>2 DEF Given, Without
  <2> QED
    BY <2>1 DEF ListInv, Keyed
<1> QED
  BY <1>2, <1>9, <1>10, <1>11, <1>12 DEF ListInv

\* clear puts the occupied slots in front of the list, each before those of lower
\* index; one whose value's drop panics is vacant and not on the list.
LEMMA ListClearing ==
    ASSUME ListInv, NEW last \in Nat, NEW completes \in BOOLEAN, Clearing(last, completes),
           completes => last = Size - 1 /\ panicked' = panicked,
           ~completes => panicked'
    PROVE  ListInv'
<1> DEFINE before(i, s) == {j \in s : j < i}
           head(s) == IF s = {} THEN free_head ELSE CHOOSE i \in s : \A j \in s : j <= i
<1>c. PICK cleared : cleared = {i \in Occupied : i <= last}
  OBVIOUS
<1>l. PICK listed : listed = IF completes THEN cleared ELSE cleared \ {last}
  OBVIOUS
<1>g. PICK lost : lost = {k \in DOMAIN dict : k[1] \in cleared}
  OBVIOUS
<1>1. /\ removals + Cardinality(cleared) <= MaxRemovals
      /\ slots' = [i \in DOMAIN slots |->
             IF i \in cleared
             THEN Slot(NextVersion(slots[i].version), NoValue, head(before(i, cleared)))
             ELSE slots[i]]
      /\ free_head' = head(listed)
      /\ len' = (IF completes THEN 0 ELSE len)
      /\ removals' = removals + Cardinality(cleared)
      /\ dict' = Without(dict, lost) /\ dead' = dead \cup lost
  BY <1>c, <1>l, <1>g DEF Clearing
<1>2. /\ cleared \in SUBSET Occupied /\ cleared \in SUBSET (DOMAIN slots) /\ cleared \subseteq 0 .. last
      /\ listed \in SUBSET cleared /\ DOMAIN slots \subseteq Nat
  BY <1>c, <1>l, SlotMapAssumption DEF Occupied, ListInv, Shape
<1>3. Cardinality(cleared) \in Nat
  BY <1>2, SlotSets DEF ListInv
<1>4. ASSUME NEW s \in SUBSET cleared, s # {} PROVE head(s) \in s /\ \A j \in s : j <= head(s)
  <2>1. \E i \in s : \A j \in s : j <= i
    BY <1>2, <1>4, LargestMember
  <2> QED
    BY <1>4, <2>1
<1>5. ASSUME NEW i \in listed
      PROVE  \/ head(before(i, cleared)) = free_head /\ \A j \in listed : i <= j
             \/ /\ head(before(i, cleared)) \in listed /\ head(before(i, cleared)) < i
                /\ \A j \in listed : j < i => j <= head(before(i, cleared))
  <2>1. CASE before(i, cleared) = {}
    <3>1. \A j \in listed : i \in Nat /\ j \in Nat /\ ~(j < i)
      BY <1>2, <2>1
    <3>2. \A j \in listed : i <= j
      BY <3>1
    <3> QED
      BY <2>1, <3>2
  <2>2. CASE before(i, cleared) # {}
    <3>1. /\ head(before(i, cleared)) \in before(i, cleared)
          /\ \A j \in before(i, cleared) : j <= head(before(i, cleared))
      <4>1. before(i, cleared) \in SUBSET cleared
        OBVIOUS
      <4> HIDE DEF head, before
      <4> QED
        BY <1>4, <2>2, <4>1
    <3>2. before(i, cleared) \subseteq listed
      BY <1>2, <1>l
    <3>3. \A j \in listed : j < i => j \in before(i, cleared)
      BY <1>2
    <3> HIDE DEF head
    <3> QED
      BY <3>1, <3>2, <3>3
  <2> QED
    BY <2>1, <2>2
<1>6. IF listed = {} THEN free_head' = free_head
      ELSE free_head' \in listed /\ \A j \in listed : j <= free_head'
  BY <1>1, <1>2, <1>4
<1>7. free_head \in Nat /\ \A i \in cleared : head(before(i, cleared)) \in Nat
  <2>1. free_head = Size \/ free_head \in Vacant
    BY DEF ListInv, Ranked, RankedList
  <2>2. free_head \in Nat
    BY <1>2, <2>1, SlotMapAssumption DEF ListInv, Shape, Vacant
  <2>3. ASSUME NEW i \in cleared PROVE head(before(i, cleared)) \in Nat
    <3>1. CASE before(i, cleared) = {}
      BY <2>2, <3>1
    <3>2. CASE before(i, cleared) # {}
      BY <1>2, <1>4, <3>2
    <3> QED
      BY <3>1, <3>2
  <2> QED
    BY <2>2, <2>3
<1>h. PICK nx : nx = [i \in cleared |-> head(before(i, cleared))]
  OBVIOUS
<1>8. /\ \A i \in cleared : nx[i] \in Nat
      /\ \A i \in listed : \/ nx[i] = free_head /\ \A j \in listed : i <= j
                           \/ nx[i] \in listed /\ nx[i] < i /\ \A j \in listed : j < i => j <= nx[i]
  <2>1. \A i \in listed : i \in cleared
    BY <1>2
  <2>2. \A i \in cleared : nx[i] = head(before(i, cleared))
    BY <1>h
  <2> HIDE DEF head, before
  <2> QED
    BY <1>5, <1>7, <2>1, <2>2
<1>9. /\ DOMAIN slots' = DOMAIN slots
      /\ \A i \in cleared : slots'[i] = Slot(NextVersion(slots[i].version), NoValue, nx[i])
      /\ \A i \in DOMAIN slots \ cleared : slots'[i] = slots[i]
  BY <1>h, <1>1, <1>2
<1> HIDE DEF head, before
<1>10. ASSUME NEW i \in cleared
       PROVE  /\ slots'[i].version = NextVersion(slots[i].version) /\ slots'[i].value = NoValue
              /\ slots'[i].next = nx[i] /\ slots'[i] \in SlotType
  <2>1. slots'[i] = Slot(NextVersion(slots[i].version), NoValue, nx[i])
    BY <1>9
  <2>2. slots[i].version \in Nat
    BY <1>2 DEF ListInv, Shape, SlotType
  <2>3. NextVersion(slots[i].version) \in Nat /\ nx[i] \in Nat
    BY <1>8, <2>2, WrapsEven
  <2> QED
    BY <2>1, <2>3 DEF Slot, SlotType
<1>11. slots' \in [DOMAIN slots -> SlotType]
  <2>1. \A i \in DOMAIN slots : slots'[i] \in SlotType
    BY <1>9, <1>10 DEF ListInv, Shape
  <2> QED
    BY <1>1, <2>1
<1>12. removals' \in 0 .. MaxRemovals
  BY <1>1, <1>3, SlotMapAssumption DEF ListInv, Shape
<1>13. /\ Shape' /\ Parity' /\ Size' = Size /\ 0 \notin cleared
       /\ Occupied' = Occupied \ cleared /\ Vacant' = Vacant \cup cleared
       /\ \A i \in Vacant : slots'[i] = slots[i]
  <2>1. /\ \A i \in cleared : slots'[i].version = NextVersion(slots[i].version) /\ slots'[i].value = NoValue
        /\ \A i \in DOMAIN slots \ cleared : slots'[i] = slots[i]
    BY <1>9, <1>10
  <2> QED
    BY <1>2, <1>11, <1>12, <2>1, ListVacated
<1>14. Ranked'
  <2>1. listed \in SUBSET Occupied /\ 0 \notin listed /\ Vacant \cup listed \subseteq Vacant'
    BY <1>2, <1>13
  <2>2. ~panicked' => ~panicked /\ Vacant' = Vacant \cup listed
    BY <1>l, <1>13
  <2>3. \A i \in listed :
            \/ slots'[i].next = free_head /\ \A j \in listed : i <= j
            \/ /\ slots'[i].next \in listed /\ slots'[i].next < i
               /\ \A j \in listed : j < i => j <= slots'[i].next
    BY <1>2, <1>8, <1>10
  <2>4. Shape /\ Ranked
    BY DEF ListInv
  <2> QED
    BY <1>6, <1>9, <1>13, <2>1, <2>2, <2>3, <2>4, ListLengthens
<1>15. Counted'
  <2>1. /\ IsFiniteSet(Occupied) /\ Cardinality(Occupied) \in Nat
        /\ Cardinality(Occupied') \in Nat /\ Cardinality(Occupied') <= Cardinality(Occupied)
    <3>1. IsFiniteSet(Occupied) /\ Cardinality(Occupied) \in Nat
      BY SlotSets DEF ListInv, Occupied
    <3>2. Occupied' \in SUBSET Occupied
      BY <1>13
    <3>3. IsFiniteSet(Occupied') /\ Cardinality(Occupied') <= Cardinality(Occupied)
      BY <3>1, <3>2, FS_Subset
    <3> QED
      BY <3>1, <3>3, FS_CardinalityType
  <2>2. CASE completes
    <3>1. Occupied' = {}
      BY <1>c, <1>13, <2>2, SlotMapAssumption DEF ListInv, Shape, Occupied
    <3>2. Cardinality(Occupied') = 0
      BY <3>1, FS_EmptySet
    <3> QED
      BY <1>1, <2>2, <3>2 DEF Counted
  <2>3. CASE ~completes
    BY <1>1, <2>1, <2>3 DEF ListInv, Counted
  <2> QED
    BY <2>2, <2>3
<1>16. Keyed'
  <2>1. Given' = Given
    BY <1>g, <1>1 DEF Given, Without
  <2> QED
    BY <2>1 DEF ListInv, Keyed
<1>17. panicked' \in BOOLEAN
  BY DEF ListInv
<1> QED
  BY <1>13, <1>14, <1>15, <1>16, <1>17 DEF ListInv

LEMMA ListInvStep == ListInv /\ [Next]_vars => ListInv'
<1> SUFFICES ASSUME ListInv, [Next]_vars PROVE ListInv'
  OBVIOUS
<1>1. ASSUME NEW v \in Values, InsertReused(v) \/ InsertNew(v) PROVE ListInv'
  BY <1>1, ListReused, ListNew
<1>2. ASSUME InsertFails PROVE ListInv'
  BY <1>2, ListUntouched DEF InsertFails, History, Given
<1>3. ASSUME NEW k \in Given, Remove(k) PROVE ListInv'
  BY <1>3, ListRemove
<1>4. ASSUME NEW k \in Given, SecondaryRemove(k) PROVE ListInv'
  BY <1>4, ListUntouched DEF SecondaryRemove, MapState, Given, ListInv
<1>5. ASSUME NEW k \in Given, NEW v \in Values, SecondaryInsert(k, v) PROVE ListInv'
  BY <1>5, ListUntouched DEF SecondaryInsert, MapState, Given, ListInv
<1>6. ASSUME Clear PROVE ListInv'
  <2>1. PICK last : last = Size - 1
    OBVIOUS
  <2>2. last \in Nat /\ Clearing(last, TRUE) /\ panicked' = panicked
    BY <1>6, <2>1, SlotMapAssumption DEF Clear, ListInv, Shape, Clearing
  <2> QED
    BY <2>1, <2>2, ListClearing
<1>7. ASSUME NEW i \in DOMAIN slots, ClearPanics(i) PROVE ListInv'
  <2>1. i \in Nat
    BY SlotMapAssumption DEF ListInv, Shape
  <2>2. Clearing(i, FALSE) /\ panicked' = TRUE
    BY <1>7, Zenon DEF ClearPanics
  <2> QED
    BY <2>1, <2>2, ListClearing
<1>8. ASSUME NEW ks, NEW vs, GetDisjointMut(ks, vs) PROVE ListInv'
  BY <1>8, ListUntouched DEF GetDisjointMut, MapState, Given, ListInv
<1>9. CASE UNCHANGED vars
  BY <1>9, ListUntouched DEF vars, MapState, History, Given, ListInv
<1> QED
  BY <1>1, <1>2, <1>3, <1>4, <1>5, <1>6, <1>7, <1>8, <1>9 DEF Next

\* For every sequence of calls the vacant slots are one list, that leads past no
\* occupied slot and past none twice, and insert reuses each of them before it makes
\* a new one; after a clear that was cut short the list is still one, of fewer
\* slots.  len is the number of values.  Versions may wrap meanwhile.
THEOREM ListIsSound == Spec => []FreeListIsSound
  BY InitListInv, ListInvStep, RankedIsSound, PTL DEF Spec

-----------------------------------------------------------------------------
(* Recursive functions over the steps of a loop                            *)

\* Induction over the steps 0 .. n of a loop, with the set of the steps at which
\* something holds in place of a predicate.
LEMMA StepInduction ==
    ASSUME NEW n \in Nat, NEW S, 0 \in S, \A i \in 1 .. n : i - 1 \in S => i \in S
    PROVE  0 .. n \subseteq S
<1> DEFINE less == OpToRel(<, Nat)
           B == (0 .. n) \ S
<1>1. SUFFICES ASSUME B # {} PROVE FALSE
  OBVIOUS
<1>2. B \subseteq Nat
  OBVIOUS
<1>3. IsWellFoundedOn(less, Nat)
  BY NatLessThanWellFounded
<1>4. PICK i \in B : \A k \in B : ~(<<k, i>> \in less)
  <2> HIDE DEF B, less
  <2> QED
    BY <1>1, <1>2, <1>3, WFMin
<1>5. \A k \in B : ~(k < i)
  BY <1>2, <1>4 DEF OpToRel
<1>6. i \in 1 .. n /\ i - 1 \in 0 .. n /\ i - 1 < i
  OBVIOUS
<1> QED
  BY <1>5, <1>6

\* A loop of n steps whose i-th takes the states of S[i - 1] to states of S[i], by
\* g[i], has a course f from any b in S[0].
Steps(n, S, g) == \A i \in 1 .. n : \A v \in S[i - 1] : g[i][v] \in S[i]
Course(n, b, g, f) == f = [i \in 0 .. n |-> f[i]] /\ f[0] = b /\ \A i \in 1 .. n : f[i] = g[i][f[i - 1]]

LEMMA LoopRuns ==
    ASSUME NEW n \in Nat, NEW S, NEW b \in S[0], NEW g, Steps(n, S, g)
    PROVE  \E f : Course(n, b, g, f) /\ \A i \in 0 .. n : f[i] \in S[i]
<1> DEFINE runs(m) == \E f : Course(m, b, g, f) /\ \A i \in 0 .. m : f[i] \in S[i]
           R == {m \in 0 .. n : runs(m)}
<1>1. runs(0)
  <2>1. PICK f : f = [i \in 0 .. 0 |-> b]
    OBVIOUS
  <2>2. f = [i \in 0 .. 0 |-> f[i]] /\ f[0] = b /\ 1 .. 0 = {} /\ 0 .. 0 = {0}
    BY <2>1
  <2>3. Course(0, b, g, f) /\ \A i \in 0 .. 0 : f[i] \in S[i]
    BY <2>2 DEF Course
  <2> QED
    BY <2>3
<1>2. ASSUME NEW m \in 1 .. n, runs(m - 1)
      PROVE  runs(m)
  <2>1. PICK f : Course(m - 1, b, g, f) /\ \A i \in 0 .. m - 1 : f[i] \in S[i]
    BY <1>2
  <2>2. m - 1 \in 0 .. m - 1 /\ f[m - 1] \in S[m - 1]
    BY <2>1
  <2>3. g[m][f[m - 1]] \in S[m]
    BY <2>2 DEF Steps
  <2>4. PICK h : h = [i \in 0 .. m |-> IF i = m THEN g[m][f[m - 1]] ELSE f[i]]
    OBVIOUS
  <2>5. \A i \in 0 .. m : i = m \/ i \in 0 .. m - 1
    OBVIOUS
  <2>6. h = [i \in 0 .. m |-> h[i]] /\ \A i \in 0 .. m : h[i] \in S[i]
    BY <2>1, <2>3, <2>4, <2>5
  <2>7. h[0] = b
    BY <2>1, <2>4 DEF Course
  <2>8. ASSUME NEW i \in 1 .. m PROVE h[i] = g[i][h[i - 1]]
    <3>1. h[i - 1] = f[i - 1]
      BY <2>4
    <3>2. CASE i = m
      BY <2>4, <3>1, <3>2
    <3>3. CASE i # m
      <4>1. i \in 1 .. m - 1
        BY <3>3
      <4>2. f[i] = g[i][f[i - 1]]
        BY <2>1, <4>1 DEF Course
      <4>3. h[i] = f[i]
        BY <2>4, <3>3
      <4> QED
        BY <3>1, <4>2, <4>3
    <3> QED
      BY <3>2, <3>3
  <2>9. Course(m, b, g, h)
    BY <2>6, <2>7, <2>8 DEF Course
  <2> QED
    BY <2>6, <2>9
<1> HIDE DEF runs
<1>3. 0 .. n \subseteq R
  <2>1. 0 \in R /\ \A i \in 1 .. n : i - 1 \in R => i \in R
    BY <1>1, <1>2
  <2> HIDE DEF R
  <2> QED
    BY <2>1, StepInduction
<1>4. runs(n)
  BY <1>3
<1> QED
  BY <1>4 DEF runs

-----------------------------------------------------------------------------
(* Sequences of elements                                                   *)

Elements == (Nat \X Kinds) \cup {V!Uninit}
Row == Seq(Elements)

\* A function on 1 .. n is a sequence of length n.
LEMMA AsRow ==
    ASSUME NEW S, NEW n \in Nat, NEW q \in [1 .. n -> S]
    PROVE  q \in Seq(S) /\ Len(q) = n /\ DOMAIN q = 1 .. n
<1>1. q \in Seq(S)
  BY SeqDef
<1>2. Len(q) \in Nat /\ DOMAIN q = 1 .. Len(q) /\ DOMAIN q = 1 .. n
  BY <1>1, LenProperties
<1>3. Len(q) = n
  <2>1. \A k \in Nat : k >= 1 => k \in 1 .. k
    OBVIOUS
  <2> QED
    BY <1>2, <2>1
<1> QED
  BY <1>1, <1>2, <1>3

\* What is in a part of a sequence, and in two parts one after the other
LEMMA SubRow ==
    ASSUME NEW q \in Row, NEW a \in 0 .. Len(q), NEW b \in a .. Len(q)
    PROVE  /\ SubSeq(q, a + 1, b) \in Row /\ Len(SubSeq(q, a + 1, b)) = b - a
           /\ \A i \in 1 .. b - a : SubSeq(q, a + 1, b)[i] = q[a + i]
<1>1. Len(q) \in Nat /\ \A i \in 1 .. Len(q) : q[i] \in Elements
  BY LenProperties, ElementOfSeq DEF Row
<1>2. a + 1 \in Int /\ b \in Int /\ \A i \in a + 1 .. b : q[i] \in Elements
  BY <1>1
<1>3. /\ SubSeq(q, a + 1, b) \in Row
      /\ Len(SubSeq(q, a + 1, b)) = IF a + 1 <= b THEN b - (a + 1) + 1 ELSE 0
      /\ \A i \in 1 .. b - (a + 1) + 1 : SubSeq(q, a + 1, b)[i] = q[a + 1 + i - 1]
  BY <1>2, SubSeqProperties DEF Row
<1>4. b - (a + 1) + 1 = b - a /\ \A i \in 1 .. b - a : a + 1 + i - 1 = a + i
  BY <1>1
<1> QED
  BY <1>1, <1>3, <1>4

\* What SubRow says of a part from the start
LEMMA Prefix ==
    ASSUME NEW q \in Row, NEW b \in 0 .. Len(q)
    PROVE  /\ SubSeq(q, 1, b) \in Row /\ Len(SubSeq(q, 1, b)) = b
           /\ \A i \in 1 .. b : SubSeq(q, 1, b)[i] = q[i]
<1>1. Len(q) \in Nat
  BY LenProperties DEF Row
<1>2. 0 \in 0 .. Len(q) /\ b \in 0 .. Len(q) /\ 0 + 1 = 1 /\ b - 0 = b /\ \A i \in 1 .. b : 0 + i = i
  BY <1>1
<1>3. /\ SubSeq(q, 0 + 1, b) \in Row /\ Len(SubSeq(q, 0 + 1, b)) = b - 0
      /\ \A i \in 1 .. b - 0 : SubSeq(q, 0 + 1, b)[i] = q[0 + i]
  BY <1>2, SubRow
<1> QED
  BY <1>2, <1>3

\* Two rows one after the other
LEMMA TwoRows ==
    ASSUME NEW p \in Row, NEW q \in Row
    PROVE  /\ p \o q \in Row /\ Len(p \o q) = Len(p) + Len(q)
           /\ \A i \in 1 .. Len(p) : (p \o q)[i] = p[i]
           /\ \A i \in 1 .. Len(q) : (p \o q)[Len(p) + i] = q[i]
<1>1. Len(p) \in Nat /\ Len(q) \in Nat
  BY LenProperties DEF Row
<1> QED
  BY <1>1, ConcatProperties DEF Row

\* Rows with the same elements at the same places are the same row.
LEMMA SameRow ==
    ASSUME NEW p \in Row, NEW q \in Row, Len(p) = Len(q), \A i \in 1 .. Len(p) : p[i] = q[i]
    PROVE  p = q
BY SeqEqual DEF Row

\* A row is a function on 1 .. Len.
LEMMA RowIs ==
    ASSUME NEW q \in Row
    PROVE  /\ Len(q) \in Nat /\ DOMAIN q = 1 .. Len(q) /\ \A i \in 1 .. Len(q) : q[i] \in Elements
           /\ q \in [1 .. Len(q) -> Elements]
           /\ (Len(q) = 0 <=> q = <<>>)
<1>1. Len(q) \in Nat /\ DOMAIN q = 1 .. Len(q) /\ q \in [1 .. Len(q) -> Elements]
  BY LenProperties DEF Row
<1> QED
  BY <1>1, EmptySeq DEF Row

\* The empty sequence is a row.
LEMMA NoRow == <<>> \in Row /\ Len(<<>>) = 0
BY EmptySeq DEF Row

-----------------------------------------------------------------------------
(* What the operations do to the elements                                  *)

Vectors == [storage : {"array", "inline", "heap"}, items : [0 .. Cap - 1 -> Elements],
            len : 0 .. Cap, vec : Row]

\* as_slice, on the heap and inline, is a row.
LEMMA Slice ==
    ASSUME NEW s \in Vectors
    PROVE  /\ V!as_slice(s) \in Row
           /\ V!IsHeap(s) => V!as_slice(s) = s.vec
           /\ ~V!IsHeap(s) => Len(V!as_slice(s)) = s.len /\ \A i \in 1 .. s.len : V!as_slice(s)[i] = s.items[i - 1]
<1>1. CASE V!IsHeap(s)
  BY <1>1 DEF V!as_slice, Vectors
<1>2. CASE ~V!IsHeap(s)
  <2>1. PICK q : q = [i \in 1 .. s.len |-> s.items[i - 1]]
    OBVIOUS
  <2>2. q \in [1 .. s.len -> Elements] /\ s.len \in Nat
    BY <2>1, CollectionsAssumption DEF Vectors
  <2>3. q \in Row /\ Len(q) = s.len
    BY <2>2, AsRow DEF Row
  <2>4. V!as_slice(s) = q
    BY <1>2, <2>1 DEF V!as_slice
  <2> QED
    BY <1>2, <2>1, <2>3, <2>4
<1> QED
  BY <1>1, <1>2

\* New makes an empty vector.
LEMMA NewIsEmpty ==
    ASSUME NEW storage \in {"array", "inline", "heap"}
    PROVE  V!New(storage) \in Vectors /\ V!as_slice(V!New(storage)) = <<>>
<1>1. V!New(storage) \in Vectors /\ V!New(storage).len = 0 /\ V!New(storage).vec = <<>>
  BY CollectionsAssumption, NoRow DEF V!New, Vectors, Elements
<1>2. CASE V!IsHeap(V!New(storage))
  BY <1>1, <1>2, Slice
<1>3. CASE ~V!IsHeap(V!New(storage))
  BY <1>1, <1>3, Slice, RowIs
<1> QED
  BY <1>1, <1>2, <1>3

\* The move to the heap keeps the sequence.
LEMMA HeapKeeps ==
    ASSUME NEW s \in Vectors
    PROVE  V!heap(s) \in Vectors /\ V!IsHeap(V!heap(s)) /\ V!as_slice(V!heap(s)) = V!as_slice(s)
<1>1. CASE V!IsHeap(s)
  BY <1>1 DEF V!heap
<1>2. CASE ~V!IsHeap(s)
  <2>1. V!heap(s) = [s EXCEPT !.storage = "heap", !.vec = V!as_slice(s), !.len = 0]
    BY <1>2 DEF V!heap
  <2>2. V!as_slice(s) \in Row /\ 0 \in 0 .. Cap
    BY Slice, CollectionsAssumption
  <2>3. V!heap(s) \in Vectors /\ V!IsHeap(V!heap(s)) /\ V!heap(s).vec = V!as_slice(s)
    BY <2>1, <2>2 DEF Vectors, V!IsHeap
  <2> QED
    BY <2>3, Slice
<1> QED
  BY <1>1, <1>2

\* reserve keeps the sequence.
LEMMA ReserveKeeps ==
    ASSUME NEW s \in Vectors, NEW n \in Nat
    PROVE  V!reserve(s, n) \in Vectors /\ V!as_slice(V!reserve(s, n)) = V!as_slice(s)
BY HeapKeeps DEF V!reserve

\* push appends, on the heap, inline, and when the inline cells are full.
LEMMA PushAppends ==
    ASSUME NEW s \in Vectors, NEW e \in Elements
    PROVE  V!push(s, e) \in Vectors /\ V!as_slice(V!push(s, e)) = Append(V!as_slice(s), e)
<1>0. V!as_slice(s) \in Row /\ Append(V!as_slice(s), e) \in Row
  BY Slice, AppendProperties DEF Row
<1>1. CASE V!IsHeap(s) \/ s.len = Cap
  <2>1. V!push(s, e) = [V!heap(s) EXCEPT !.vec = Append(@, e)]
    BY <1>1 DEF V!push
  <2>2. V!heap(s) \in Vectors /\ V!IsHeap(V!heap(s)) /\ V!heap(s).vec = V!as_slice(s)
    BY HeapKeeps, Slice
  <2>3. V!push(s, e) \in Vectors /\ V!IsHeap(V!push(s, e)) /\ V!push(s, e).vec = Append(V!as_slice(s), e)
    BY <1>0, <2>1, <2>2 DEF Vectors, V!IsHeap
  <2> QED
    BY <2>3, Slice
<1>2. CASE ~(V!IsHeap(s) \/ s.len = Cap)
  <2>1. V!push(s, e) = [s EXCEPT !.items[s.len] = e, !.len = @ + 1]
    BY <1>2 DEF V!push
  <2>2. s.len \in 0 .. Cap - 1 /\ s.len \in Nat /\ s.items \in [0 .. Cap - 1 -> Elements]
    BY <1>2, CollectionsAssumption DEF Vectors
  <2>3. /\ V!push(s, e).storage = s.storage /\ V!push(s, e).vec = s.vec
        /\ V!push(s, e).len = s.len + 1 /\ V!push(s, e).items = [s.items EXCEPT ![s.len] = e]
    BY <2>1 DEF Vectors
  <2>4. V!push(s, e) \in Vectors /\ ~V!IsHeap(V!push(s, e))
    <3>1. s.len + 1 \in 0 .. Cap /\ [s.items EXCEPT ![s.len] = e] \in [0 .. Cap - 1 -> Elements]
      BY <2>2, CollectionsAssumption
    <3> QED
      BY <1>2, <2>1, <3>1 DEF Vectors, V!IsHeap
  <2>5. /\ V!as_slice(V!push(s, e)) \in Row /\ Len(V!as_slice(V!push(s, e))) = s.len + 1
        /\ \A i \in 1 .. s.len + 1 : V!as_slice(V!push(s, e))[i] = V!push(s, e).items[i - 1]
    BY <2>3, <2>4, Slice
  <2>6. Len(V!as_slice(s)) = s.len /\ \A i \in 1 .. s.len : V!as_slice(s)[i] = s.items[i - 1]
    BY <1>2, Slice
  <2>7. /\ Len(Append(V!as_slice(s), e)) = s.len + 1
        /\ \A i \in 1 .. s.len : Append(V!as_slice(s), e)[i] = s.items[i - 1]
        /\ Append(V!as_slice(s), e)[s.len + 1] = e
    BY <1>0, <2>6, AppendProperties DEF Row
  <2>8. \A i \in 1 .. s.len + 1 : V!push(s, e).items[i - 1] = IF i = s.len + 1 THEN e ELSE s.items[i - 1]
    <3> SUFFICES ASSUME NEW i \in 1 .. s.len + 1
                 PROVE  V!push(s, e).items[i - 1] = IF i = s.len + 1 THEN e ELSE s.items[i - 1]
      OBVIOUS
    <3>1. i - 1 \in 0 .. Cap - 1 /\ (i - 1 = s.len <=> i = s.len + 1)
      BY <2>2, CollectionsAssumption
    <3> QED
      BY <2>2, <2>3, <3>1
  <2>9. \A i \in 1 .. s.len + 1 : V!as_slice(V!push(s, e))[i] = Append(V!as_slice(s), e)[i]
    <3> SUFFICES ASSUME NEW i \in 1 .. s.len + 1 PROVE V!as_slice(V!push(s, e))[i] = Append(V!as_slice(s), e)[i]
      OBVIOUS
    <3>1. i = s.len + 1 \/ i \in 1 .. s.len
      BY <2>2
    <3> QED
      BY <2>2, <2>5, <2>7, <2>8, <3>1
  <2> QED
    BY <1>0, <2>4, <2>5, <2>7, <2>9, SameRow
<1> QED
  BY <1>1, <1>2

\* extend's loop appends what it is given.
LEMMA PushedAppends ==
    ASSUME NEW s \in Vectors, NEW q \in Row
    PROVE  V!Pushed(s, q) \in Vectors /\ V!as_slice(V!Pushed(s, q)) = V!as_slice(s) \o q
<1>n. PICK n \in Nat : n = Len(q)
  BY RowIs
<1>e. \A i \in 1 .. n : q[i] \in Elements
  BY <1>n, RowIs
<1> DEFINE course(f) == [i \in 0 .. n |-> IF i = 0 THEN s ELSE V!push(f[i - 1], q[i])]
<1>1. PICK after : after = (CHOOSE f : f = course(f)) /\ V!Pushed(s, q) = after[n]
  BY <1>n DEF V!Pushed
<1>2. \E f : f = course(f)
  <2>1. PICK g : g = [i \in 1 .. n |-> [v \in Vectors |-> V!push(v, q[i])]]
    OBVIOUS
  <2>s. PICK S : S = [i \in 0 .. n |-> Vectors]
    OBVIOUS
  <2>2. s \in S[0] /\ Steps(n, S, g)
    BY <1>e, <2>s, <2>1, PushAppends DEF Steps
  <2>3. PICK f : Course(n, s, g, f) /\ \A i \in 0 .. n : f[i] \in S[i]
    BY <2>2, LoopRuns
  <2>4. \A i \in 0 .. n : i # 0 => i \in 1 .. n /\ i - 1 \in 0 .. n
    OBVIOUS
  <2>5. \A i \in 0 .. n : f[i] = IF i = 0 THEN s ELSE V!push(f[i - 1], q[i])
    BY <2>s, <2>1, <2>3, <2>4 DEF Course
  <2> QED
    BY <2>3, <2>5 DEF Course
<1>3. after = course(after)
  <2> HIDE DEF course
  <2> QED
    BY <1>1, <1>2, Zenon
<1>4. after[0] = s /\ \A i \in 1 .. n : after[i] = V!push(after[i - 1], q[i])
  <2>1. \A i \in 0 .. n : course(after)[i] = IF i = 0 THEN s ELSE V!push(after[i - 1], q[i])
    OBVIOUS
  <2>2. 0 \in 0 .. n /\ \A i \in 1 .. n : i \in 0 .. n /\ i # 0
    OBVIOUS
  <2> HIDE DEF course
  <2> QED
    BY <1>3, <2>1, <2>2
<1> DEFINE holds(i) == after[i] \in Vectors /\ V!as_slice(after[i]) = V!as_slice(s) \o SubSeq(q, 1, i)
<1>5. holds(0)
  <2>1. SubSeq(q, 1, 0) = <<>> /\ V!as_slice(s) \o <<>> = V!as_slice(s)
    BY SubSeqEmpty, ConcatEmptySeq, Slice DEF Row
  <2> QED
    BY <1>4, <2>1
<1>6. ASSUME NEW i \in 1 .. n, holds(i - 1)
      PROVE  holds(i)
  <2>1. after[i] \in Vectors /\ V!as_slice(after[i]) = Append(V!as_slice(s) \o SubSeq(q, 1, i - 1), q[i])
    BY <1>e, <1>4, <1>6, PushAppends
  <2>p. PICK p \in Row : p = SubSeq(q, 1, i - 1)
    <3>1. i - 1 \in 0 .. Len(q)
      BY <1>n
    <3> QED
      BY <3>1, Prefix
  <2>2. V!as_slice(s) \in Row /\ q[i] \in Elements
    BY <1>e, Slice
  <2>3. Append(V!as_slice(s) \o p, q[i]) = V!as_slice(s) \o Append(p, q[i])
    <3>1. V!as_slice(s) \o p \in Row /\ <<q[i]>> \in Row
      BY <2>2, TwoRows, AppendProperties, NoRow DEF Row
    <3>2. Append(V!as_slice(s) \o p, q[i]) = (V!as_slice(s) \o p) \o <<q[i]>>
      BY <2>2, <3>1, AppendIsConcat DEF Row
    <3>3. Append(p, q[i]) = p \o <<q[i]>>
      BY <2>2, AppendIsConcat DEF Row
    <3> QED
      BY <2>2, <3>1, <3>2, <3>3, ConcatAssociative DEF Row
  <2>4. SubSeq(q, 1, i) = Append(p, q[i])
    <3>1. SubSeq(q, 1, i) = p \o <<q[i]>>
      BY <1>n, <2>p, SubSeqRecursiveSecond DEF Row
    <3> QED
      BY <2>2, <3>1, AppendIsConcat DEF Row
  <2> QED
    BY <2>1, <2>p, <2>3, <2>4
<1>7. holds(n)
  <2> DEFINE H == {i \in 0 .. n : holds(i)}
  <2> HIDE DEF holds
  <2>1. 0 \in H /\ \A i \in 1 .. n : i - 1 \in H => i \in H
    BY <1>5, <1>6
  <2>2. 0 .. n \subseteq H
    <3> HIDE DEF H
    <3> QED
      BY <2>1, StepInduction
  <2> QED
    BY <2>2
<1> QED
  BY <1>n, <1>1, <1>7, SubSeqFull DEF Row

\* A vector that is not on the heap holds what its first cells do.
LEMMA Inline ==
    ASSUME NEW s \in Vectors, ~V!IsHeap(s), NEW q \in Row, Len(q) = s.len,
           \A j \in 0 .. s.len - 1 : s.items[j] = q[j + 1]
    PROVE  V!as_slice(s) = q
<1>1. /\ V!as_slice(s) \in Row /\ Len(V!as_slice(s)) = s.len /\ s.len \in Nat
      /\ \A i \in 1 .. s.len : V!as_slice(s)[i] = s.items[i - 1]
  BY Slice, CollectionsAssumption DEF Vectors
<1>2. \A i \in 1 .. s.len : i - 1 \in 0 .. s.len - 1 /\ (i - 1) + 1 = i
  BY <1>1
<1>3. \A i \in 1 .. s.len : V!as_slice(s)[i] = q[i]
  BY <1>1, <1>2
<1> QED
  BY <1>1, <1>3, SameRow

\* The first len cells of an inline vector are its sequence.
LEMMA CellsAre ==
    ASSUME NEW s \in Vectors, ~V!IsHeap(s)
    PROVE  /\ s.len \in Nat /\ Len(V!as_slice(s)) = s.len /\ s.len <= Cap
           /\ \A j \in 0 .. s.len - 1 : V!as_slice(s)[j + 1] = s.items[j]
<1>1. /\ Len(V!as_slice(s)) = s.len /\ s.len \in Nat /\ s.len <= Cap
      /\ \A i \in 1 .. s.len : V!as_slice(s)[i] = s.items[i - 1]
  BY Slice, CollectionsAssumption DEF Vectors
<1>2. \A j \in 0 .. s.len - 1 : j + 1 \in 1 .. s.len /\ (j + 1) - 1 = j
  BY <1>1
<1> QED
  BY <1>1, <1>2

\* A row without what is after a up to b
Cut(q, a, b) == SubSeq(q, 1, a) \o SubSeq(q, b + 1, Len(q))

\* What is left of a row when a part is cut out, and where
LEMMA CutIs ==
    ASSUME NEW q \in Row, NEW a \in 0 .. Len(q), NEW b \in a .. Len(q)
    PROVE  /\ Cut(q, a, b) \in Row /\ Len(Cut(q, a, b)) = Len(q) - (b - a)
           /\ \A i \in 1 .. a : Cut(q, a, b)[i] = q[i]
           /\ \A i \in a + 1 .. Len(q) - (b - a) : Cut(q, a, b)[i] = q[i + (b - a)]
<1>1. Len(q) \in Nat
  BY RowIs
<1>2. PICK p : p = SubSeq(q, 1, a)
  OBVIOUS
<1>3. PICK r : r = SubSeq(q, b + 1, Len(q))
  OBVIOUS
<1>4. p \in Row /\ Len(p) = a /\ \A i \in 1 .. a : p[i] = q[i]
  BY <1>2, Prefix
<1>5. b \in 0 .. Len(q) /\ Len(q) \in b .. Len(q)
  BY <1>1
<1>6. r \in Row /\ Len(r) = Len(q) - b /\ \A i \in 1 .. Len(q) - b : r[i] = q[b + i]
  BY <1>3, <1>5, SubRow
<1>7. /\ p \o r \in Row /\ Len(p \o r) = a + (Len(q) - b)
      /\ \A i \in 1 .. a : (p \o r)[i] = p[i]
      /\ \A i \in 1 .. Len(q) - b : (p \o r)[a + i] = r[i]
  <2>1. /\ p \o r \in Row /\ Len(p \o r) = Len(p) + Len(r)
        /\ \A i \in 1 .. Len(p) : (p \o r)[i] = p[i]
        /\ \A i \in 1 .. Len(r) : (p \o r)[Len(p) + i] = r[i]
    BY <1>4, <1>6, TwoRows
  <2> QED
    BY <1>4, <1>6, <2>1
<1>8. Cut(q, a, b) = p \o r
  BY <1>2, <1>3 DEF Cut
<1>9. ASSUME NEW i \in a + 1 .. Len(q) - (b - a) PROVE (p \o r)[i] = q[i + (b - a)]
  <2>1. i - a \in 1 .. Len(q) - b /\ a + (i - a) = i /\ b + (i - a) = i + (b - a)
    BY <1>1
  <2> QED
    BY <1>6, <1>7, <2>1
<1>10. a + (Len(q) - b) = Len(q) - (b - a)
  BY <1>1
<1> QED
  BY <1>4, <1>7, <1>8, <1>9, <1>10

\* drain cuts its range out of the sequence.
LEMMA DrainLeaves ==
    ASSUME NEW s \in Vectors, NEW a \in 0 .. Len(V!as_slice(s)), NEW b \in a .. Len(V!as_slice(s))
    PROVE  V!drain(s, a, b) \in Vectors /\ V!as_slice(V!drain(s, a, b)) = Cut(V!as_slice(s), a, b)
<1>q. PICK q \in Row : q = V!as_slice(s)
  BY Slice
<1>w. PICK w : w = Cut(q, a, b)
  OBVIOUS
<1>0. Len(q) \in Nat /\ a \in 0 .. Len(q) /\ b \in a .. Len(q)
  BY <1>q, RowIs
<1>1. /\ w \in Row /\ Len(w) = Len(q) - (b - a)
      /\ \A i \in 1 .. a : w[i] = q[i]
      /\ \A i \in a + 1 .. Len(q) - (b - a) : w[i] = q[i + (b - a)]
  BY <1>0, <1>w, CutIs
<1>2. CASE V!IsHeap(s)
  <2>1. s.vec = q
    BY <1>2, <1>q, Slice
  <2>2. V!drain(s, a, b) = [s EXCEPT !.vec = Cut(@, a, b)]
    BY <1>2 DEF V!drain, Cut
  <2>3. V!drain(s, a, b) \in Vectors /\ V!IsHeap(V!drain(s, a, b)) /\ V!drain(s, a, b).vec = w
    BY <1>2, <1>w, <1>1, <2>1, <2>2 DEF Vectors, V!IsHeap
  <2> QED
    BY <1>q, <1>w, <2>3, Slice
<1>3. CASE ~V!IsHeap(s)
  <2>1. s.len \in Nat /\ Len(q) = s.len /\ s.len <= Cap /\ \A j \in 0 .. s.len - 1 : q[j + 1] = s.items[j]
    BY <1>3, <1>q, CellsAre
  <2>2. PICK cells : cells = [j \in 0 .. Cap - 1 |-> IF j \in a .. a + s.len - b - 1 THEN s.items[j + b - a] ELSE s.items[j]]
    OBVIOUS
  <2>3. DOMAIN s.items = 0 .. Cap - 1 /\ s.items \in [0 .. Cap - 1 -> Elements]
    BY DEF Vectors
  <2>4. V!drain(s, a, b) = [s EXCEPT !.len = s.len - (b - a), !.items = cells]
    BY <1>3, <2>2, <2>3 DEF V!drain, Vectors
  <2>5. cells \in [0 .. Cap - 1 -> Elements]
    <3>1. \A j \in 0 .. Cap - 1 : j \in a .. a + s.len - b - 1 => j + b - a \in 0 .. Cap - 1
      BY <1>0, <2>1, CollectionsAssumption
    <3> QED
      BY <2>2, <2>3, <3>1
  <2>6. s.len - (b - a) \in 0 .. Cap
    BY <1>0, <2>1, CollectionsAssumption
  <2>7. /\ V!drain(s, a, b) \in Vectors /\ ~V!IsHeap(V!drain(s, a, b))
        /\ V!drain(s, a, b).len = s.len - (b - a) /\ V!drain(s, a, b).items = cells
    BY <1>3, <2>4, <2>5, <2>6 DEF Vectors, V!IsHeap
  <2>8. ASSUME NEW j \in 0 .. (s.len - (b - a)) - 1 PROVE cells[j] = w[j + 1]
    <3>1. j \in 0 .. Cap - 1
      BY <1>0, <2>1, CollectionsAssumption
    <3>2. CASE j < a
      <4>1. j + 1 \in 1 .. a /\ j \in 0 .. s.len - 1 /\ ~(j \in a .. a + s.len - b - 1)
        BY <1>0, <2>1, <3>2
      <4> QED
        BY <1>1, <2>1, <2>2, <3>1, <4>1
    <3>3. CASE ~(j < a)
      <4>1. /\ j + 1 \in a + 1 .. Len(q) - (b - a) /\ j + b - a \in 0 .. s.len - 1
            /\ j \in a .. a + s.len - b - 1 /\ (j + b - a) + 1 = (j + 1) + (b - a)
        BY <1>0, <2>1, <3>3
      <4> QED
        BY <1>1, <2>1, <2>2, <3>1, <4>1
    <3> QED
      BY <3>2, <3>3
  <2>9. Len(w) = s.len - (b - a)
    BY <1>1, <2>1
  <2> QED
    BY <1>q, <1>w, <1>1, <2>7, <2>8, <2>9, Inline
<1> QED
  BY <1>2, <1>3

\* To remove one element is to cut it out.
LEMMA RemoveAtIs == \A q : \A i \in Nat : V!RemoveAt(q, i + 1) = Cut(q, i, i + 1)
<1> SUFFICES ASSUME NEW q, NEW i \in Nat PROVE V!RemoveAt(q, i + 1) = Cut(q, i, i + 1)
  OBVIOUS
<1>1. (i + 1) - 1 = i
  OBVIOUS
<1> QED
  BY <1>1 DEF V!RemoveAt, Cut

\* remove cuts one element out of the sequence.
LEMMA RemoveLeaves ==
    ASSUME NEW s \in Vectors, NEW i \in Nat, i < Len(V!as_slice(s))
    PROVE  V!remove(s, i) \in Vectors /\ V!as_slice(V!remove(s, i)) = Cut(V!as_slice(s), i, i + 1)
<1>q. PICK q \in Row : q = V!as_slice(s)
  BY Slice
<1>w. PICK w : w = Cut(q, i, i + 1)
  OBVIOUS
<1>0. Len(q) \in Nat /\ i \in 0 .. Len(q) /\ i + 1 \in i .. Len(q) /\ (i + 1) - i = 1
  BY <1>q, RowIs
<1>1. /\ w \in Row /\ Len(w) = Len(q) - 1
      /\ \A k \in 1 .. i : w[k] = q[k]
      /\ \A k \in i + 1 .. Len(q) - 1 : w[k] = q[k + 1]
  <2>1. PICK b \in i .. Len(q) : b = i + 1 /\ b - i = 1
    BY <1>0
  <2>2. /\ w \in Row /\ Len(w) = Len(q) - (b - i)
        /\ \A k \in 1 .. i : w[k] = q[k]
        /\ \A k \in i + 1 .. Len(q) - (b - i) : w[k] = q[k + (b - i)]
    BY <1>0, <1>w, <2>1, CutIs
  <2> QED
    BY <2>1, <2>2
<1>2. CASE V!IsHeap(s)
  <2>1. s.vec = q
    BY <1>2, <1>q, Slice
  <2>2. V!RemoveAt(q, i + 1) = w
    BY <1>w, RemoveAtIs
  <2>3. V!remove(s, i) = [s EXCEPT !.vec = w]
    BY <1>2, <2>1, <2>2 DEF V!remove
  <2>4. V!remove(s, i) \in Vectors /\ V!IsHeap(V!remove(s, i)) /\ V!remove(s, i).vec = w
    BY <1>2, <1>1, <2>3 DEF Vectors, V!IsHeap
  <2> QED
    BY <1>q, <1>w, <2>4, Slice
<1>3. CASE ~V!IsHeap(s)
  <2>1. s.len \in Nat /\ Len(q) = s.len /\ s.len <= Cap /\ \A j \in 0 .. s.len - 1 : q[j + 1] = s.items[j]
    BY <1>3, <1>q, CellsAre
  <2>2. PICK cells : cells = [j \in 0 .. Cap - 1 |-> IF j \in i .. s.len - 2 THEN s.items[j + 1] ELSE s.items[j]]
    OBVIOUS
  <2>3. DOMAIN s.items = 0 .. Cap - 1 /\ s.items \in [0 .. Cap - 1 -> Elements]
    BY DEF Vectors
  <2>4. V!remove(s, i) = [s EXCEPT !.len = s.len - 1, !.items = cells]
    BY <1>3, <2>2, <2>3 DEF V!remove, Vectors
  <2>5. cells \in [0 .. Cap - 1 -> Elements]
    <3>1. \A j \in 0 .. Cap - 1 : j \in i .. s.len - 2 => j + 1 \in 0 .. Cap - 1
      BY <1>0, <2>1, CollectionsAssumption
    <3> QED
      BY <2>2, <2>3, <3>1
  <2>6. s.len - 1 \in 0 .. Cap
    BY <1>0, <2>1, CollectionsAssumption
  <2>7. /\ V!remove(s, i) \in Vectors /\ ~V!IsHeap(V!remove(s, i))
        /\ V!remove(s, i).len = s.len - 1 /\ V!remove(s, i).items = cells
    BY <1>3, <2>4, <2>5, <2>6 DEF Vectors, V!IsHeap
  <2>8. ASSUME NEW j \in 0 .. (s.len - 1) - 1 PROVE cells[j] = w[j + 1]
    <3>1. j \in 0 .. Cap - 1
      BY <1>0, <2>1, CollectionsAssumption
    <3>2. CASE j < i
      <4>1. j + 1 \in 1 .. i /\ j \in 0 .. s.len - 1 /\ ~(j \in i .. s.len - 2)
        BY <1>0, <2>1, <3>2
      <4> QED
        BY <1>1, <2>1, <2>2, <3>1, <4>1
    <3>3. CASE ~(j < i)
      <4>1. j + 1 \in i + 1 .. Len(q) - 1 /\ j + 1 \in 0 .. s.len - 1 /\ j \in i .. s.len - 2
        BY <1>0, <2>1, <3>3
      <4> QED
        BY <1>1, <2>1, <2>2, <3>1, <4>1
    <3> QED
      BY <3>2, <3>3
  <2>9. Len(w) = s.len - 1
    BY <1>1, <2>1
  <2> QED
    BY <1>q, <1>w, <1>1, <2>7, <2>8, <2>9, Inline
<1> QED
  BY <1>2, <1>3

\* A row with one more element, after the first i
LEMMA InsertedRow ==
    ASSUME NEW q \in Row, NEW i \in 0 .. Len(q), NEW e \in Elements
    PROVE  /\ V!InsertAt(q, i + 1, e) \in Row /\ Len(V!InsertAt(q, i + 1, e)) = Len(q) + 1
           /\ \A k \in 1 .. i : V!InsertAt(q, i + 1, e)[k] = q[k]
           /\ V!InsertAt(q, i + 1, e)[i + 1] = e
           /\ \A k \in i + 2 .. Len(q) + 1 : V!InsertAt(q, i + 1, e)[k] = q[k - 1]
<1>0. Len(q) \in Nat /\ i \in Nat /\ i <= Len(q)
  BY RowIs
<1>p. PICK p : p = SubSeq(q, 1, i)
  OBVIOUS
<1>r. PICK r : r = SubSeq(q, i + 1, Len(q))
  OBVIOUS
<1>1. p \in Row /\ Len(p) = i /\ \A k \in 1 .. i : p[k] = q[k]
  BY <1>p, Prefix
<1>2. r \in Row /\ Len(r) = Len(q) - i /\ \A k \in 1 .. Len(q) - i : r[k] = q[i + k]
  <2>1. Len(q) \in i .. Len(q)
    BY <1>0
  <2> QED
    BY <1>r, <2>1, SubRow
<1>3. PICK m : m = p \o <<e>>
  OBVIOUS
<1>4. m \in Row /\ Len(m) = i + 1 /\ (\A k \in 1 .. i : m[k] = q[k]) /\ m[i + 1] = e
  <2>1. m = Append(p, e)
    BY <1>1, <1>3, AppendIsConcat DEF Row
  <2> QED
    BY <1>1, <2>1, AppendProperties DEF Row
<1>5. /\ m \o r \in Row /\ Len(m \o r) = (i + 1) + (Len(q) - i)
      /\ \A k \in 1 .. i + 1 : (m \o r)[k] = m[k]
      /\ \A k \in 1 .. Len(q) - i : (m \o r)[(i + 1) + k] = r[k]
  <2>1. /\ m \o r \in Row /\ Len(m \o r) = Len(m) + Len(r)
        /\ \A k \in 1 .. Len(m) : (m \o r)[k] = m[k]
        /\ \A k \in 1 .. Len(r) : (m \o r)[Len(m) + k] = r[k]
    BY <1>2, <1>4, TwoRows
  <2> QED
    BY <1>2, <1>4, <2>1
<1>6. V!InsertAt(q, i + 1, e) = m \o r
  <2>1. (i + 1) - 1 = i
    BY <1>0
  <2> QED
    BY <1>p, <1>r, <1>3, <2>1 DEF V!InsertAt
<1>7. ASSUME NEW k \in i + 2 .. Len(q) + 1 PROVE (m \o r)[k] = q[k - 1]
  <2>1. k - (i + 1) \in 1 .. Len(q) - i /\ (i + 1) + (k - (i + 1)) = k /\ i + (k - (i + 1)) = k - 1
    BY <1>0
  <2> QED
    BY <1>2, <1>5, <2>1
<1>8. (i + 1) + (Len(q) - i) = Len(q) + 1 /\ (\A k \in 1 .. i : k \in 1 .. i + 1) /\ i + 1 \in 1 .. i + 1
  BY <1>0
<1> QED
  BY <1>4, <1>5, <1>6, <1>7, <1>8

\* ArrayVec::insert shifts the cells up and adds one element to the sequence.
LEMMA InsertAdds ==
    ASSUME NEW s \in Vectors, ~V!IsHeap(s), s.len < Cap, NEW i \in Nat, i <= Len(V!as_slice(s)), NEW e \in Elements
    PROVE  V!insert(s, i, e) \in Vectors /\ V!as_slice(V!insert(s, i, e)) = V!InsertAt(V!as_slice(s), i + 1, e)
<1>q. PICK q \in Row : q = V!as_slice(s)
  BY Slice
<1>w. PICK w : w = V!InsertAt(q, i + 1, e)
  OBVIOUS
<1>0. Len(q) \in Nat /\ i \in 0 .. Len(q)
  BY <1>q, RowIs
<1>1. /\ w \in Row /\ Len(w) = Len(q) + 1
      /\ \A k \in 1 .. i : w[k] = q[k]
      /\ w[i + 1] = e
      /\ \A k \in i + 2 .. Len(q) + 1 : w[k] = q[k - 1]
  BY <1>0, <1>w, InsertedRow
<1>2. s.len \in Nat /\ Len(q) = s.len /\ s.len <= Cap /\ \A j \in 0 .. s.len - 1 : q[j + 1] = s.items[j]
  BY <1>q, CellsAre
<1>3. PICK cells : cells = [j \in 0 .. Cap - 1 |-> CASE j = i -> e
                                                     [] j \in i + 1 .. s.len -> s.items[j - 1]
                                                     [] OTHER -> s.items[j]]
  OBVIOUS
<1>4. \A j \in 0 .. Cap - 1 : cells[j] = IF j = i THEN e ELSE IF j \in i + 1 .. s.len THEN s.items[j - 1] ELSE s.items[j]
  BY <1>0, <1>3
<1>5. DOMAIN s.items = 0 .. Cap - 1 /\ s.items \in [0 .. Cap - 1 -> Elements]
  BY DEF Vectors
<1>6. V!insert(s, i, e) = [s EXCEPT !.len = s.len + 1, !.items = cells]
  BY <1>3, <1>5 DEF V!insert, Vectors
<1>7. cells \in [0 .. Cap - 1 -> Elements]
  <2>1. \A j \in 0 .. Cap - 1 : j \in i + 1 .. s.len => j - 1 \in 0 .. Cap - 1
    BY <1>0, <1>2, CollectionsAssumption
  <2>2. \A j \in 0 .. Cap - 1 : cells[j] \in Elements
    BY <1>4, <1>5, <2>1
  <2> QED
    BY <1>3, <2>2
<1>8. s.len + 1 \in 0 .. Cap
  BY <1>2, CollectionsAssumption
<1>9. /\ V!insert(s, i, e) \in Vectors /\ ~V!IsHeap(V!insert(s, i, e))
      /\ V!insert(s, i, e).len = s.len + 1 /\ V!insert(s, i, e).items = cells
  BY <1>6, <1>7, <1>8 DEF Vectors, V!IsHeap
<1>10. ASSUME NEW j \in 0 .. (s.len + 1) - 1 PROVE cells[j] = w[j + 1]
  <2>1. j \in 0 .. Cap - 1 /\ j \in Nat
    BY <1>2, CollectionsAssumption
  <2>2. CASE j < i
    <3>1. j + 1 \in 1 .. i /\ j \in 0 .. s.len - 1 /\ ~(j \in i + 1 .. s.len) /\ j # i
      BY <1>0, <1>2, <2>2
    <3> QED
      BY <1>1, <1>2, <1>4, <2>1, <3>1
  <2>3. CASE j = i
    BY <1>1, <1>4, <2>1, <2>3
  <2>4. CASE j > i
    <3>1. /\ j + 1 \in i + 2 .. Len(q) + 1 /\ j - 1 \in 0 .. s.len - 1 /\ j \in i + 1 .. s.len /\ j # i
          /\ (j + 1) - 1 = j /\ (j - 1) + 1 = j
      BY <1>0, <1>2, <2>4
    <3>2. w[j + 1] = q[j] /\ q[j] = s.items[j - 1]
      BY <1>1, <1>2, <3>1
    <3> QED
      BY <1>4, <2>1, <3>1, <3>2
  <2> QED
    BY <1>0, <2>1, <2>2, <2>3, <2>4
<1>11. Len(w) = s.len + 1
  BY <1>1, <1>2
<1> QED
  BY <1>q, <1>w, <1>1, <1>9, <1>10, <1>11, Inline

\* n pops leave the first elements.
LEMMA TruncateKeeps ==
    ASSUME NEW s \in Vectors, NEW n \in Nat, n <= Len(V!as_slice(s))
    PROVE  V!truncate(s, n) \in Vectors /\ V!as_slice(V!truncate(s, n)) = SubSeq(V!as_slice(s), 1, n)
<1>q. PICK q \in Row : q = V!as_slice(s)
  BY Slice
<1>0. Len(q) \in Nat /\ n \in 0 .. Len(q)
  BY <1>q, RowIs
<1>p. PICK p : p = SubSeq(q, 1, n)
  OBVIOUS
<1>1. p \in Row /\ Len(p) = n /\ \A i \in 1 .. n : p[i] = q[i]
  BY <1>0, <1>p, Prefix
<1>2. CASE V!IsHeap(s)
  <2>1. s.vec = q
    BY <1>2, <1>q, Slice
  <2>2. V!truncate(s, n) = [s EXCEPT !.vec = p]
    BY <1>2, <1>p, <2>1 DEF V!truncate
  <2>3. V!truncate(s, n) \in Vectors /\ V!IsHeap(V!truncate(s, n)) /\ V!truncate(s, n).vec = p
    BY <1>2, <1>1, <2>2 DEF Vectors, V!IsHeap
  <2> QED
    BY <1>q, <1>p, <2>3, Slice
<1>3. CASE ~V!IsHeap(s)
  <2>1. s.len \in Nat /\ Len(q) = s.len /\ s.len <= Cap /\ \A j \in 0 .. s.len - 1 : q[j + 1] = s.items[j]
    BY <1>3, <1>q, CellsAre
  <2>2. n \in 0 .. Cap
    BY <1>0, <2>1, CollectionsAssumption
  <2>t. PICK t : t = V!truncate(s, n)
    OBVIOUS
  <2>3. t \in Vectors /\ ~V!IsHeap(t) /\ t.len = n /\ t.items = s.items
    <3>1. t = [s EXCEPT !.len = n]
      BY <1>3, <2>t DEF V!truncate
    <3> QED
      BY <1>3, <2>2, <3>1 DEF Vectors, V!IsHeap
  <2>4. \A j \in 0 .. n - 1 : t.items[j] = p[j + 1]
    <3>1. \A j \in 0 .. n - 1 : j \in 0 .. s.len - 1 /\ j + 1 \in 1 .. n
      BY <1>0, <2>1
    <3> QED
      BY <1>1, <2>1, <2>3, <3>1
  <2>5. V!as_slice(t) = p
    BY <1>1, <2>3, <2>4, Inline
  <2> QED
    BY <1>q, <1>p, <2>t, <2>3, <2>5
<1> QED
  BY <1>2, <1>3

\* A change of the slice in place is one of the sequence.
LEMMA SliceReplaced ==
    ASSUME NEW s \in Vectors, NEW q \in Row, Len(q) = Len(V!as_slice(s))
    PROVE  V!WithSlice(s, q) \in Vectors /\ V!as_slice(V!WithSlice(s, q)) = q
<1>1. CASE V!IsHeap(s)
  <2>1. V!WithSlice(s, q) = [s EXCEPT !.vec = q]
    BY <1>1 DEF V!WithSlice
  <2>2. V!WithSlice(s, q) \in Vectors /\ V!IsHeap(V!WithSlice(s, q)) /\ V!WithSlice(s, q).vec = q
    BY <1>1, <2>1 DEF Vectors, V!IsHeap
  <2> QED
    BY <2>2, Slice
<1>2. CASE ~V!IsHeap(s)
  <2>1. s.len \in Nat /\ Len(q) = s.len /\ s.len <= Cap
    BY <1>2, CellsAre
  <2>2. PICK cells : cells = [j \in 0 .. Cap - 1 |-> IF j < s.len THEN q[j + 1] ELSE s.items[j]]
    OBVIOUS
  <2>3. DOMAIN s.items = 0 .. Cap - 1 /\ s.items \in [0 .. Cap - 1 -> Elements]
    BY DEF Vectors
  <2>4. V!WithSlice(s, q) = [s EXCEPT !.items = cells]
    BY <1>2, <2>2, <2>3 DEF V!WithSlice, Vectors
  <2>5. cells \in [0 .. Cap - 1 -> Elements]
    <3>1. \A i \in 1 .. s.len : q[i] \in Elements
      BY <2>1, RowIs
    <3>2. \A j \in 0 .. Cap - 1 : j < s.len => j + 1 \in 1 .. s.len
      BY <2>1, CollectionsAssumption
    <3> QED
      BY <2>2, <2>3, <3>1, <3>2
  <2>6. /\ V!WithSlice(s, q) \in Vectors /\ ~V!IsHeap(V!WithSlice(s, q))
        /\ V!WithSlice(s, q).len = s.len /\ V!WithSlice(s, q).items = cells
    BY <1>2, <2>4, <2>5 DEF Vectors, V!IsHeap
  <2>7. \A j \in 0 .. s.len - 1 : cells[j] = q[j + 1]
    <3>1. \A j \in 0 .. s.len - 1 : j \in 0 .. Cap - 1 /\ j < s.len
      BY <2>1, CollectionsAssumption
    <3> QED
      BY <2>2, <3>1
  <2> QED
    BY <2>1, <2>6, <2>7, Inline
<1> QED
  BY <1>1, <1>2

-----------------------------------------------------------------------------
(* Iterators                                                               *)

\* The places from start up to end have elements.
IsIterator(it) ==
    /\ it = [heap |-> it.heap, items |-> it.items, start |-> it.start, end |-> it.end]
    /\ it.start \in Nat /\ it.end \in Nat /\ it.start <= it.end
    /\ \A j \in it.start .. it.end - 1 : it.items[j] \in Elements

\* What an iterator still has to give is a row.
LEMMA RemainingIs ==
    ASSUME NEW it, IsIterator(it)
    PROVE  /\ V!Remaining(it) \in Row /\ Len(V!Remaining(it)) = it.end - it.start
           /\ \A i \in 1 .. it.end - it.start : V!Remaining(it)[i] = it.items[it.start + i - 1]
<1>n. PICK n \in Nat : n = it.end - it.start
  BY DEF IsIterator
<1>1. \A i \in 1 .. n : it.start + i - 1 \in it.start .. it.end - 1
  BY <1>n DEF IsIterator
<1>2. PICK q : q = [i \in 1 .. n |-> it.items[it.start + i - 1]]
  OBVIOUS
<1>3. q \in [1 .. n -> Elements]
  BY <1>1, <1>2 DEF IsIterator
<1>4. q \in Row /\ Len(q) = n
  BY <1>3, AsRow DEF Row
<1>5. V!Remaining(it) = q
  BY <1>n, <1>2 DEF V!Remaining
<1> QED
  BY <1>n, <1>2, <1>4, <1>5

\* into_iter and drain put the range into the iterator.
LEMMA IterHolds ==
    ASSUME NEW s \in Vectors, NEW a \in 0 .. Len(V!as_slice(s)), NEW b \in a .. Len(V!as_slice(s))
    PROVE  IsIterator(V!IterOf(s, a, b)) /\ V!Remaining(V!IterOf(s, a, b)) = SubSeq(V!as_slice(s), a + 1, b)
<1>q. PICK q \in Row : q = V!as_slice(s)
  BY Slice
<1>0. Len(q) \in Nat /\ a \in 0 .. Len(q) /\ b \in a .. Len(q) /\ \A i \in 1 .. Len(q) : q[i] \in Elements
  BY <1>q, RowIs
<1>1. PICK it : it = V!IterOf(s, a, b)
  OBVIOUS
<1>2. /\ it = [heap |-> it.heap, items |-> it.items, start |-> it.start, end |-> it.end]
      /\ it.start = 0 /\ it.end = b - a /\ it.items = [j \in 0 .. b - a - 1 |-> q[a + j + 1]]
  BY <1>q, <1>1 DEF V!IterOf
<1>3. \A j \in 0 .. b - a - 1 : a + j + 1 \in 1 .. Len(q)
  BY <1>0
<1>4. IsIterator(it)
  <2>1. b - a \in Nat /\ 0 <= b - a
    BY <1>0
  <2>2. \A j \in 0 .. b - a - 1 : it.items[j] \in Elements
    BY <1>0, <1>2, <1>3
  <2> QED
    BY <1>2, <2>1, <2>2 DEF IsIterator
<1>5. PICK p \in Row : p = SubSeq(q, a + 1, b) /\ Len(p) = b - a /\ \A i \in 1 .. b - a : p[i] = q[a + i]
  BY <1>0, SubRow
<1>6. PICK r : r = V!Remaining(it)
  OBVIOUS
<1>7. r \in Row /\ Len(r) = b - a /\ \A i \in 1 .. b - a : r[i] = it.items[i - 1]
  <2>1. it.end - it.start = b - a /\ \A i \in 1 .. b - a : it.start + i - 1 = i - 1
    BY <1>0, <1>2
  <2>2. /\ r \in Row /\ Len(r) = it.end - it.start
        /\ \A i \in 1 .. it.end - it.start : r[i] = it.items[it.start + i - 1]
    BY <1>4, <1>6, RemainingIs
  <2> QED
    BY <2>1, <2>2
<1>8. ASSUME NEW i \in 1 .. b - a PROVE r[i] = p[i]
  <2>1. i - 1 \in 0 .. b - a - 1 /\ a + (i - 1) + 1 = a + i
    BY <1>0
  <2>2. it.items[i - 1] = q[a + (i - 1) + 1]
    BY <1>2, <2>1
  <2> QED
    BY <1>5, <1>7, <2>1, <2>2
<1>9. r = p
  BY <1>5, <1>7, <1>8, SameRow
<1> QED
  BY <1>q, <1>1, <1>4, <1>5, <1>6, <1>9

-----------------------------------------------------------------------------
(* Picked elements                                                         *)

\* Cardinality counts the same inside V as outside.
LEMMA SameCardinality == \A S : V!Cardinality(S) = Cardinality(S)
BY DEF V!Cardinality, Cardinality

Below(idx, i) == Cardinality({k \in idx : k < i})

\* Nth counts the members of a set from the smallest one on.
LEMMA NthIs ==
    ASSUME NEW idx \in SUBSET Nat, IsFiniteSet(idx)
    PROVE  /\ Cardinality(idx) \in Nat
           /\ \A j \in 1 .. Cardinality(idx) : V!Nth(idx, j) \in idx /\ Below(idx, V!Nth(idx, j)) = j - 1
           /\ \A i \in idx : Below(idx, i) + 1 \in 1 .. Cardinality(idx) /\ V!Nth(idx, Below(idx, i) + 1) = i
<1>m. PICK m \in Nat : m = Cardinality(idx)
  BY FS_CardinalityType
<1>1. ASSUME NEW S \in SUBSET idx PROVE IsFiniteSet(S) /\ Cardinality(S) \in 0 .. m
  <2>1. IsFiniteSet(S) /\ Cardinality(S) <= m
    BY <1>m, FS_Subset
  <2> QED
    BY <2>1, FS_CardinalityType
<1>2. ASSUME NEW S \in SUBSET idx, NEW T \in SUBSET idx, NEW x \in T, x \notin S, S \subseteq T
      PROVE  Cardinality(S) < Cardinality(T)
  <2>1. IsFiniteSet(T) /\ Cardinality(T) \in Nat /\ Cardinality(S) \in Nat
    BY <1>1
  <2>2. IsFiniteSet(T \ {x}) /\ Cardinality(T \ {x}) = Cardinality(T) - 1
    BY <2>1, FS_RemoveElement
  <2>3. S \in SUBSET (T \ {x})
    BY <1>2
  <2>4. Cardinality(S) <= Cardinality(T \ {x})
    BY <2>2, <2>3, FS_Subset
  <2> QED
    BY <2>1, <2>2, <2>4
<1>3. ASSUME NEW i \in idx PROVE Below(idx, i) \in 0 .. m - 1
  <2>1. {k \in idx : k < i} \in SUBSET idx /\ i \notin {k \in idx : k < i} /\ idx \in SUBSET idx
    OBVIOUS
  <2>2. Cardinality({k \in idx : k < i}) < Cardinality(idx)
    BY <1>2, <2>1
  <2>3. Cardinality({k \in idx : k < i}) \in 0 .. m
    BY <1>1, <2>1
  <2> QED
    BY <1>m, <2>2, <2>3 DEF Below
<1>4. ASSUME NEW i \in idx, NEW j \in idx, i < j PROVE Below(idx, i) < Below(idx, j)
  <2>1. /\ {k \in idx : k < i} \in SUBSET idx /\ {k \in idx : k < j} \in SUBSET idx
        /\ i \in {k \in idx : k < j} /\ i \notin {k \in idx : k < i}
    BY <1>4
  <2>2. {k \in idx : k < i} \subseteq {k \in idx : k < j}
    <3>1. \A k \in idx : k < i => k < j
      BY <1>4
    <3> QED
      BY <3>1
  <2> QED
    BY <1>2, <2>1, <2>2 DEF Below
<1>5. \A i, j \in idx : Below(idx, i) = Below(idx, j) => i = j
  <2> SUFFICES ASSUME NEW i \in idx, NEW j \in idx, i # j PROVE Below(idx, i) # Below(idx, j)
    OBVIOUS
  <2>1. Below(idx, i) \in Nat /\ Below(idx, j) \in Nat
    BY <1>3
  <2>2. i < j \/ j < i
    OBVIOUS
  <2> QED
    BY <1>4, <2>1, <2>2
<1>6. \A j \in 1 .. m : \E i \in idx : Below(idx, i) = j - 1
  <2>1. PICK r : r = [i \in idx |-> Below(idx, i) + 1]
    OBVIOUS
  <2>2. r \in [idx -> 1 .. Cardinality(idx)]
    BY <1>m, <1>3, <2>1
  <2>3. \A i, j \in idx : r[i] = r[j] => i = j
    BY <1>3, <1>5, <2>1
  <2>4. \A k \in 1 .. Cardinality(idx) : \E i \in idx : r[i] = k
    BY <2>2, <2>3, RanksAreTaken
  <2> QED
    BY <1>m, <1>3, <2>1, <2>4
<1>7. ASSUME NEW j \in 1 .. m PROVE V!Nth(idx, j) \in idx /\ Below(idx, V!Nth(idx, j)) = j - 1
  <2>1. V!Nth(idx, j) = CHOOSE i \in idx : Below(idx, i) = j - 1
    BY SameCardinality DEF V!Nth, Below
  <2>2. \E i \in idx : Below(idx, i) = j - 1
    BY <1>6
  <2> QED
    BY <2>1, <2>2
<1>8. ASSUME NEW i \in idx PROVE Below(idx, i) + 1 \in 1 .. m /\ V!Nth(idx, Below(idx, i) + 1) = i
  <2>1. Below(idx, i) \in 0 .. m - 1 /\ Below(idx, i) + 1 \in 1 .. m /\ (Below(idx, i) + 1) - 1 = Below(idx, i)
    BY <1>3
  <2>2. V!Nth(idx, Below(idx, i) + 1) \in idx /\ Below(idx, V!Nth(idx, Below(idx, i) + 1)) = Below(idx, i)
    BY <1>7, <2>1
  <2> QED
    BY <1>5, <2>1, <2>2
<1> QED
  BY <1>m, <1>7, <1>8

\* Picked is a row with one element for each place.
LEMMA PickedIs ==
    ASSUME NEW q \in Row, NEW idx \in SUBSET (0 .. Len(q) - 1)
    PROVE  /\ IsFiniteSet(idx) /\ idx \in SUBSET Nat
           /\ V!Picked(q, idx) \in Row /\ Len(V!Picked(q, idx)) = Cardinality(idx)
           /\ \A j \in 1 .. Cardinality(idx) : V!Nth(idx, j) \in idx /\ V!Picked(q, idx)[j] = q[V!Nth(idx, j) + 1]
<1>0. Len(q) \in Nat /\ \A i \in 1 .. Len(q) : q[i] \in Elements
  BY RowIs
<1>1. IsFiniteSet(idx) /\ idx \in SUBSET Nat
  <2>1. IsFiniteSet(0 .. Len(q) - 1)
    BY <1>0, FS_Interval
  <2>2. IsFiniteSet(idx)
    BY <2>1, FS_Subset
  <2> QED
    BY <1>0, <2>2
<1>m. PICK m \in Nat : m = Cardinality(idx)
  BY <1>1, FS_CardinalityType
<1>2. \A j \in 1 .. m : V!Nth(idx, j) \in idx
  BY <1>1, <1>m, NthIs
<1>3. PICK p : p = [j \in 1 .. m |-> q[V!Nth(idx, j) + 1]]
  OBVIOUS
<1>4. p \in [1 .. m -> Elements]
  <2>1. \A j \in 1 .. m : V!Nth(idx, j) + 1 \in 1 .. Len(q)
    <3>1. \A i \in idx : i + 1 \in 1 .. Len(q)
      BY <1>0
    <3> QED
      BY <1>2, <3>1
  <2> QED
    BY <1>0, <1>3, <2>1
<1>5. p \in Row /\ Len(p) = m
  BY <1>4, AsRow DEF Row
<1>6. V!Picked(q, idx) = p
  BY <1>m, <1>3, SameCardinality DEF V!Picked
<1> QED
  BY <1>1, <1>m, <1>2, <1>3, <1>5, <1>6

\* The last place that is picked gives the last element.
LEMMA PickedMore ==
    ASSUME NEW q \in Row, NEW n \in Nat, n < Len(q), NEW idx \in SUBSET (0 .. n - 1)
    PROVE  V!Picked(q, idx \cup {n}) = Append(V!Picked(q, idx), q[n + 1])
<1>0. Len(q) \in Nat /\ n + 1 \in 1 .. Len(q) /\ q[n + 1] \in Elements
  BY RowIs
<1>d. PICK idn : idn = idx \cup {n}
  OBVIOUS
<1>1. idx \in SUBSET (0 .. Len(q) - 1) /\ idn \in SUBSET (0 .. Len(q) - 1) /\ n \notin idx
  BY <1>0, <1>d
<1>m. PICK m : m = Cardinality(idx)
  OBVIOUS
<1>2. /\ IsFiniteSet(idx) /\ idx \in SUBSET Nat
      /\ V!Picked(q, idx) \in Row /\ Len(V!Picked(q, idx)) = m
      /\ \A j \in 1 .. m : V!Nth(idx, j) \in idx /\ V!Picked(q, idx)[j] = q[V!Nth(idx, j) + 1]
  BY <1>1, <1>m, PickedIs
<1>3. m \in Nat /\ Cardinality(idn) = m + 1
  <2>1. m \in Nat
    BY <1>2, <1>m, FS_CardinalityType
  <2> QED
    BY <1>1, <1>2, <1>d, <1>m, <2>1, FS_AddElement
<1>4. /\ IsFiniteSet(idn) /\ idn \in SUBSET Nat
      /\ V!Picked(q, idn) \in Row /\ Len(V!Picked(q, idn)) = m + 1
      /\ \A j \in 1 .. m + 1 : V!Picked(q, idn)[j] = q[V!Nth(idn, j) + 1]
  BY <1>1, <1>3, PickedIs
<1>5. \A i \in idn : V!Nth(idn, Below(idn, i) + 1) = i
  BY <1>4, NthIs
<1>6. \A i \in idx : Below(idn, i) = Below(idx, i)
  <2> SUFFICES ASSUME NEW i \in idx PROVE Below(idn, i) = Below(idx, i)
    OBVIOUS
  <2>1. {k \in idn : k < i} = {k \in idx : k < i}
    BY <1>d, <1>2
  <2> QED
    BY <2>1 DEF Below
<1>7. Below(idn, n) = m
  <2>1. \A k \in idx : k < n
    BY <1>2
  <2>2. ~(n < n)
    OBVIOUS
  <2>3. {k \in idn : k < n} = idx
    BY <1>d, <2>1, <2>2
  <2> QED
    BY <1>m, <2>3 DEF Below
<1>8. V!Nth(idn, m + 1) = n
  BY <1>d, <1>5, <1>7
<1>9. ASSUME NEW j \in 1 .. m PROVE V!Nth(idn, j) = V!Nth(idx, j)
  <2>1. PICK i : i = V!Nth(idx, j)
    OBVIOUS
  <2>2. i \in idx /\ Below(idx, i) = j - 1
    BY <1>2, <1>m, <2>1, NthIs
  <2>3. i \in idn /\ Below(idn, i) + 1 = j
    <3>1. Below(idn, i) = j - 1 /\ (j - 1) + 1 = j
      BY <1>6, <2>2
    <3> QED
      BY <1>d, <2>2, <3>1
  <2> QED
    BY <1>5, <2>1, <2>3
<1>10. PICK p \in Row : p = V!Picked(q, idx)
  BY <1>2
<1>11. /\ Append(p, q[n + 1]) \in Row /\ Len(Append(p, q[n + 1])) = m + 1
       /\ \A j \in 1 .. m : Append(p, q[n + 1])[j] = p[j]
       /\ Append(p, q[n + 1])[m + 1] = q[n + 1]
  BY <1>0, <1>2, <1>10, AppendProperties DEF Row
<1>12. ASSUME NEW j \in 1 .. m + 1 PROVE V!Picked(q, idn)[j] = Append(p, q[n + 1])[j]
  <2>1. CASE j = m + 1
    BY <1>4, <1>8, <1>11, <2>1
  <2>2. CASE j # m + 1
    <3>1. j \in 1 .. m
      BY <1>3, <2>2
    <3> QED
      BY <1>2, <1>4, <1>9, <1>10, <1>11, <3>1
  <2> QED
    BY <2>1, <2>2
<1> QED
  BY <1>d, <1>4, <1>10, <1>11, <1>12, SameRow

\* Without a place nothing is picked.
LEMMA PickedNone == \A q \in Row : V!Picked(q, {}) = <<>>
<1> SUFFICES ASSUME NEW q \in Row PROVE V!Picked(q, {}) = <<>>
  OBVIOUS
<1>1. {} \in SUBSET (0 .. Len(q) - 1)
  OBVIOUS
<1>2. V!Picked(q, {}) \in Row /\ Len(V!Picked(q, {})) = Cardinality({})
  BY <1>1, PickedIs
<1> QED
  BY <1>2, FS_EmptySet, RowIs

-----------------------------------------------------------------------------
(* The loop of retain                                                      *)

\* What one round of the loop makes of the vector
RetainRound(kept, i, p) ==
    IF i - 1 \in kept THEN [p EXCEPT !.items[p.len] = p.items[i - 1], !.len = @ + 1] ELSE p

Retaining(s, n, kept, after) ==
    /\ after[0] = [s EXCEPT !.len = 0]
    /\ V!RetainLoop(s, n, kept) = after[n]
    /\ \A i \in 1 .. n : after[i] = RetainRound(kept, i, after[i - 1])

\* The recursive function of retain's loop exists.
LEMMA RetainCourse ==
    ASSUME NEW s \in Vectors, NEW n \in Nat, n <= Cap, NEW kept
    PROVE  \E after : Retaining(s, n, kept, after)
<1> DEFINE course(f) == [i \in 0 .. n |-> IF i = 0 THEN [s EXCEPT !.len = 0]
                                         ELSE LET p == f[i - 1]
                                              IN  IF i - 1 \in kept
                                                  THEN [p EXCEPT !.items[p.len] = p.items[i - 1], !.len = @ + 1]
                                                  ELSE p]
<1>1. PICK after : after = (CHOOSE f : f = course(f)) /\ V!RetainLoop(s, n, kept) = after[n]
  BY DEF V!RetainLoop
<1>2. \E f : f = course(f)
  <2> DEFINE S == [storage : {"array", "inline", "heap"}, items : [0 .. Cap - 1 -> Elements], len : Nat, vec : Row]
  <2>1. PICK g : g = [i \in 1 .. n |-> [v \in S |-> RetainRound(kept, i, v)]]
    OBVIOUS
  <2>2. ASSUME NEW i \in 1 .. n, NEW v \in S PROVE RetainRound(kept, i, v) \in S
    <3>1. i - 1 \in 0 .. Cap - 1
      BY CollectionsAssumption
    <3>2. v.items \in [0 .. Cap - 1 -> Elements] /\ v.len \in Nat
      OBVIOUS
    <3>3. v.items[i - 1] \in Elements /\ v.len + 1 \in Nat
      <4> HIDE DEF S
      <4>1. v.items[i - 1] \in Elements
        BY <3>1, <3>2
      <4> QED
        BY <3>2, <4>1
    <3>4. [v.items EXCEPT ![v.len] = v.items[i - 1]] \in [0 .. Cap - 1 -> Elements]
      BY <3>2, <3>3
    <3>5. [v EXCEPT !.items[v.len] = v.items[i - 1], !.len = @ + 1] \in S
      BY <3>3, <3>4
    <3> QED
      BY <3>5 DEF RetainRound
  <2>3. [s EXCEPT !.len = 0] \in S
    BY DEF Vectors
  <2>s. PICK F : F = [i \in 0 .. n |-> S]
    OBVIOUS
  <2>4. [s EXCEPT !.len = 0] \in F[0] /\ Steps(n, F, g)
    <3> HIDE DEF S
    <3> QED
      BY <2>s, <2>1, <2>2, <2>3 DEF Steps
  <2>5. PICK f : Course(n, [s EXCEPT !.len = 0], g, f) /\ \A i \in 0 .. n : f[i] \in F[i]
    <3> HIDE DEF S
    <3> QED
      BY <2>4, LoopRuns
  <2>6. \A i \in 0 .. n : i # 0 => i \in 1 .. n /\ i - 1 \in 0 .. n
    OBVIOUS
  <2>7. \A i \in 0 .. n : f[i] = IF i = 0 THEN [s EXCEPT !.len = 0] ELSE RetainRound(kept, i, f[i - 1])
    <3> HIDE DEF S
    <3> QED
      BY <2>s, <2>1, <2>5, <2>6 DEF Course
  <2>8. f = [i \in 0 .. n |-> f[i]]
    BY <2>5 DEF Course
  <2>9. course(f) = [i \in 0 .. n |-> IF i = 0 THEN [s EXCEPT !.len = 0] ELSE RetainRound(kept, i, f[i - 1])]
    BY DEF RetainRound
  <2> HIDE DEF course
  <2>10. f = course(f)
    BY <2>7, <2>8, <2>9
  <2> QED
    BY <2>10
<1>3. after = course(after)
  <2> HIDE DEF course
  <2> QED
    BY <1>1, <1>2, Zenon
<1>4. \A i \in 0 .. n : after[i] = IF i = 0 THEN [s EXCEPT !.len = 0] ELSE RetainRound(kept, i, after[i - 1])
  <2>1. \A i \in 0 .. n : course(after)[i] = IF i = 0 THEN [s EXCEPT !.len = 0] ELSE RetainRound(kept, i, after[i - 1])
    BY DEF RetainRound
  <2> HIDE DEF course
  <2> QED
    BY <1>3, <2>1
<1>5. 0 \in 0 .. n /\ \A i \in 1 .. n : i \in 0 .. n /\ i # 0
  OBVIOUS
<1> HIDE DEF course
<1> QED
  BY <1>1, <1>4, <1>5 DEF Retaining

\* retain's loop moves down what passes the test and leaves nothing else.
LEMMA RetainKeeps ==
    ASSUME NEW s \in Vectors, ~V!IsHeap(s), NEW n \in Nat, n <= s.len, NEW kept \in SUBSET (0 .. n - 1)
    PROVE  V!RetainLoop(s, n, kept) \in Vectors /\ V!as_slice(V!RetainLoop(s, n, kept)) = V!Picked(V!as_slice(s), kept)
<1>q. PICK q \in Row : q = V!as_slice(s)
  BY Slice
<1>0. /\ s.len \in Nat /\ Len(q) = s.len /\ s.len <= Cap /\ n <= Cap
      /\ \A j \in 0 .. s.len - 1 : q[j + 1] = s.items[j]
  BY <1>q, CellsAre, CollectionsAssumption
<1>a. PICK after : Retaining(s, n, kept, after)
  BY <1>0, RetainCourse
<1>1. /\ after[0] = [s EXCEPT !.len = 0]
      /\ V!RetainLoop(s, n, kept) = after[n]
      /\ \A i \in 1 .. n : after[i] = RetainRound(kept, i, after[i - 1])
  BY <1>a DEF Retaining
<1> DEFINE passed(i) == kept \cap (0 .. i - 1)
           holds(i) == /\ after[i] \in Vectors /\ ~V!IsHeap(after[i]) /\ after[i].len <= i
                       /\ V!as_slice(after[i]) = V!Picked(q, passed(i))
                       /\ \A j \in i .. Cap - 1 : after[i].items[j] = s.items[j]
<1>2. holds(0)
  <2>1. after[0] \in Vectors /\ ~V!IsHeap(after[0]) /\ after[0].len = 0 /\ after[0].items = s.items
    BY <1>1, CollectionsAssumption DEF Vectors, V!IsHeap
  <2>2. passed(0) = {}
    OBVIOUS
  <2>3. V!as_slice(after[0]) = <<>>
    BY <2>1, Slice, RowIs
  <2> QED
    BY <2>1, <2>2, <2>3, PickedNone
<1>3. ASSUME NEW i \in 1 .. n, holds(i - 1)
      PROVE  holds(i)
  <2>p. PICK p : p = after[i - 1]
    OBVIOUS
  <2>1. after[i] = RetainRound(kept, i, p)
    BY <1>1, <2>p
  <2>2. /\ p \in Vectors /\ ~V!IsHeap(p) /\ p.len <= i - 1
        /\ V!as_slice(p) = V!Picked(q, passed(i - 1))
        /\ \A j \in i - 1 .. Cap - 1 : p.items[j] = s.items[j]
    BY <1>3, <2>p
  <2>3. /\ i - 1 \in i - 1 .. Cap - 1 /\ i - 1 \in 0 .. s.len - 1 /\ (i - 1) + 1 = i
        /\ \A j \in i .. Cap - 1 : j \in i - 1 .. Cap - 1 /\ j \in 0 .. Cap - 1
    BY <1>0, CollectionsAssumption
  <2>4. p.len \in Nat /\ p.len \in 0 .. Cap - 1 /\ p.items \in [0 .. Cap - 1 -> Elements]
    BY <1>0, <2>2, <2>3, CollectionsAssumption DEF Vectors
  <2>5. CASE i - 1 \in kept
    <3>1. after[i] = [p EXCEPT !.items[p.len] = p.items[i - 1], !.len = @ + 1]
      BY <2>1, <2>5 DEF RetainRound
    <3>2. p.items[i - 1] = q[i] /\ q[i] \in Elements
      <4>1. i \in 1 .. Len(q)
        BY <1>0
      <4> QED
        BY <1>0, <2>2, <2>3, <4>1, RowIs
    <3>3. after[i] = V!push(p, q[i])
      <4>1. p.len # Cap
        BY <2>4, CollectionsAssumption
      <4> QED
        BY <2>2, <3>1, <3>2, <4>1 DEF V!push
    <3>4. after[i] \in Vectors /\ V!as_slice(after[i]) = Append(V!Picked(q, passed(i - 1)), q[i])
      BY <2>2, <3>2, <3>3, PushAppends
    <3>5. passed(i) = passed(i - 1) \cup {i - 1} /\ passed(i - 1) \in SUBSET (0 .. (i - 1) - 1)
      BY <2>5
    <3>6. V!Picked(q, passed(i)) = Append(V!Picked(q, passed(i - 1)), q[i])
      <4>1. i - 1 \in Nat /\ i - 1 < Len(q)
        BY <1>0
      <4> HIDE DEF passed
      <4> QED
        BY <2>3, <3>5, <4>1, PickedMore
    <3>7. /\ ~V!IsHeap(after[i]) /\ after[i].len = p.len + 1
          /\ after[i].items = [p.items EXCEPT ![p.len] = p.items[i - 1]]
      BY <2>2, <3>1 DEF Vectors, V!IsHeap
    <3>8. after[i].len <= i
      BY <2>2, <2>4, <3>7
    <3>9. ASSUME NEW j \in i .. Cap - 1 PROVE after[i].items[j] = s.items[j]
      <4>1. j # p.len /\ j \in i - 1 .. Cap - 1 /\ j \in 0 .. Cap - 1
        BY <2>2, <2>3, <2>4
      <4> QED
        BY <2>2, <2>4, <3>7, <4>1
    <3> HIDE DEF passed
    <3> QED
      BY <3>4, <3>6, <3>7, <3>8, <3>9
  <2>6. CASE i - 1 \notin kept
    <3>1. after[i] = p
      BY <2>1, <2>6 DEF RetainRound
    <3>2. passed(i) = passed(i - 1)
      BY <2>6
    <3>3. p.len <= i
      BY <2>2, <2>4
    <3> QED
      BY <2>2, <2>3, <3>1, <3>2, <3>3
  <2> QED
    BY <2>5, <2>6
<1>4. holds(n)
  <2> DEFINE H == {i \in 0 .. n : holds(i)}
  <2> HIDE DEF holds
  <2>1. 0 \in H /\ \A i \in 1 .. n : i - 1 \in H => i \in H
    BY <1>2, <1>3
  <2>2. 0 .. n \subseteq H
    <3> HIDE DEF H
    <3> QED
      BY <2>1, StepInduction
  <2> QED
    BY <2>2
<1>5. passed(n) = kept
  OBVIOUS
<1> QED
  BY <1>q, <1>1, <1>4, <1>5

-----------------------------------------------------------------------------
(* Elements and their identities, and the loop of dedup                    *)

Ids(q) == {q[i][1] : i \in DOMAIN q}
Once(q) == \A i, j \in DOMAIN q : q[i][1] = q[j][1] => i = j

SameElements(p, q) == Len(p) = Len(q) /\ Ids(p) = Ids(q) /\ (Once(p) => Once(q))

\* A swap of two elements keeps them all.
LEMMA SwapKeeps ==
    ASSUME NEW q \in Row, NEW i \in 1 .. Len(q), NEW j \in 1 .. Len(q)
    PROVE  /\ V!Swap(q, i, j) \in Row /\ SameElements(q, V!Swap(q, i, j))
           /\ V!Swap(q, i, j)[i] = q[j]
           /\ \A n \in 1 .. Len(q) : n # i /\ n # j => V!Swap(q, i, j)[n] = q[n]
<1>n. PICK n \in Nat : n = Len(q) /\ DOMAIN q = 1 .. n /\ \A k \in 1 .. n : q[k] \in Elements
  BY RowIs
<1>t. PICK t : t = [k \in 1 .. n |-> IF k = i THEN j ELSE IF k = j THEN i ELSE k]
  OBVIOUS
<1>1. \A k \in 1 .. n : t[k] \in 1 .. n /\ t[t[k]] = k
  BY <1>n, <1>t
<1>2. PICK r : r = [k \in 1 .. n |-> q[t[k]]]
  OBVIOUS
<1>3. V!Swap(q, i, j) = r
  <2>1. V!Swap(q, i, j) = [k \in 1 .. n |-> CASE k = i -> q[j] [] k = j -> q[i] [] OTHER -> q[k]]
    BY <1>n DEF V!Swap
  <2>2. \A k \in 1 .. n : (CASE k = i -> q[j] [] k = j -> q[i] [] OTHER -> q[k]) = q[t[k]]
    BY <1>t
  <2> QED
    BY <1>2, <2>1, <2>2
<1>4. r \in Row /\ Len(r) = n /\ DOMAIN r = 1 .. n
  <2>1. r \in [1 .. n -> Elements]
    BY <1>n, <1>1, <1>2
  <2> QED
    BY <2>1, AsRow DEF Row
<1>5. Ids(q) = Ids(r)
  <2>1. \A k \in 1 .. n : r[k] = q[t[k]] /\ r[t[k]] = q[k]
    BY <1>1, <1>2
  <2> QED
    BY <1>n, <1>1, <1>4, <2>1 DEF Ids
<1>6. Once(q) => Once(r)
  <2> SUFFICES ASSUME Once(q), NEW k \in 1 .. n, NEW m \in 1 .. n, r[k][1] = r[m][1] PROVE k = m
    BY <1>4 DEF Once
  <2>1. q[t[k]][1] = q[t[m]][1]
    BY <1>2
  <2>2. t[k] = t[m]
    BY <1>n, <1>1, <2>1 DEF Once
  <2> QED
    BY <1>1, <2>2
<1>7. r[i] = q[j] /\ \A k \in 1 .. n : k # i /\ k # j => r[k] = q[k]
  BY <1>n, <1>t, <1>2
<1> QED
  BY <1>n, <1>3, <1>4, <1>5, <1>6, <1>7 DEF SameElements

\* What one round of the loop makes of <<slice, kept>>
DedupRound(size, n, v) ==
    IF n <= size /\ v[1][n][2] # v[1][v[2]][2] THEN <<V!Swap(v[1], v[2] + 1, n), v[2] + 1>> ELSE v

Deduping(slice, after) ==
    /\ after[1] = <<slice, 1>>
    /\ V!dedup(slice) = after[Len(slice) + 1]
    /\ \A n \in 2 .. Len(slice) + 1 : after[n] = DedupRound(Len(slice), n, after[n - 1])

\* The recursive function of dedup's loop exists.
LEMMA DedupCourse ==
    ASSUME NEW slice \in Row
    PROVE  \E after : Deduping(slice, after)
<1>m. PICK m \in Nat : m = Len(slice)
  BY RowIs
<1> DEFINE course(f) == [n \in 1 .. m + 1 |->
                            IF n = 1
                            THEN <<slice, 1>>
                            ELSE LET q == f[n - 1][1]  kept == f[n - 1][2]
                                 IN  IF n <= m /\ q[n][2] # q[kept][2]
                                     THEN <<V!Swap(q, kept + 1, n), kept + 1>>
                                     ELSE f[n - 1]]
<1>1. PICK after : after = (CHOOSE f : f = course(f)) /\ V!dedup(slice) = after[m + 1]
  BY <1>m DEF V!dedup
<1>2. \E f : f = course(f)
  <2>S. PICK S : S = [i \in 0 .. m |-> {q \in Row : Len(q) = m} \X (1 .. i + 1)]
    OBVIOUS
  <2>g. PICK g : g = [i \in 1 .. m |-> [v \in S[i - 1] |-> DedupRound(m, i + 1, v)]]
    OBVIOUS
  <2>1. ASSUME NEW i \in 1 .. m, NEW v \in S[i - 1] PROVE DedupRound(m, i + 1, v) \in S[i]
    <3>1. i \in 0 .. m /\ i - 1 \in 0 .. m /\ (i - 1) + 1 = i
      OBVIOUS
    <3>2. v \in {q \in Row : Len(q) = m} \X (1 .. i)
      BY <2>S, <3>1
    <3>3. PICK q \in Row, k \in 1 .. i : v = <<q, k>> /\ Len(q) = m
      BY <3>2
    <3>4. CASE i + 1 <= m
      <4>1. k + 1 \in 1 .. Len(q) /\ i + 1 \in 1 .. Len(q) /\ k + 1 \in 1 .. i + 1 /\ k \in 1 .. i + 1
        BY <3>3, <3>4
      <4>2. V!Swap(q, k + 1, i + 1) \in Row /\ Len(V!Swap(q, k + 1, i + 1)) = m
        BY <3>3, <4>1, SwapKeeps DEF SameElements
      <4>3. DedupRound(m, i + 1, v) \in {<<V!Swap(q, k + 1, i + 1), k + 1>>, <<q, k>>}
        BY <3>3 DEF DedupRound
      <4> QED
        BY <2>S, <3>1, <3>3, <4>1, <4>2, <4>3
    <3>5. CASE ~(i + 1 <= m)
      <4>1. DedupRound(m, i + 1, v) = <<q, k>> /\ k \in 1 .. i + 1
        BY <3>3, <3>5 DEF DedupRound
      <4> QED
        BY <2>S, <3>1, <3>3, <4>1
    <3> QED
      BY <3>4, <3>5
  <2>2. <<slice, 1>> \in S[0] /\ Steps(m, S, g)
    <3>1. <<slice, 1>> \in S[0]
      BY <1>m, <2>S
    <3> QED
      BY <2>g, <2>1, <3>1 DEF Steps
  <2>3. PICK f : Course(m, <<slice, 1>>, g, f) /\ \A i \in 0 .. m : f[i] \in S[i]
    BY <2>2, LoopRuns
  <2>4. \A i \in 1 .. m : f[i] = DedupRound(m, i + 1, f[i - 1])
    <3>1. \A i \in 1 .. m : i - 1 \in 0 .. m
      OBVIOUS
    <3> QED
      BY <2>g, <2>3, <3>1 DEF Course
  <2>5. PICK h : h = [n \in 1 .. m + 1 |-> f[n - 1]]
    OBVIOUS
  <2>6. ASSUME NEW n \in 1 .. m + 1
        PROVE  h[n] = IF n = 1 THEN <<slice, 1>> ELSE DedupRound(m, n, h[n - 1])
    <3>1. CASE n = 1
      BY <2>3, <2>5, <3>1 DEF Course
    <3>2. CASE n # 1
      <4>1. n - 1 \in 1 .. m /\ n - 1 \in 1 .. m + 1 /\ (n - 1) + 1 = n
        BY <3>2
      <4>2. h[n] = f[n - 1] /\ h[n - 1] = f[(n - 1) - 1]
        BY <2>5, <4>1
      <4> QED
        BY <2>4, <3>2, <4>1, <4>2
    <3> QED
      BY <3>1, <3>2
  <2>7. course(h) = [n \in 1 .. m + 1 |-> IF n = 1 THEN <<slice, 1>> ELSE DedupRound(m, n, h[n - 1])]
    BY DEF DedupRound
  <2>8. h = [n \in 1 .. m + 1 |-> h[n]]
    BY <2>5
  <2> HIDE DEF course
  <2>9. h = course(h)
    BY <2>6, <2>7, <2>8
  <2> QED
    BY <2>9
<1>3. after = course(after)
  <2> HIDE DEF course
  <2> QED
    BY <1>1, <1>2, Zenon
<1>4. \A n \in 1 .. m + 1 : after[n] = IF n = 1 THEN <<slice, 1>> ELSE DedupRound(m, n, after[n - 1])
  <2>1. \A n \in 1 .. m + 1 : course(after)[n] = IF n = 1 THEN <<slice, 1>> ELSE DedupRound(m, n, after[n - 1])
    BY DEF DedupRound
  <2> HIDE DEF course
  <2> QED
    BY <1>3, <2>1
<1>5. 1 \in 1 .. m + 1 /\ \A n \in 2 .. m + 1 : n \in 1 .. m + 1 /\ n # 1
  OBVIOUS
<1> HIDE DEF course
<1>6. Deduping(slice, after)
  BY <1>m, <1>1, <1>4, <1>5 DEF Deduping
<1> QED
  BY <1>6

\* The places of the elements that differ from the one before them
Firsts(q) == {i \in 0 .. Len(q) - 1 : i = 0 \/ q[i + 1][2] # q[i][2]}

\* dedup only swaps elements, and of each run of equal ones brings the first one down.
LEMMA DedupKeepsFirsts ==
    ASSUME NEW q \in Row, q # <<>>
    PROVE  \E r \in Row, kept \in 1 .. Len(q) :
              /\ V!dedup(q) = <<r, kept>> /\ SameElements(q, r)
              /\ SubSeq(r, 1, kept) = V!Picked(q, Firsts(q))
<1>n. PICK size \in Nat : size = Len(q) /\ size >= 1 /\ \A i \in 1 .. size : q[i] \in Elements
  BY RowIs
<1>a. PICK after : Deduping(q, after)
  BY DedupCourse
<1>1. /\ after[1] = <<q, 1>> /\ V!dedup(q) = after[size + 1]
      /\ \A n \in 2 .. size + 1 : after[n] = DedupRound(size, n, after[n - 1])
  BY <1>a, <1>n DEF Deduping
<1> DEFINE passed(n) == Firsts(q) \cap (0 .. n - 1)
           fits(n, r, k) == /\ r \in Row /\ SameElements(q, r) /\ k \in 1 .. n
                            /\ SubSeq(r, 1, k) = V!Picked(q, passed(n))
                            /\ r[k][2] = q[n][2]
                            /\ \A i \in n + 1 .. size : r[i] = q[i]
           holds(n) == \E r, k : after[n] = <<r, k>> /\ fits(n, r, k)
<1>2. holds(1)
  <2>1. SameElements(q, q)
    BY DEF SameElements
  <2>2. passed(1) = {} \cup {0}
    BY <1>n DEF Firsts
  <2>3. V!Picked(q, {} \cup {0}) = Append(<<>>, q[1])
    <3>1. 0 \in Nat /\ 0 < Len(q) /\ {} \in SUBSET (0 .. 0 - 1) /\ 0 + 1 = 1
      BY <1>n
    <3>2. V!Picked(q, {} \cup {0}) = Append(V!Picked(q, {}), q[0 + 1])
      BY <3>1, PickedMore
    <3> QED
      BY <3>1, <3>2, PickedNone
  <2>4. /\ Append(<<>>, q[1]) \in Row /\ Len(Append(<<>>, q[1])) = 1 /\ Append(<<>>, q[1])[1] = q[1]
    BY <1>n, NoRow, AppendProperties DEF Row
  <2>5. SubSeq(q, 1, 1) \in Row /\ Len(SubSeq(q, 1, 1)) = 1 /\ SubSeq(q, 1, 1)[1] = q[1]
    <3>1. 1 \in 0 .. Len(q) /\ 1 \in 1 .. 1
      BY <1>n
    <3> QED
      BY <3>1, Prefix
  <2>6. SubSeq(q, 1, 1) = Append(<<>>, q[1])
    <3>1. \A i \in 1 .. 1 : SubSeq(q, 1, 1)[i] = Append(<<>>, q[1])[i]
      BY <2>4, <2>5
    <3> QED
      BY <2>4, <2>5, <3>1, SameRow
  <2>7. fits(1, q, 1)
    <3>1. SubSeq(q, 1, 1) = V!Picked(q, passed(1))
      <4> HIDE DEF passed
      <4> QED
        BY <2>2, <2>3, <2>6
    <3>2. 1 \in 1 .. 1 /\ \A i \in 1 + 1 .. size : q[i] = q[i]
      OBVIOUS
    <3> HIDE DEF passed
    <3> QED
      BY <2>1, <3>1, <3>2
  <2> HIDE DEF fits
  <2> QED
    BY <1>1, <2>7
<1>3. ASSUME NEW n \in 2 .. size, holds(n - 1)
      PROVE  holds(n)
  <2>1. PICK r, k : after[n - 1] = <<r, k>> /\ fits(n - 1, r, k)
    BY <1>3
  <2>2. /\ r \in Row /\ SameElements(q, r) /\ Len(r) = size /\ k \in 1 .. n - 1
        /\ SubSeq(r, 1, k) = V!Picked(q, passed(n - 1))
        /\ r[k][2] = q[n - 1][2]
    BY <1>n, <2>1 DEF SameElements
  <2>3. r[n] = q[n] /\ \A i \in n + 1 .. size : r[i] = q[i]
    <3>1. \A i \in n .. size : i \in (n - 1) + 1 .. size
      OBVIOUS
    <3>2. \A i \in n .. size : r[i] = q[i]
      BY <2>1, <3>1
    <3> QED
      BY <3>2
  <2>4. n \in 2 .. size + 1 /\ n \in 1 .. size /\ n <= size /\ (n - 1) + 1 = n /\ n - 1 \in 0 .. Len(q) - 1 /\ n - 1 # 0
    BY <1>n
  <2>5. after[n] = IF q[n][2] # q[n - 1][2] THEN <<V!Swap(r, k + 1, n), k + 1>> ELSE <<r, k>>
    <3>1. after[n] = DedupRound(size, n, <<r, k>>)
      BY <1>1, <2>1, <2>4
    <3>2. <<r, k>>[1] = r /\ <<r, k>>[2] = k
      OBVIOUS
    <3> QED
      BY <2>2, <2>3, <2>4, <3>1, <3>2 DEF DedupRound
  <2>6. CASE q[n][2] # q[n - 1][2]
    <3>t. PICK t : t = V!Swap(r, k + 1, n)
      OBVIOUS
    <3>1. k + 1 \in 1 .. Len(r) /\ n \in 1 .. Len(r) /\ k + 1 <= n /\ k \in Nat
      BY <2>2, <2>4
    <3>2. /\ t \in Row /\ SameElements(r, t) /\ t[k + 1] = q[n]
          /\ \A i \in 1 .. Len(r) : i # k + 1 /\ i # n => t[i] = r[i]
      BY <2>2, <2>3, <3>t, <3>1, SwapKeeps
    <3>3. SameElements(q, t) /\ Len(t) = size
      BY <2>2, <3>2 DEF SameElements
    <3>4. passed(n) = passed(n - 1) \cup {n - 1}
      <4>1. n - 1 \in Firsts(q)
        BY <2>4, <2>6 DEF Firsts
      <4>2. \A i \in 0 .. n - 1 : i = n - 1 \/ i \in 0 .. (n - 1) - 1
        OBVIOUS
      <4>3. n - 1 \in 0 .. n - 1 /\ \A i \in 0 .. (n - 1) - 1 : i \in 0 .. n - 1
        BY <2>4
      <4> QED
        BY <4>1, <4>2, <4>3
    <3>5. V!Picked(q, passed(n)) = Append(V!Picked(q, passed(n - 1)), q[n])
      <4>1. n - 1 \in Nat /\ n - 1 < Len(q) /\ passed(n - 1) \in SUBSET (0 .. (n - 1) - 1)
        BY <1>n
      <4> HIDE DEF passed
      <4> QED
        BY <2>4, <3>4, <4>1, PickedMore
    <3>6. SubSeq(t, 1, k + 1) = Append(SubSeq(r, 1, k), q[n])
      <4>1. k \in 0 .. Len(r) /\ k + 1 \in 0 .. Len(t)
        BY <2>2, <3>1, <3>3
      <4>2. PICK x : x = SubSeq(t, 1, k + 1)
        OBVIOUS
      <4>3. x \in Row /\ Len(x) = k + 1 /\ \A i \in 1 .. k + 1 : x[i] = t[i]
        BY <3>2, <4>1, <4>2, Prefix
      <4>4. PICK y : y = SubSeq(r, 1, k)
        OBVIOUS
      <4>5. y \in Row /\ Len(y) = k /\ \A i \in 1 .. k : y[i] = r[i]
        BY <2>2, <4>1, <4>4, Prefix
      <4>6. q[n] \in Elements
        BY <1>n, <2>4
      <4>7. /\ Append(y, q[n]) \in Row /\ Len(Append(y, q[n])) = k + 1
            /\ \A i \in 1 .. k : Append(y, q[n])[i] = y[i]
            /\ Append(y, q[n])[k + 1] = q[n]
        BY <4>5, <4>6, AppendProperties DEF Row
      <4>8. ASSUME NEW i \in 1 .. k + 1 PROVE x[i] = Append(y, q[n])[i]
        <5>1. CASE i = k + 1
          BY <3>2, <4>3, <4>7, <5>1
        <5>2. CASE i # k + 1
          <6>1. i \in 1 .. k /\ i \in 1 .. Len(r) /\ i # n
            BY <3>1, <5>2
          <6> QED
            BY <3>2, <4>3, <4>5, <4>7, <5>2, <6>1
        <5> QED
          BY <5>1, <5>2
      <4> QED
        BY <4>2, <4>3, <4>4, <4>7, <4>8, SameRow
    <3>7. \A i \in n + 1 .. size : t[i] = q[i]
      <4>1. \A i \in n + 1 .. size : i \in 1 .. Len(r) /\ i # k + 1 /\ i # n
        BY <2>2, <3>1
      <4> QED
        BY <2>3, <3>2, <4>1
    <3>8. k + 1 \in 1 .. n
      BY <3>1
    <3>9. fits(n, t, k + 1)
      <4> HIDE DEF passed
      <4> QED
        BY <2>2, <3>2, <3>3, <3>5, <3>6, <3>7, <3>8
    <3>10. after[n] = <<t, k + 1>>
      BY <2>5, <2>6, <3>t
    <3> HIDE DEF fits
    <3> QED
      BY <3>9, <3>10
  <2>7. CASE q[n][2] = q[n - 1][2]
    <3>1. passed(n) = passed(n - 1)
      <4>1. n - 1 \notin Firsts(q)
        BY <2>4, <2>7 DEF Firsts
      <4>2. \A i \in 0 .. n - 1 : i = n - 1 \/ i \in 0 .. (n - 1) - 1
        OBVIOUS
      <4>3. \A i \in 0 .. (n - 1) - 1 : i \in 0 .. n - 1
        BY <2>4
      <4> QED
        BY <4>1, <4>2, <4>3
    <3>2. k \in 1 .. n
      BY <2>2
    <3>3. fits(n, r, k)
      <4> HIDE DEF passed
      <4> QED
        BY <2>2, <2>3, <2>7, <3>1, <3>2
    <3>4. after[n] = <<r, k>>
      BY <2>5, <2>7
    <3> HIDE DEF fits
    <3> QED
      BY <3>3, <3>4
  <2> QED
    BY <2>6, <2>7
<1>4. holds(size)
  <2> DEFINE H == {i \in 0 .. size - 1 : holds(i + 1)}
  <2> HIDE DEF holds
  <2>1. 0 \in H
    BY <1>2, <1>n
  <2>2. ASSUME NEW i \in 1 .. size - 1, i - 1 \in H PROVE i \in H
    <3>1. holds((i + 1) - 1) /\ i + 1 \in 2 .. size
      <4>1. (i - 1) + 1 = (i + 1) - 1
        OBVIOUS
      <4> QED
        BY <2>2, <4>1, <1>n
    <3> QED
      BY <1>3, <3>1
  <2>3. 0 .. size - 1 \subseteq H
    <3>1. size - 1 \in Nat
      BY <1>n
    <3> HIDE DEF H
    <3> QED
      BY <2>1, <2>2, <3>1, StepInduction
  <2>4. size - 1 \in H /\ (size - 1) + 1 = size
    <3>1. size - 1 \in 0 .. size - 1 /\ (size - 1) + 1 = size
      BY <1>n
    <3> HIDE DEF H
    <3> QED
      BY <2>3, <3>1
  <2> QED
    BY <2>4
<1>5. PICK r, k : after[size] = <<r, k>> /\ fits(size, r, k)
  BY <1>4
<1>6. after[size + 1] = <<r, k>>
  <2>1. size + 1 \in 2 .. size + 1 /\ ~(size + 1 <= size) /\ (size + 1) - 1 = size
    BY <1>n
  <2> QED
    BY <1>1, <1>5, <2>1 DEF DedupRound
<1>7. passed(size) = Firsts(q)
  BY <1>n DEF Firsts
<1> QED
  BY <1>n, <1>1, <1>5, <1>6, <1>7

-----------------------------------------------------------------------------
(* Who owns the elements                                                   *)

\* An element is in a row at most once if no two of the row are the same.
LEMMA TimesIs ==
    ASSUME NEW q \in Row, Once(q), NEW id
    PROVE  V!Times(q, id) = IF id \in Ids(q) THEN 1 ELSE 0
<1>p. PICK P : P = {i \in DOMAIN q : q[i][1] = id}
  OBVIOUS
<1>1. CASE id \in Ids(q)
  <2>1. PICK i \in DOMAIN q : q[i][1] = id
    BY <1>1 DEF Ids
  <2>2. P = {i}
    BY <1>p, <2>1 DEF Once
  <2> QED
    BY <1>1, <1>p, <2>2, FS_Singleton, SameCardinality DEF V!Times
<1>2. CASE id \notin Ids(q)
  <2>1. P = {}
    BY <1>2, <1>p DEF Ids
  <2> QED
    BY <1>2, <1>p, <2>1, FS_EmptySet, SameCardinality DEF V!Times
<1> QED
  BY <1>1, <1>2

\* Every element made is in the vector or in the iterator, and then not gone, or
\* gone once, or lost to a panic.
Owned ==
    /\ made \in 0 .. MaxElements /\ leaky \in BOOLEAN
    /\ gone \in [1 .. MaxElements -> {0, 1}]
    /\ Once(model) /\ Once(rest) /\ Ids(model) \cap Ids(rest) = {}
    /\ Ids(model) \cup Ids(rest) \subseteq 1 .. made
    /\ \A id \in 1 .. MaxElements : id > made \/ id \in Ids(model) \cup Ids(rest) => gone[id] = 0
    /\ \A id \in 1 .. made : gone[id] = 1 \/ id \in Ids(model) \cup Ids(rest) \/ leaky

\* A step in which the elements of `out` leave and the others, with the new ones,
\* stay, or some are lost to a panic
LEMMA Handover ==
    ASSUME Owned, NEW out \in Row, V!Leaves(out), Once(out), Once(model'), Once(rest'),
           Ids(model') \cap Ids(rest') = {},
           Ids(out) \cap (Ids(model') \cup Ids(rest')) = {},
           made' \in made .. MaxElements, leaky' \in BOOLEAN, leaky => leaky',
           Ids(out) \cup Ids(model') \cup Ids(rest') \subseteq Ids(model) \cup Ids(rest) \cup (made + 1 .. made'),
           leaky' \/ Ids(model) \cup Ids(rest) \cup (made + 1 .. made') \subseteq Ids(out) \cup Ids(model') \cup Ids(rest')
    PROVE  Owned'
<1>h. PICK H : H = Ids(model) \cup Ids(rest)
  OBVIOUS
<1>i. PICK I : I = Ids(model') \cup Ids(rest')
  OBVIOUS
<1>o. PICK O : O = Ids(out)
  OBVIOUS
<1>m. PICK m : m = made'
  OBVIOUS
<1>0. /\ made \in Nat /\ MaxElements \in Nat /\ made <= MaxElements /\ m \in made .. MaxElements
      /\ H \subseteq 1 .. made /\ O \cap I = {} /\ O \cup I \subseteq H \cup (made + 1 .. m)
  BY <1>h, <1>i, <1>o, <1>m, CollectionsAssumption DEF Owned
<1>1. \A id \in 1 .. MaxElements : gone'[id] = gone[id] + (IF id \in O THEN 1 ELSE 0)
  BY <1>o, TimesIs DEF V!Leaves, Owned
<1>2. \A id \in O \cup I : id \in 1 .. m /\ (id \in H \/ id > made)
  <2> SUFFICES ASSUME NEW id \in O \cup I PROVE id \in 1 .. m /\ (id \in H \/ id > made)
    OBVIOUS
  <2>1. id \in H \/ id \in made + 1 .. m
    BY <1>0
  <2>2. CASE id \in H
    <3>1. id \in 1 .. made
      BY <1>0, <2>2
    <3> QED
      BY <1>0, <2>2, <3>1
  <2>3. CASE id \in made + 1 .. m
    BY <1>0, <2>3
  <2> QED
    BY <2>1, <2>2, <2>3
<1>3. \A id \in 1 .. MaxElements : id \in O => gone[id] = 0
  BY <1>h, <1>2 DEF Owned
<1>4. gone' \in [1 .. MaxElements -> {0, 1}]
  <2>1. \A id \in 1 .. MaxElements : gone[id] \in {0, 1}
    BY DEF Owned
  <2>2. \A id \in 1 .. MaxElements : gone'[id] \in {0, 1}
    BY <1>1, <1>3, <2>1
  <2>3. gone' = [id \in 1 .. MaxElements |-> gone'[id]]
    BY DEF V!Leaves, Owned
  <2> QED
    BY <2>2, <2>3
<1>5. ASSUME NEW id \in 1 .. MaxElements, id > m \/ id \in I
      PROVE  gone'[id] = 0
  <2>1. id \notin O
    BY <1>0, <1>2, <1>5
  <2>2. id > made \/ id \in H
    BY <1>0, <1>2, <1>5
  <2>3. gone[id] = 0
    BY <1>h, <2>2 DEF Owned
  <2> QED
    BY <1>1, <2>1, <2>3
<1>6. ASSUME NEW id \in 1 .. m
      PROVE  gone'[id] = 1 \/ id \in I \/ leaky'
  <2>0. id \in 1 .. MaxElements
    BY <1>0
  <2>1. CASE id \in O
    BY <1>1, <1>3, <2>0, <2>1
  <2>2. CASE id \notin O /\ id \notin I /\ ~leaky'
    <3>1. id \notin H /\ ~(id \in made + 1 .. m)
      BY <2>2, <1>h, <1>i, <1>o, <1>m
    <3>2. id \in 1 .. made /\ ~leaky
      BY <1>0, <2>2, <3>1
    <3>3. gone[id] = 1
      BY <1>h, <3>1, <3>2 DEF Owned
    <3> QED
      BY <1>1, <2>0, <2>2, <3>3
  <2> QED
    BY <2>1, <2>2
<1>7. I \subseteq 1 .. m /\ m \in 0 .. MaxElements
  BY <1>0, <1>2
<1> QED
  BY <1>i, <1>m, <1>4, <1>5, <1>6, <1>7 DEF Owned

\* If gone is unchanged, nothing has left.
LEMMA NothingLeaves ==
    ASSUME Owned, gone' = gone
    PROVE  V!Leaves(<<>>) /\ Once(<<>>) /\ Ids(<<>>) = {} /\ <<>> \in Row
<1>1. <<>> \in Row /\ DOMAIN <<>> = {}
  BY NoRow, RowIs
<1>2. Once(<<>>) /\ Ids(<<>>) = {}
  BY <1>1 DEF Once, Ids
<1>3. \A id : V!Times(<<>>, id) = 0
  BY <1>1, <1>2, TimesIs
<1>4. \A id \in 1 .. MaxElements : gone[id] + 0 = gone[id]
  <2>1. \A id \in 1 .. MaxElements : gone[id] \in {0, 1}
    BY DEF Owned
  <2> QED
    BY <2>1
<1>5. gone' = [id \in DOMAIN gone |-> gone[id] + V!Times(<<>>, id)]
  BY <1>3, <1>4 DEF Owned
<1> QED
  BY <1>1, <1>2, <1>5 DEF V!Leaves

\* q has the elements of p at the places I, each once.
Picks(q, p, I) ==
    \E f : /\ \A j \in 1 .. Len(q) : f[j] \in I /\ q[j] = p[f[j]]
           /\ \A j, k \in 1 .. Len(q) : f[j] = f[k] => j = k
           /\ \A i \in I : \E j \in 1 .. Len(q) : f[j] = i

\* Two parts of a row, at different places, have no element in common.
LEMMA Split ==
    ASSUME NEW p \in Row, Once(p), NEW q \in Row, NEW r \in Row,
           NEW I \in SUBSET (1 .. Len(p)), NEW J \in SUBSET (1 .. Len(p)), I \cap J = {},
           Picks(q, p, I), Picks(r, p, J)
    PROVE  /\ Once(q) /\ Once(r) /\ Ids(q) \cap Ids(r) = {} /\ Ids(q) \cup Ids(r) \subseteq Ids(p)
           /\ I \cup J = 1 .. Len(p) => Ids(q) \cup Ids(r) = Ids(p)
<1>0. DOMAIN p = 1 .. Len(p) /\ DOMAIN q = 1 .. Len(q) /\ DOMAIN r = 1 .. Len(r)
  BY RowIs
<1>1. \A x \in Row : \A X \in SUBSET (1 .. Len(p)) : Picks(x, p, X) =>
         Once(x) /\ Ids(x) = {p[i][1] : i \in X}
  <2> SUFFICES ASSUME NEW x \in Row, NEW X \in SUBSET (1 .. Len(p)), Picks(x, p, X)
               PROVE  Once(x) /\ Ids(x) = {p[i][1] : i \in X}
    OBVIOUS
  <2>1. PICK f : /\ \A j \in 1 .. Len(x) : f[j] \in X /\ x[j] = p[f[j]]
                 /\ \A j, k \in 1 .. Len(x) : f[j] = f[k] => j = k
                 /\ \A i \in X : \E j \in 1 .. Len(x) : f[j] = i
    BY DEF Picks
  <2>2. DOMAIN x = 1 .. Len(x)
    BY RowIs
  <2>3. Once(x)
    <3> SUFFICES ASSUME NEW j \in 1 .. Len(x), NEW k \in 1 .. Len(x), x[j][1] = x[k][1] PROVE j = k
      BY <2>2 DEF Once
    <3>1. f[j] \in DOMAIN p /\ f[k] \in DOMAIN p /\ p[f[j]][1] = p[f[k]][1]
      BY <1>0, <2>1
    <3> QED
      BY <2>1, <3>1 DEF Once
  <2>4. ASSUME NEW j \in 1 .. Len(x) PROVE x[j][1] \in {p[i][1] : i \in X}
    <3>1. PICK i \in X : i = f[j] /\ x[j] = p[i]
      BY <2>1
    <3> QED
      BY <3>1
  <2>5. ASSUME NEW i \in X PROVE p[i][1] \in {x[j][1] : j \in 1 .. Len(x)}
    <3>1. PICK j \in 1 .. Len(x) : f[j] = i
      BY <2>1
    <3> QED
      BY <2>1, <3>1
  <2> QED
    BY <2>2, <2>3, <2>4, <2>5 DEF Ids
<1>2. Once(q) /\ Once(r) /\ Ids(q) = {p[i][1] : i \in I} /\ Ids(r) = {p[i][1] : i \in J}
  BY <1>1
<1>3. Ids(q) \cap Ids(r) = {}
  <2> SUFFICES ASSUME NEW i \in I, NEW j \in J, p[i][1] = p[j][1] PROVE FALSE
    BY <1>2
  <2>1. i \in DOMAIN p /\ j \in DOMAIN p
    BY <1>0
  <2>2. i = j
    BY <2>1 DEF Once
  <2> QED
    BY <2>2
<1>4. Ids(p) = {p[i][1] : i \in 1 .. Len(p)}
  BY <1>0 DEF Ids
<1> QED
  BY <1>2, <1>3, <1>4

\* A part of a row, what is left without one, what is picked from it, a single element,
\* and all of it: the places they take their elements from
LEMMA PicksPart ==
    ASSUME NEW p \in Row, NEW a \in 0 .. Len(p), NEW b \in a .. Len(p)
    PROVE  Picks(SubSeq(p, a + 1, b), p, a + 1 .. b)
<1>0. Len(p) \in Nat
  BY RowIs
<1>m. PICK m \in Nat : m = b - a
  BY <1>0
<1>I. PICK I : I = a + 1 .. b
  OBVIOUS
<1>1. PICK q : q = SubSeq(p, a + 1, b)
  OBVIOUS
<1>2. Len(q) = m /\ \A i \in 1 .. m : q[i] = p[a + i]
  BY <1>m, <1>1, SubRow
<1>3. PICK f : f = [j \in 1 .. m |-> a + j]
  OBVIOUS
<1>4. \A j \in 1 .. m : f[j] = a + j /\ f[j] \in I /\ q[j] = p[f[j]]
  BY <1>0, <1>m, <1>I, <1>2, <1>3
<1>5. \A j, k \in 1 .. m : f[j] = f[k] => j = k
  BY <1>0, <1>4
<1>6. ASSUME NEW i \in I PROVE \E j \in 1 .. m : f[j] = i
  <2>1. i - a \in 1 .. m /\ a + (i - a) = i
    BY <1>0, <1>m, <1>I
  <2> QED
    BY <1>4, <2>1
<1>7. Picks(q, p, I)
  BY <1>2, <1>4, <1>5, <1>6 DEF Picks
<1> QED
  BY <1>1, <1>I, <1>7

LEMMA PicksCut ==
    ASSUME NEW p \in Row, NEW a \in 0 .. Len(p), NEW b \in a .. Len(p)
    PROVE  Picks(Cut(p, a, b), p, (1 .. Len(p)) \ (a + 1 .. b))
<1>m. PICK m \in Nat : m = Len(p) - (b - a) /\ a <= m
  BY RowIs
<1>0. Len(p) \in Nat
  BY RowIs
<1>1. PICK q : q = Cut(p, a, b)
  OBVIOUS
<1>2. Len(q) = m /\ (\A i \in 1 .. a : q[i] = p[i]) /\ \A i \in a + 1 .. m : q[i] = p[i + (b - a)]
  BY <1>m, <1>1, CutIs
<1>I. PICK I : I = (1 .. Len(p)) \ (a + 1 .. b)
  OBVIOUS
<1>3. PICK f : f = [j \in 1 .. m |-> IF j <= a THEN j ELSE j + (b - a)]
  OBVIOUS
<1>4. ASSUME NEW j \in 1 .. m PROVE f[j] = (IF j <= a THEN j ELSE j + (b - a)) /\ f[j] \in I /\ q[j] = p[f[j]]
  <2>1. CASE j <= a
    <3>1. j \in 1 .. a /\ j \in I
      BY <1>0, <1>I, <2>1
    <3> QED
      BY <1>2, <1>3, <2>1, <3>1
  <2>2. CASE ~(j <= a)
    <3>1. j \in a + 1 .. m /\ j + (b - a) \in I
      BY <1>0, <1>m, <1>I, <2>2
    <3> QED
      BY <1>2, <1>3, <2>2, <3>1
  <2> QED
    BY <2>1, <2>2
<1>5. \A j, k \in 1 .. m : f[j] = f[k] => j = k
  BY <1>0, <1>4
<1>6. ASSUME NEW i \in I PROVE \E j \in 1 .. m : f[j] = i
  <2>1. i \in 1 .. Len(p) /\ (i <= a \/ i > b)
    BY <1>0, <1>I
  <2>2. CASE i <= a
    <3>1. i \in 1 .. m
      BY <1>m, <2>1, <2>2
    <3> QED
      BY <1>4, <2>2, <3>1
  <2>3. CASE i > b
    <3>1. i - (b - a) \in 1 .. m /\ ~(i - (b - a) <= a) /\ (i - (b - a)) + (b - a) = i
      BY <1>0, <1>m, <2>1, <2>3
    <3> QED
      BY <1>4, <3>1
  <2> QED
    BY <2>1, <2>2, <2>3
<1>7. Picks(q, p, I)
  BY <1>2, <1>4, <1>5, <1>6 DEF Picks
<1> QED
  BY <1>1, <1>I, <1>7

LEMMA PicksPicked ==
    ASSUME NEW p \in Row, NEW idx \in SUBSET (0 .. Len(p) - 1)
    PROVE  Picks(V!Picked(p, idx), p, {i + 1 : i \in idx})
<1>m. PICK m : m = Cardinality(idx)
  OBVIOUS
<1>1. PICK q : q = V!Picked(p, idx)
  OBVIOUS
<1>2. IsFiniteSet(idx) /\ idx \in SUBSET Nat /\ Len(q) = m /\ \A j \in 1 .. m : q[j] = p[V!Nth(idx, j) + 1]
  BY <1>m, <1>1, PickedIs
<1>3. /\ m \in Nat
      /\ \A j \in 1 .. m : V!Nth(idx, j) \in idx /\ Below(idx, V!Nth(idx, j)) = j - 1
      /\ \A i \in idx : Below(idx, i) + 1 \in 1 .. m /\ V!Nth(idx, Below(idx, i) + 1) = i
  BY <1>m, <1>2, NthIs
<1>I. PICK I : I = {i + 1 : i \in idx}
  OBVIOUS
<1>4. PICK f : f = [j \in 1 .. m |-> V!Nth(idx, j) + 1]
  OBVIOUS
<1>5. \A j \in 1 .. m : f[j] \in I /\ q[j] = p[f[j]]
  BY <1>I, <1>2, <1>3, <1>4
<1>6. ASSUME NEW j \in 1 .. m, NEW k \in 1 .. m, f[j] = f[k] PROVE j = k
  <2>1. V!Nth(idx, j) \in Nat /\ V!Nth(idx, k) \in Nat /\ V!Nth(idx, j) + 1 = V!Nth(idx, k) + 1
    BY <1>2, <1>3, <1>4, <1>6
  <2>2. V!Nth(idx, j) = V!Nth(idx, k)
    BY <2>1
  <2>3. j - 1 = k - 1
    BY <1>3, <2>2
  <2> QED
    BY <2>3
<1>7. ASSUME NEW x \in I PROVE \E j \in 1 .. m : f[j] = x
  <2>1. PICK i \in idx : x = i + 1
    BY <1>I
  <2> QED
    BY <1>3, <1>4, <2>1
<1>8. Picks(q, p, I)
  BY <1>2, <1>5, <1>6, <1>7 DEF Picks
<1> QED
  BY <1>1, <1>I, <1>8

LEMMA PicksOne ==
    ASSUME NEW p \in Row, NEW i \in 1 .. Len(p)
    PROVE  /\ <<p[i]>> \in Row /\ Len(<<p[i]>>) = 1 /\ <<p[i]>>[1] = p[i]
           /\ Picks(<<p[i]>>, p, {i})
<1>1. p[i] \in Elements
  BY RowIs
<1>2. <<p[i]>> \in Row /\ Len(<<p[i]>>) = 1 /\ <<p[i]>>[1] = p[i]
  <2>1. <<p[i]>> = Append(<<>>, p[i])
    BY <1>1
  <2> QED
    BY <1>1, <2>1, NoRow, AppendProperties DEF Row
<1>3. PICK f : f = [j \in 1 .. 1 |-> i]
  OBVIOUS
<1>4. PICK q : q = <<p[i]>>
  OBVIOUS
<1>5. Len(q) = 1 /\ \A j \in 1 .. 1 : j = 1 /\ f[j] = i /\ q[j] = p[i]
  BY <1>2, <1>3, <1>4
<1>6. Picks(q, p, {i})
  BY <1>5 DEF Picks
<1> QED
  BY <1>2, <1>4, <1>6

LEMMA WholeRow ==
    ASSUME NEW p \in Row
    PROVE  /\ SubSeq(p, 1, Len(p)) = p /\ Picks(p, p, 1 .. Len(p))
           /\ Picks(<<>>, p, {})
<1>0. Len(p) \in Nat /\ Len(p) \in 0 .. Len(p)
  BY RowIs
<1>1. SubSeq(p, 1, Len(p)) = p
  BY <1>0, Prefix, SameRow
<1>2. PICK f : f = [j \in 1 .. Len(p) |-> j]
  OBVIOUS
<1>3. \A j \in 1 .. Len(p) : f[j] = j
  BY <1>2
<1>4. Picks(p, p, 1 .. Len(p))
  BY <1>3 DEF Picks
<1>5. Len(<<>>) = 0 /\ 1 .. 0 = {}
  BY NoRow
<1>6. Picks(<<>>, p, {})
  BY <1>5 DEF Picks
<1> QED
  BY <1>1, <1>4, <1>6

LEMMA PicksPrefix ==
    ASSUME NEW p \in Row, NEW b \in 0 .. Len(p)
    PROVE  Picks(SubSeq(p, 1, b), p, 1 .. b)
<1>1. 0 \in 0 .. Len(p) /\ b \in 0 .. Len(p) /\ 0 + 1 = 1
  BY RowIs
<1>2. Picks(SubSeq(p, 0 + 1, b), p, 0 + 1 .. b)
  BY <1>1, PicksPart
<1> QED
  BY <1>1, <1>2

\* The elements of two rows without a common one
LEMMA BothRows ==
    ASSUME NEW p \in Row, NEW q \in Row, Once(p), Once(q), Ids(p) \cap Ids(q) = {}
    PROVE  Once(p \o q) /\ Ids(p \o q) = Ids(p) \cup Ids(q)
<1>1. PICK m \in Nat, n \in Nat : m = Len(p) /\ n = Len(q)
  BY RowIs
<1>2. PICK r : r = p \o q
  OBVIOUS
<1>3. /\ r \in Row /\ Len(r) = m + n
      /\ \A i \in 1 .. m : r[i] = p[i]
      /\ \A i \in 1 .. n : r[m + i] = q[i]
  BY <1>1, <1>2, TwoRows
<1>4. DOMAIN p = 1 .. m /\ DOMAIN q = 1 .. n /\ DOMAIN r = 1 .. m + n
  BY <1>1, <1>3, RowIs
<1>5. ASSUME NEW i \in 1 .. m + n
      PROVE  (i \in 1 .. m /\ r[i] = p[i]) \/ (i - m \in 1 .. n /\ r[i] = q[i - m])
  <2>1. CASE i <= m
    <3>1. i \in 1 .. m
      BY <2>1
    <3>2. r[i] = p[i]
      BY <1>3, <3>1
    <3> QED
      BY <3>1, <3>2
  <2>2. CASE ~(i <= m)
    <3>1. i - m \in 1 .. n /\ m + (i - m) = i
      BY <2>2
    <3> QED
      BY <1>3, <3>1
  <2> QED
    BY <2>1, <2>2
<1>6. ASSUME NEW i \in 1 .. m, NEW j \in 1 .. n PROVE p[i][1] # q[j][1]
  BY <1>4 DEF Ids
<1>7. Once(r)
  <2> SUFFICES ASSUME NEW i \in 1 .. m + n, NEW j \in 1 .. m + n, r[i][1] = r[j][1] PROVE i = j
    BY <1>4 DEF Once
  <2>1. CASE i \in 1 .. m /\ r[i] = p[i] /\ j \in 1 .. m /\ r[j] = p[j]
    BY <1>4, <2>1 DEF Once
  <2>2. CASE i - m \in 1 .. n /\ r[i] = q[i - m] /\ j - m \in 1 .. n /\ r[j] = q[j - m]
    <3>1. i - m = j - m
      BY <1>4, <2>2 DEF Once
    <3> QED
      BY <3>1
  <2> QED
    BY <1>5, <1>6, <2>1, <2>2
<1>8. ASSUME NEW x PROVE x \in Ids(r) <=> x \in Ids(p) \cup Ids(q)
  <2>1. ASSUME NEW i \in 1 .. m + n, x = r[i][1] PROVE x \in Ids(p) \cup Ids(q)
    BY <1>4, <1>5, <2>1 DEF Ids
  <2>2. ASSUME NEW i \in 1 .. m, x = p[i][1] PROVE x \in Ids(r)
    <3>1. i \in DOMAIN r /\ x = r[i][1]
      BY <1>3, <1>4, <2>2
    <3> QED
      BY <3>1 DEF Ids
  <2>3. ASSUME NEW i \in 1 .. n, x = q[i][1] PROVE x \in Ids(r)
    <3>1. m + i \in DOMAIN r /\ x = r[m + i][1]
      BY <1>3, <1>4, <2>3
    <3> QED
      BY <3>1 DEF Ids
  <2>4. x \in Ids(r) => \E i \in 1 .. m + n : x = r[i][1]
    BY <1>4 DEF Ids
  <2>5. x \in Ids(p) => \E i \in 1 .. m : x = p[i][1]
    BY <1>4 DEF Ids
  <2>6. x \in Ids(q) => \E i \in 1 .. n : x = q[i][1]
    BY <1>4 DEF Ids
  <2> QED
    BY <2>1, <2>2, <2>3, <2>4, <2>5, <2>6
<1> QED
  BY <1>2, <1>7, <1>8

\* The new elements are numbered on from those made before.
LEMMA FreshIs ==
    ASSUME NEW n \in Nat, made \in Nat, NEW q \in V!Fresh(n)
    PROVE  q \in Row /\ Len(q) = n /\ Once(q) /\ Ids(q) = made + 1 .. made + n
<1>1. PICK ks \in [1 .. n -> Kinds] : q = [i \in 1 .. n |-> <<made + i, ks[i]>>]
  BY DEF V!Fresh
<1>2. q \in [1 .. n -> Elements]
  BY <1>1 DEF Elements
<1>3. q \in Row /\ Len(q) = n /\ DOMAIN q = 1 .. n
  BY <1>2, AsRow DEF Row
<1>4. \A i \in 1 .. n : q[i][1] = made + i
  BY <1>1
<1>5. Once(q)
  <2> SUFFICES ASSUME NEW i \in 1 .. n, NEW j \in 1 .. n, made + i = made + j PROVE i = j
    BY <1>3, <1>4 DEF Once
  <2> QED
    OBVIOUS
<1>6. Ids(q) = {made + i : i \in 1 .. n}
  BY <1>3, <1>4 DEF Ids
<1>7. {made + i : i \in 1 .. n} = made + 1 .. made + n
  <2>1. \A i \in 1 .. n : made + i \in made + 1 .. made + n
    OBVIOUS
  <2>2. \A k \in made + 1 .. made + n : k - made \in 1 .. n /\ k = made + (k - made)
    OBVIOUS
  <2> QED
    BY <2>1, <2>2
<1> QED
  BY <1>3, <1>5, <1>6, <1>7

-----------------------------------------------------------------------------
(* How a step moves the elements                                           *)

\* The vector gives up some of its elements, and some may be lost to a panic.
\* p is the vector's sequence, in whichever order.
LEMMA VectorGivesUp ==
    ASSUME Owned, NEW p \in Row, Once(p), Ids(p) = Ids(model),
           NEW I \in SUBSET (1 .. Len(p)), NEW J \in SUBSET (1 .. Len(p)), I \cap J = {},
           model' \in Row, Picks(model', p, I),
           NEW out \in Row, Picks(out, p, J), V!Leaves(out),
           made' = made, rest' = rest, leaky' \in BOOLEAN, leaky => leaky',
           leaky' \/ I \cup J = 1 .. Len(p)
    PROVE  Owned'
<1>1. PICK m \in Row : m = model'
  OBVIOUS
<1>2. /\ Once(m) /\ Once(out) /\ Ids(m) \cap Ids(out) = {} /\ Ids(m) \cup Ids(out) \subseteq Ids(p)
      /\ I \cup J = 1 .. Len(p) => Ids(m) \cup Ids(out) = Ids(p)
  BY <1>1, Split
<1>3. PICK H : H = Ids(model)
  OBVIOUS
<1>4. PICK R : R = Ids(rest) /\ R = Ids(rest')
  OBVIOUS
<1>5. PICK N : N = made + 1 .. made'
  OBVIOUS
<1>6. N = {} /\ made' \in made .. MaxElements
  BY <1>5, CollectionsAssumption DEF Owned
<1>7. H \cap R = {} /\ Once(rest')
  BY <1>3, <1>4 DEF Owned
<1>8. Once(model') /\ Ids(model') \cup Ids(out) \subseteq H /\ Ids(model') \cap Ids(out) = {}
  BY <1>1, <1>2, <1>3
<1>9. leaky' \/ Ids(model') \cup Ids(out) = H
  BY <1>1, <1>2, <1>3
<1>10. /\ Ids(model') \cap Ids(rest') = {}
       /\ Ids(out) \cap (Ids(model') \cup Ids(rest')) = {}
       /\ Ids(out) \cup Ids(model') \cup Ids(rest') \subseteq Ids(model) \cup Ids(rest) \cup (made + 1 .. made')
       /\ leaky' \/ Ids(model) \cup Ids(rest) \cup (made + 1 .. made') \subseteq Ids(out) \cup Ids(model') \cup Ids(rest')
  BY <1>3, <1>4, <1>5, <1>6, <1>7, <1>8, <1>9
<1> QED
  BY <1>2, <1>6, <1>7, <1>8, <1>10, Handover

\* The iterator gives up some of its elements, and some may be lost to a panic.
LEMMA IteratorGivesUp ==
    ASSUME Owned, rest \in Row,
           NEW I \in SUBSET (1 .. Len(rest)), NEW J \in SUBSET (1 .. Len(rest)), I \cap J = {},
           rest' \in Row, Picks(rest', rest, I),
           NEW out \in Row, Picks(out, rest, J), V!Leaves(out),
           made' = made, model' = model, leaky' \in BOOLEAN, leaky => leaky',
           leaky' \/ I \cup J = 1 .. Len(rest)
    PROVE  Owned'
<1>1. PICK m \in Row : m = rest'
  OBVIOUS
<1>p. PICK p \in Row : p = rest /\ Once(p) /\ I \in SUBSET (1 .. Len(p)) /\ J \in SUBSET (1 .. Len(p))
  BY DEF Owned
<1>2. /\ Once(m) /\ Once(out) /\ Ids(m) \cap Ids(out) = {} /\ Ids(m) \cup Ids(out) \subseteq Ids(p)
      /\ I \cup J = 1 .. Len(p) => Ids(m) \cup Ids(out) = Ids(p)
  BY <1>1, <1>p, Split
<1>3. PICK H : H = Ids(rest)
  OBVIOUS
<1>4. PICK R : R = Ids(model) /\ R = Ids(model')
  OBVIOUS
<1>5. PICK N : N = made + 1 .. made'
  OBVIOUS
<1>6. N = {} /\ made' \in made .. MaxElements
  BY <1>5, CollectionsAssumption DEF Owned
<1>7. H \cap R = {} /\ Once(model')
  BY <1>3, <1>4 DEF Owned
<1>8. Once(rest') /\ Ids(rest') \cup Ids(out) \subseteq H /\ Ids(rest') \cap Ids(out) = {}
  BY <1>1, <1>p, <1>2, <1>3
<1>9. leaky' \/ Ids(rest') \cup Ids(out) = H
  BY <1>1, <1>p, <1>2, <1>3
<1>10. /\ Ids(model') \cap Ids(rest') = {}
       /\ Ids(out) \cap (Ids(model') \cup Ids(rest')) = {}
       /\ Ids(out) \cup Ids(model') \cup Ids(rest') \subseteq Ids(model) \cup Ids(rest) \cup (made + 1 .. made')
       /\ leaky' \/ Ids(model) \cup Ids(rest) \cup (made + 1 .. made') \subseteq Ids(out) \cup Ids(model') \cup Ids(rest')
  BY <1>3, <1>4, <1>5, <1>6, <1>7, <1>8, <1>9
<1> QED
  BY <1>2, <1>6, <1>7, <1>8, <1>10, Handover

\* The vector hands some of its elements to the iterator.
LEMMA VectorHandsOver ==
    ASSUME Owned, model \in Row, Ids(rest) = {},
           NEW I \in SUBSET (1 .. Len(model)), NEW J \in SUBSET (1 .. Len(model)), I \cap J = {},
           I \cup J = 1 .. Len(model),
           model' \in Row, Picks(model', model, I), rest' \in Row, Picks(rest', model, J),
           made' = made, gone' = gone, leaky' = leaky
    PROVE  Owned'
<1>1. PICK m \in Row, r \in Row : m = model' /\ r = rest'
  OBVIOUS
<1>p. PICK p \in Row : p = model /\ Once(p) /\ I \in SUBSET (1 .. Len(p)) /\ J \in SUBSET (1 .. Len(p))
  BY DEF Owned
<1>2. /\ Once(m) /\ Once(r) /\ Ids(m) \cap Ids(r) = {} /\ Ids(m) \cup Ids(r) = Ids(p)
  BY <1>1, <1>p, Split
<1>3. PICK out \in Row : V!Leaves(out) /\ Once(out) /\ Ids(out) = {}
  BY NothingLeaves
<1>5. PICK N : N = made + 1 .. made'
  OBVIOUS
<1>6. N = {} /\ made' \in made .. MaxElements /\ leaky' \in BOOLEAN
  BY <1>5, CollectionsAssumption DEF Owned
<1>8. Once(model') /\ Once(rest') /\ Ids(model') \cup Ids(rest') = Ids(model) /\ Ids(model') \cap Ids(rest') = {}
  BY <1>1, <1>p, <1>2
<1>10. /\ Ids(out) \cap (Ids(model') \cup Ids(rest')) = {}
       /\ Ids(out) \cup Ids(model') \cup Ids(rest') \subseteq Ids(model) \cup Ids(rest) \cup (made + 1 .. made')
       /\ Ids(model) \cup Ids(rest) \cup (made + 1 .. made') \subseteq Ids(out) \cup Ids(model') \cup Ids(rest')
  BY <1>3, <1>5, <1>6, <1>8
<1> QED
  BY <1>3, <1>6, <1>8, <1>10, Handover

\* New elements come into the vector, and some may be dropped right away.
LEMMA VectorGains ==
    ASSUME Owned, NEW n \in Nat, made + n <= MaxElements, made' = made + n,
           Once(model'), NEW out \in Row, Once(out), V!Leaves(out), Ids(model') \cap Ids(out) = {},
           Ids(model') \cup Ids(out) = Ids(model) \cup (made + 1 .. made + n), Ids(out) \cap Ids(model) = {},
           rest' = rest, leaky' = leaky
    PROVE  Owned'
<1>1. PICK N : N = made + 1 .. made + n
  OBVIOUS
<1>2. PICK R : R = Ids(rest) /\ R = Ids(rest')
  OBVIOUS
<1>3. PICK H : H = Ids(model)
  OBVIOUS
<1>4. /\ made \in Nat /\ made' \in made .. MaxElements /\ Once(rest') /\ leaky' \in BOOLEAN
      /\ H \cap R = {} /\ H \cup R \subseteq 1 .. made
  BY <1>2, <1>3, CollectionsAssumption DEF Owned
<1>5. N \cap (1 .. made) = {}
  BY <1>1, <1>4
<1>6. /\ Ids(model') \cap Ids(rest') = {}
      /\ Ids(out) \cap (Ids(model') \cup Ids(rest')) = {}
      /\ Ids(out) \cup Ids(model') \cup Ids(rest') \subseteq Ids(model) \cup Ids(rest) \cup N
      /\ Ids(model) \cup Ids(rest) \cup N \subseteq Ids(out) \cup Ids(model') \cup Ids(rest')
  BY <1>1, <1>2, <1>3, <1>4, <1>5
<1> QED
  BY <1>1, <1>4, <1>6, Handover

-----------------------------------------------------------------------------
(* The invariant                                                           *)

VecInv ==
    /\ self \in Vectors /\ IsIterator(iter)
    /\ model = V!as_slice(self) /\ rest = V!Remaining(iter)
    /\ Owned


\* The types that the steps below need
LEMMA VecInvRows ==
    ASSUME VecInv
    PROVE  /\ model \in Row /\ rest \in Row /\ Len(model) \in Nat /\ Len(rest) \in Nat
           /\ made \in Nat /\ MaxElements \in Nat /\ V!Size = Len(model)
BY Slice, RemainingIs, RowIs, CollectionsAssumption DEF VecInv, Owned, V!Size

\* The iterator that stands for none has nothing to give.
LEMMA NoneIsEmpty == IsIterator(V!None) /\ V!Remaining(V!None) = <<>>
<1>1. IsIterator(V!None) /\ V!None.end - V!None.start = 0
  BY DEF IsIterator, V!None
<1> QED
  BY <1>1, RemainingIs, RowIs

\* The invariant holds at first.
LEMMA VecInvInit ==
    ASSUME V!Init
    PROVE  VecInv
<1>1. self \in Vectors /\ V!as_slice(self) = <<>> /\ IsIterator(iter) /\ V!Remaining(iter) = <<>>
  BY NewIsEmpty, NoneIsEmpty DEF V!Init
<1>2. model = <<>> /\ rest = <<>> /\ made = 0 /\ leaky = FALSE /\ gone = [id \in 1 .. MaxElements |-> 0]
  BY DEF V!Init
<1>3. Once(<<>>) /\ Ids(<<>>) = {}
  BY NoRow, RowIs DEF Once, Ids
<1>4. gone \in [1 .. MaxElements -> {0, 1}] /\ \A id \in 1 .. MaxElements : gone[id] = 0
  BY <1>2
<1>l. leaky \in BOOLEAN
  BY <1>2
<1>5. made \in 0 .. MaxElements /\ 1 .. made = {}
  BY <1>2, CollectionsAssumption
<1>6. Once(model) /\ Once(rest) /\ Ids(model) = {} /\ Ids(rest) = {}
  BY <1>2, <1>3
<1>7. Owned
  BY <1>l, <1>4, <1>5, <1>6 DEF Owned
<1> QED
  BY <1>1, <1>2, <1>7 DEF VecInv

\* A step that leaves the iterator alone, or the vector
LEMMA VecInvSelf ==
    ASSUME VecInv, UNCHANGED <<iter, rest>>, self' \in Vectors, model' = V!as_slice(self'), Owned'
    PROVE  VecInv'
BY DEF VecInv

LEMMA VecInvIter ==
    ASSUME VecInv, UNCHANGED <<self, model>>, IsIterator(iter'), rest' = V!Remaining(iter'), Owned'
    PROVE  VecInv'
BY DEF VecInv

-----------------------------------------------------------------------------
(* The steps                                                               *)

\* Everything in the vector is dropped.
LEMMA DropVecStep ==
    ASSUME VecInv, NEW storage \in {"array", "inline"}, V!DropVec(storage)
    PROVE  VecInv'
<1>0. model \in Row /\ Owned /\ Once(model) /\ model = V!as_slice(self)
  BY VecInvRows DEF VecInv, Owned
<1>1. self' \in Vectors /\ model' = <<>> /\ model' = V!as_slice(self')
  BY NewIsEmpty DEF V!DropVec
<1>2. V!Leaves(model) /\ UNCHANGED <<made, leaky, iter, rest>> /\ leaky' \in BOOLEAN
  BY <1>0 DEF V!DropVec, V!NoPanic, V!OnlySelf, Owned
<1>3. model' \in Row /\ Picks(model', model, {}) /\ Picks(model, model, 1 .. Len(model))
  BY <1>0, <1>1, NoRow, WholeRow
<1>4. PICK I, J : I = {} /\ J = 1 .. Len(model)
  OBVIOUS
<1>5. Owned'
  <2>1. I \in SUBSET (1 .. Len(model)) /\ J \in SUBSET (1 .. Len(model)) /\ I \cap J = {} /\ I \cup J = 1 .. Len(model)
    BY <1>4
  <2>2. Picks(model', model, I) /\ Picks(model, model, J)
    BY <1>3, <1>4
  <2> QED
    BY <1>0, <1>2, <1>3, <2>1, <2>2, VectorGivesUp
<1> QED
  BY <1>1, <1>2, <1>5, VecInvSelf

\* One element is given to the caller.
LEMMA RemoveElementStep ==
    ASSUME VecInv, NEW i \in Nat, V!RemoveElement(i)
    PROVE  VecInv'
<1>0. model \in Row /\ Len(model) \in Nat /\ Owned /\ Once(model) /\ self \in Vectors /\ model = V!as_slice(self)
  BY VecInvRows DEF VecInv, Owned
<1>1. i < Len(model) /\ self' = V!remove(self, i) /\ model' = V!RemoveAt(model, i + 1) /\ V!Leaves(<<model[i + 1]>>)
  BY <1>0 DEF V!RemoveElement, V!Size
<1>2. UNCHANGED <<made, leaky, iter, rest>> /\ leaky' \in BOOLEAN
  BY <1>0 DEF V!RemoveElement, V!NoPanic, V!OnlySelf, Owned
<1>3. i + 1 \in 1 .. Len(model) /\ i \in 0 .. Len(model) /\ i + 1 \in i .. Len(model)
  BY <1>0, <1>1
<1>4. model' = Cut(model, i, i + 1) /\ model' \in Row
  <2>1. V!RemoveAt(model, i + 1) = Cut(model, i, i + 1)
    BY RemoveAtIs
  <2> QED
    BY <1>0, <1>1, <1>3, <2>1, CutIs
<1>5. self' \in Vectors /\ model' = V!as_slice(self')
  BY <1>0, <1>1, <1>4, RemoveLeaves
<1>6. PICK I, J : I = (1 .. Len(model)) \ (i + 1 .. i + 1) /\ J = {i + 1}
  OBVIOUS
<1>7. PICK out \in Row : out = <<model[i + 1]>> /\ Picks(out, model, J) /\ V!Leaves(out)
  BY <1>0, <1>1, <1>3, <1>6, PicksOne
<1>8. Picks(model', model, I)
  BY <1>0, <1>3, <1>4, <1>6, PicksCut
<1>9. I \in SUBSET (1 .. Len(model)) /\ J \in SUBSET (1 .. Len(model)) /\ I \cap J = {} /\ I \cup J = 1 .. Len(model)
  BY <1>3, <1>6
<1>10. Owned'
  BY <1>0, <1>2, <1>4, <1>7, <1>8, <1>9, VectorGivesUp
<1> QED
  BY <1>2, <1>5, <1>10, VecInvSelf

\* Of r, which has the vector's elements, the first m stay and the others are dropped.
LEMMA KeepsPrefix ==
    ASSUME VecInv, NEW r \in Row, SameElements(model, r), NEW m \in 0 .. Len(r),
           model' = SubSeq(r, 1, m), V!Leaves(SubSeq(r, m + 1, Len(r))), UNCHANGED <<made, leaky, rest>>
    PROVE  Owned'
<1>0. model \in Row /\ Owned /\ Once(model) /\ leaky' \in BOOLEAN
  BY VecInvRows DEF VecInv, Owned
<1>1. Once(r) /\ Ids(r) = Ids(model) /\ Len(r) \in Nat
  BY <1>0, RowIs DEF SameElements
<1>2. m \in 0 .. Len(r) /\ Len(r) \in m .. Len(r)
  BY <1>1
<1>3. PICK I, J : I = 1 .. m /\ J = m + 1 .. Len(r)
  OBVIOUS
<1>4. I \in SUBSET (1 .. Len(r)) /\ J \in SUBSET (1 .. Len(r)) /\ I \cap J = {} /\ I \cup J = 1 .. Len(r)
  BY <1>1, <1>3
<1>5. model' \in Row /\ Picks(model', r, I)
  BY <1>3, PicksPrefix, Prefix
<1>6. PICK out \in Row : out = SubSeq(r, m + 1, Len(r)) /\ Picks(out, r, J) /\ V!Leaves(out)
  BY <1>2, <1>3, PicksPart, SubRow
<1> QED
  BY <1>0, <1>1, <1>4, <1>5, <1>6, VectorGivesUp

\* pop, truncate and clear
LEMMA TruncateStep ==
    ASSUME VecInv, NEW n \in Nat, NEW stop \in Nat, V!Truncate(n, stop)
    PROVE  VecInv'
<1>0. model \in Row /\ Len(model) \in Nat /\ self \in Vectors /\ model = V!as_slice(self) /\ V!Size = Len(model)
  BY VecInvRows DEF VecInv
<1>1. PICK m : m = IF V!IsHeap(self) THEN n ELSE stop
  OBVIOUS
<1>2. /\ m \in Nat /\ m \in 0 .. Len(model) /\ m <= Len(model)
      /\ self' = V!truncate(self, m) /\ model' = SubSeq(model, 1, m)
      /\ V!Leaves(SubSeq(model, m + 1, Len(model)))
      /\ UNCHANGED <<made, leaky, iter, rest>>
  BY <1>0, <1>1 DEF V!Truncate, V!Truncated, V!NoPanic, V!OnlySelf
<1>3. self' \in Vectors /\ model' = V!as_slice(self')
  BY <1>0, <1>2, TruncateKeeps
<1>4. SameElements(model, model)
  BY DEF SameElements
<1>5. Owned'
  BY <1>0, <1>2, <1>4, KeepsPrefix
<1> QED
  BY <1>2, <1>3, <1>5, VecInvSelf

\* dedup, whose drops may be ended by a panic
LEMMA DedupStep ==
    ASSUME VecInv, NEW stop \in Nat, V!Dedup(stop)
    PROVE  VecInv'
<1>0. model \in Row /\ Len(model) \in Nat /\ self \in Vectors /\ model = V!as_slice(self) /\ V!Size = Len(model)
  BY VecInvRows DEF VecInv
<1>1. Len(model) > 0 /\ model # <<>> /\ UNCHANGED <<made, leaky, iter, rest>>
  BY <1>0, RowIs DEF V!Dedup, V!NoPanic, V!OnlySelf
<1>2. PICK r \in Row, kept \in 1 .. Len(model) :
         /\ V!dedup(model) = <<r, kept>> /\ SameElements(model, r)
         /\ SubSeq(r, 1, kept) = V!Picked(model, Firsts(model))
  BY <1>0, <1>1, DedupKeepsFirsts
<1>3. Len(r) = Len(model)
  BY <1>2 DEF SameElements
<1>4. PICK w \in Vectors : w = V!WithSlice(self, r) /\ V!as_slice(w) = r /\ V!IsHeap(w) = V!IsHeap(self)
  <2>1. V!WithSlice(self, r) \in Vectors /\ V!as_slice(V!WithSlice(self, r)) = r
    BY <1>0, <1>3, SliceReplaced
  <2>2. V!WithSlice(self, r).storage = self.storage
    BY <1>0 DEF V!WithSlice, Vectors
  <2> QED
    BY <2>1, <2>2 DEF V!IsHeap
<1>5. PICK m : m = IF V!IsHeap(self) THEN kept ELSE stop
  OBVIOUS
<1>6. /\ stop = kept \/ stop \in kept .. Len(model) - 1
      /\ V!Truncated(w, kept, stop)
      /\ model' = IF stop = kept \/ V!IsHeap(self) THEN V!Picked(model, Firsts(model)) ELSE SubSeq(r, 1, stop)
  BY <1>0, <1>2, <1>4 DEF V!Dedup, Firsts
<1>7. m \in Nat /\ m \in 0 .. Len(r) /\ m <= Len(V!as_slice(w))
  BY <1>0, <1>3, <1>4, <1>5, <1>6
<1>8. self' = V!truncate(w, m) /\ V!Leaves(SubSeq(r, m + 1, Len(r)))
  BY <1>0, <1>3, <1>4, <1>5, <1>6 DEF V!Truncated
<1>9. model' = SubSeq(r, 1, m)
  BY <1>2, <1>5, <1>6
<1>10. self' \in Vectors /\ model' = V!as_slice(self')
  BY <1>4, <1>7, <1>8, <1>9, TruncateKeeps
<1>11. Owned'
  BY <1>1, <1>2, <1>7, <1>8, <1>9, KeepsPrefix
<1> QED
  BY <1>1, <1>10, <1>11, VecInvSelf

\* retain's n elements, of which those at `kept` stay; the rest are lost if a panic
\* ends it early.
LEMMA RetainStep ==
    ASSUME VecInv, NEW n \in Nat, NEW kept, V!Retain(n, kept)
    PROVE  VecInv'
<1>0. /\ model \in Row /\ Len(model) \in Nat /\ self \in Vectors /\ model = V!as_slice(self) /\ V!Size = Len(model)
      /\ Owned /\ Once(model) /\ leaky \in BOOLEAN
  BY VecInvRows DEF VecInv, Owned
<1>1. /\ n \in 1 .. Len(model) /\ kept \in SUBSET (0 .. n - 1)
      /\ UNCHANGED <<made, iter, rest>> /\ leaky' = (leaky \/ n < Len(model))
      /\ model' = V!Picked(model, kept)
  BY <1>0 DEF V!Retain, V!OnlySelf
<1>2. PICK left : left = (0 .. n - 1) \ kept
  OBVIOUS
<1>3. V!Leaves(V!Picked(model, left))
  BY <1>0, <1>2 DEF V!Retain
<1>4. kept \in SUBSET (0 .. Len(model) - 1) /\ left \in SUBSET (0 .. Len(model) - 1)
  BY <1>0, <1>1, <1>2
<1>5. self' \in Vectors /\ V!as_slice(self') = V!Picked(model, kept)
  <2>1. CASE V!IsHeap(self)
    <3>1. self' = [self EXCEPT !.vec = V!Picked(@, kept)] /\ self.vec = model
      BY <1>0, <2>1, Slice DEF V!Retain
    <3>2. V!Picked(model, kept) \in Row
      BY <1>0, <1>4, PickedIs
    <3>3. self' \in Vectors /\ V!IsHeap(self') /\ self'.vec = V!Picked(model, kept)
      BY <1>0, <2>1, <3>1, <3>2 DEF Vectors, V!IsHeap
    <3> QED
      BY <3>3, Slice
  <2>2. CASE ~V!IsHeap(self)
    <3>1. self' = V!RetainLoop(self, n, kept)
      BY <2>2 DEF V!Retain, V!retain
    <3>2. n \in Nat /\ n <= self.len
      BY <1>0, <1>1, <2>2, CellsAre
    <3> QED
      BY <1>0, <1>1, <2>2, <3>1, <3>2, RetainKeeps
  <2> QED
    BY <2>1, <2>2
<1>6. PICK I, J : I = {i + 1 : i \in kept} /\ J = {i + 1 : i \in left}
  OBVIOUS
<1>7. PICK out \in Row : out = V!Picked(model, left) /\ V!Leaves(out) /\ Picks(out, model, J)
  BY <1>0, <1>3, <1>4, <1>6, PickedIs, PicksPicked
<1>8. model' \in Row /\ Picks(model', model, I)
  BY <1>0, <1>1, <1>4, <1>6, PickedIs, PicksPicked
<1>9. I \in SUBSET (1 .. Len(model)) /\ J \in SUBSET (1 .. Len(model)) /\ I \cap J = {}
  <2>1. \A i \in 0 .. Len(model) - 1 : i + 1 \in 1 .. Len(model)
    BY <1>0
  <2>2. \A i \in kept, j \in left : i + 1 # j + 1
    BY <1>1, <1>2
  <2> QED
    BY <1>4, <1>6, <2>1, <2>2
<1>l. leaky' \in BOOLEAN /\ (leaky => leaky') /\ (n < Len(model) => leaky')
  BY <1>0, <1>1, Zenon
<1>10. leaky' \/ I \cup J = 1 .. Len(model)
  <2> SUFFICES ASSUME ~leaky', NEW k \in 1 .. Len(model) PROVE k \in I \cup J
    BY <1>9
  <2>1. n = Len(model)
    BY <1>0, <1>1, <1>l
  <2>2. k - 1 \in 0 .. n - 1 /\ k = (k - 1) + 1
    BY <2>1
  <2>3. k - 1 \in kept \/ k - 1 \in left
    BY <1>2, <2>2
  <2> QED
    BY <1>6, <2>2, <2>3
<1>11. leaky' \in BOOLEAN /\ (leaky => leaky') /\ made' = made /\ rest' = rest
  BY <1>1, <1>l
<1>12. Owned'
  BY <1>0, <1>7, <1>8, <1>9, <1>10, <1>11, VectorGivesUp
<1> QED
  BY <1>1, <1>5, <1>12, VecInvSelf

\* reserve moves the elements at most.
LEMMA ReserveStep ==
    ASSUME VecInv, NEW n \in Nat, V!Reserve(n)
    PROVE  VecInv'
<1>1. self \in Vectors /\ model = V!as_slice(self) /\ Owned
  BY DEF VecInv
<1>2. self' = V!reserve(self, n) /\ UNCHANGED <<iter, made, gone, leaky, model, rest>>
  BY DEF V!Reserve, V!NoPanic, V!OnlySelf
<1>3. self' \in Vectors /\ model' = V!as_slice(self')
  BY <1>1, <1>2, ReserveKeeps
<1>4. Owned'
  BY <1>1, <1>2 DEF Owned
<1> QED
  BY <1>2, <1>3, <1>4, VecInvSelf

-----------------------------------------------------------------------------
(* The steps that make elements                                            *)

\* The first of the new elements are added, and the others dropped.
LEMMA GainsPrefix ==
    ASSUME VecInv, NEW n \in Nat, made + n <= MaxElements, made' = made + n, NEW q \in V!Fresh(n),
           NEW m \in 0 .. n, model' = model \o SubSeq(q, 1, m), V!Leaves(SubSeq(q, m + 1, n)),
           rest' = rest, leaky' = leaky
    PROVE  Owned'
<1>0. model \in Row /\ made \in Nat /\ Owned /\ Once(model) /\ Ids(model) \subseteq 1 .. made
  BY VecInvRows DEF VecInv, Owned
<1>1. q \in Row /\ Len(q) = n /\ Once(q) /\ Ids(q) = made + 1 .. made + n
  BY <1>0, FreshIs
<1>2. PICK N : N = made + 1 .. made + n
  OBVIOUS
<1>3. N \cap Ids(model) = {}
  BY <1>0, <1>2
<1>4. PICK a \in Row : a = SubSeq(q, 1, m) /\ Picks(a, q, 1 .. m)
  BY <1>1, Prefix, PicksPrefix
<1>5. PICK b \in Row : b = SubSeq(q, m + 1, n) /\ Picks(b, q, m + 1 .. n)
  <2>1. m \in 0 .. Len(q) /\ n \in m .. Len(q)
    BY <1>1
  <2> QED
    BY <1>1, <2>1, SubRow, PicksPart
<1>6. PICK I \in SUBSET (1 .. Len(q)), J \in SUBSET (1 .. Len(q)) : I = 1 .. m /\ J = m + 1 .. n
  BY <1>1
<1>7. I \cap J = {} /\ I \cup J = 1 .. Len(q)
  BY <1>1, <1>6
<1>8. Once(a) /\ Once(b) /\ Ids(a) \cap Ids(b) = {} /\ Ids(a) \cup Ids(b) = N
  <2>1. Picks(a, q, I) /\ Picks(b, q, J)
    BY <1>4, <1>5, <1>6
  <2>2. q \in Row /\ Once(q)
    BY <1>1
  <2>3. /\ Once(a) /\ Once(b) /\ Ids(a) \cap Ids(b) = {} /\ Ids(a) \cup Ids(b) \subseteq Ids(q)
        /\ I \cup J = 1 .. Len(q) => Ids(a) \cup Ids(b) = Ids(q)
    BY <1>7, <2>1, <2>2, Split
  <2> QED
    BY <1>1, <1>2, <1>7, <2>3
<1>9. Once(model') /\ Ids(model') = Ids(model) \cup Ids(a)
  BY <1>0, <1>3, <1>4, <1>8, BothRows
<1>10. /\ Ids(model') \cap Ids(b) = {} /\ Ids(b) \cap Ids(model) = {}
       /\ Ids(model') \cup Ids(b) = Ids(model) \cup (made + 1 .. made + n)
  BY <1>2, <1>3, <1>8, <1>9
<1>11. V!Leaves(b)
  BY <1>5
<1> QED
  BY <1>0, <1>8, <1>9, <1>10, <1>11, VectorGains

\* All of the new elements are added.
LEMMA GainsAll ==
    ASSUME VecInv, NEW n \in Nat, made + n <= MaxElements, made' = made + n, NEW q \in V!Fresh(n),
           model' \in Row, Picks(model', model \o q, 1 .. Len(model) + n),
           gone' = gone, rest' = rest, leaky' = leaky
    PROVE  Owned'
<1>0. model \in Row /\ made \in Nat /\ Owned /\ Once(model) /\ Ids(model) \subseteq 1 .. made
  BY VecInvRows DEF VecInv, Owned
<1>1. q \in Row /\ Len(q) = n /\ Once(q) /\ Ids(q) = made + 1 .. made + n
  BY <1>0, FreshIs
<1>2. PICK N : N = made + 1 .. made + n
  OBVIOUS
<1>3. N \cap Ids(model) = {}
  BY <1>0, <1>2
<1>4. PICK p \in Row : p = model \o q /\ Once(p) /\ Ids(p) = Ids(model) \cup N /\ Len(p) = Len(model) + n
  BY <1>0, <1>1, <1>2, <1>3, TwoRows, BothRows
<1>5. PICK m \in Row : m = model'
  OBVIOUS
<1>6. PICK out \in Row : out = <<>> /\ V!Leaves(out) /\ Once(out) /\ Ids(out) = {}
  BY <1>0, NothingLeaves
<1>7. PICK I, J : I = 1 .. Len(p) /\ J = {}
  OBVIOUS
<1>8. Picks(m, p, I) /\ Picks(out, p, J)
  BY <1>4, <1>5, <1>6, <1>7, WholeRow
<1>9. I \in SUBSET (1 .. Len(p)) /\ J \in SUBSET (1 .. Len(p)) /\ I \cap J = {} /\ I \cup J = 1 .. Len(p)
  BY <1>7
<1>p. Once(p)
  BY <1>4
<1>10. Once(m) /\ Ids(m) \cup Ids(out) = Ids(p)
  BY <1>p, <1>8, <1>9, Split
<1>11. /\ Once(model') /\ Ids(model') \cap Ids(out) = {} /\ Ids(out) \cap Ids(model) = {}
       /\ Ids(model') \cup Ids(out) = Ids(model) \cup (made + 1 .. made + n)
  BY <1>2, <1>4, <1>5, <1>6, <1>10
<1> QED
  BY <1>0, <1>6, <1>11, VectorGains

\* ArrayVec drops what finds it full.
LEMMA ArrayExtendStep ==
    ASSUME VecInv, NEW n \in Nat, V!ArrayExtend(n)
    PROVE  VecInv'
<1>0. /\ model \in Row /\ Len(model) \in Nat /\ self \in Vectors /\ model = V!as_slice(self) /\ V!Size = Len(model)
      /\ made \in Nat
  BY VecInvRows DEF VecInv
<1>1. PICK m : m = IF Len(model) + n > Cap THEN Cap - Len(model) ELSE n
  OBVIOUS
<1>2. m \in 0 .. n
  <2>1. ~V!IsHeap(self)
    BY DEF V!ArrayExtend, V!IsArray, V!IsHeap
  <2>2. Len(model) <= Cap /\ Cap \in Nat
    BY <1>0, <2>1, CellsAre, CollectionsAssumption
  <2> QED
    BY <1>0, <1>1, <2>2
<1>3. PICK q \in V!Fresh(n) :
         /\ self' = V!Pushed(self, SubSeq(q, 1, m)) /\ V!Leaves(SubSeq(q, m + 1, n))
         /\ model' = model \o SubSeq(q, 1, m)
  BY <1>0, <1>1 DEF V!ArrayExtend
<1>4. made + n <= MaxElements /\ made' = made + n /\ UNCHANGED <<leaky, iter, rest>>
  BY DEF V!ArrayExtend, V!NoPanic, V!OnlySelf
<1>5. q \in Row /\ Len(q) = n
  BY <1>0, FreshIs
<1>6. PICK a \in Row : a = SubSeq(q, 1, m)
  BY <1>2, <1>5, Prefix
<1>7. self' \in Vectors /\ model' = V!as_slice(self')
  BY <1>0, <1>3, <1>6, PushedAppends
<1>8. Owned'
  BY <1>2, <1>3, <1>4, GainsPrefix
<1> QED
  BY <1>4, <1>7, <1>8, VecInvSelf

\* SmallVec grows.
LEMMA ExtendStep ==
    ASSUME VecInv, NEW n \in Nat, NEW hint \in Nat, V!Extend(n, hint)
    PROVE  VecInv'
<1>0. /\ model \in Row /\ Len(model) \in Nat /\ self \in Vectors /\ model = V!as_slice(self)
      /\ made \in Nat
  BY VecInvRows DEF VecInv
<1>1. PICK q \in V!Fresh(n) : self' = V!Pushed(V!reserve(self, hint), q) /\ model' = model \o q
  BY DEF V!Extend
<1>2. made + n <= MaxElements /\ made' = made + n /\ UNCHANGED <<gone, leaky, iter, rest>>
  BY DEF V!Extend, V!NoPanic, V!OnlySelf
<1>3. q \in Row /\ Len(q) = n
  BY <1>0, FreshIs
<1>4. PICK s \in Vectors : s = V!reserve(self, hint) /\ V!as_slice(s) = model
  BY <1>0, ReserveKeeps
<1>5. self' \in Vectors /\ model' = V!as_slice(self')
  BY <1>1, <1>3, <1>4, PushedAppends
<1>6. PICK p \in Row : p = model \o q /\ Len(p) = Len(model) + n
  BY <1>0, <1>3, TwoRows
<1>7. model' \in Row /\ Picks(model', model \o q, 1 .. Len(model) + n)
  BY <1>1, <1>6, WholeRow
<1>8. Owned'
  BY <1>2, <1>7, GainsAll
<1> QED
  BY <1>2, <1>5, <1>8, VecInvSelf

\* A Vec is taken over or copied inline.
LEMMA FromVecStep ==
    ASSUME VecInv, NEW n \in Nat, NEW capacity, V!FromVec(n, capacity)
    PROVE  VecInv'
<1>0. /\ model \in Row /\ self \in Vectors /\ V!Size = Len(model)
      /\ made \in Nat
  BY VecInvRows DEF VecInv
<1>1. PICK q \in V!Fresh(n) :
         /\ self' = IF capacity <= Cap THEN V!Pushed(V!reserve(V!New("inline"), n), q)
                    ELSE [V!New("heap") EXCEPT !.vec = q]
         /\ model' = q
  BY DEF V!FromVec
<1>2. /\ made + n <= MaxElements /\ made' = made + n /\ UNCHANGED <<gone, leaky, iter, rest>>
      /\ Len(model) = 0 /\ model = <<>>
  BY <1>0, RowIs DEF V!FromVec, V!NoPanic, V!OnlySelf
<1>3. q \in Row /\ Len(q) = n
  BY <1>0, FreshIs
<1>4. <<>> \o q = q
  <2>1. PICK e \in Row : e = <<>> /\ Len(e) = 0
    BY NoRow
  <2>2. PICK r \in Row : r = e \o q /\ Len(r) = 0 + n /\ \A i \in 1 .. n : r[0 + i] = q[i]
    BY <1>3, <2>1, TwoRows
  <2>3. Len(r) = n /\ \A i \in 1 .. n : r[i] = q[i]
    BY <2>2
  <2> QED
    BY <1>3, <2>1, <2>2, <2>3, SameRow
<1>5. self' \in Vectors /\ q = V!as_slice(self')
  <2>1. CASE capacity <= Cap
    <3>1. PICK v \in Vectors : v = V!New("inline") /\ V!as_slice(v) = <<>>
      BY NewIsEmpty
    <3>2. PICK s \in Vectors : s = V!reserve(v, n) /\ V!as_slice(s) = <<>>
      BY <3>1, ReserveKeeps
    <3> QED
      BY <1>1, <1>3, <1>4, <2>1, <3>1, <3>2, PushedAppends
  <2>2. CASE ~(capacity <= Cap)
    <3>1. PICK v \in Vectors : v = V!New("heap") /\ v.storage = "heap"
      BY NewIsEmpty DEF V!New
    <3>2. self' = [v EXCEPT !.vec = q]
      BY <1>1, <2>2, <3>1
    <3>3. self' \in Vectors /\ V!IsHeap(self') /\ self'.vec = q
      BY <1>3, <3>1, <3>2 DEF Vectors, V!IsHeap
    <3> QED
      BY <3>3, Slice
  <2> QED
    BY <2>1, <2>2
<1>6. model \o q = q /\ Len(model) + n = Len(q)
  BY <1>2, <1>3, <1>4
<1>7. model' \in Row /\ Picks(model', model \o q, 1 .. Len(model) + n)
  BY <1>1, <1>3, <1>6, WholeRow
<1>8. Owned'
  BY <1>2, <1>7, GainsAll
<1> QED
  BY <1>1, <1>2, <1>5, <1>8, VecInvSelf

\* To insert is to append, but for the order.
LEMMA PicksInserted ==
    ASSUME NEW p \in Row, NEW i \in 0 .. Len(p), NEW q \in Row, Len(q) = 1
    PROVE  V!InsertAt(p, i + 1, q[1]) \in Row /\ Picks(V!InsertAt(p, i + 1, q[1]), p \o q, 1 .. Len(p) + 1)
<1>1. PICK m \in Nat : m = Len(p) /\ i \in 0 .. m
  BY RowIs
<1>2. q[1] \in Elements
  BY RowIs
<1>3. PICK r \in Row : /\ r = V!InsertAt(p, i + 1, q[1]) /\ Len(r) = m + 1
                       /\ \A k \in 1 .. i : r[k] = p[k]
                       /\ r[i + 1] = q[1]
                       /\ \A k \in i + 2 .. m + 1 : r[k] = p[k - 1]
  BY <1>1, <1>2, InsertedRow
<1>4. PICK t : t = p \o q
  OBVIOUS
<1>5. (\A k \in 1 .. m : t[k] = p[k]) /\ t[m + 1] = q[1]
  <2>1. /\ \A k \in 1 .. Len(p) : (p \o q)[k] = p[k]
        /\ \A k \in 1 .. Len(q) : (p \o q)[Len(p) + k] = q[k]
    BY TwoRows
  <2>2. 1 \in 1 .. Len(q)
    OBVIOUS
  <2>3. (p \o q)[Len(p) + 1] = q[1]
    BY <2>1, <2>2
  <2> QED
    BY <1>1, <1>4, <2>1, <2>3
<1>6. PICK f : f = [k \in 1 .. m + 1 |-> IF k <= i THEN k ELSE IF k = i + 1 THEN m + 1 ELSE k - 1]
  OBVIOUS
<1>I. PICK I : I = 1 .. m + 1
  OBVIOUS
<1>7. ASSUME NEW k \in 1 .. m + 1
      PROVE  /\ f[k] = (IF k <= i THEN k ELSE IF k = i + 1 THEN m + 1 ELSE k - 1)
             /\ f[k] \in I /\ r[k] = t[f[k]]
  <2>1. CASE k <= i
    <3>1. k \in 1 .. i /\ k \in 1 .. m /\ k \in I
      BY <1>1, <1>I, <2>1
    <3> QED
      BY <1>3, <1>5, <1>6, <2>1, <3>1
  <2>2. CASE k = i + 1
    <3>1. ~(k <= i) /\ m + 1 \in I
      BY <1>1, <1>I, <2>2
    <3> QED
      BY <1>3, <1>5, <1>6, <2>2, <3>1
  <2>3. CASE ~(k <= i) /\ k # i + 1
    <3>1. k \in i + 2 .. m + 1 /\ k - 1 \in 1 .. m /\ k - 1 \in I
      BY <1>1, <1>I, <2>3
    <3> QED
      BY <1>3, <1>5, <1>6, <2>3, <3>1
  <2> QED
    BY <2>1, <2>2, <2>3
<1>8. \A j, k \in 1 .. m + 1 : f[j] = f[k] => j = k
  BY <1>1, <1>7
<1>9. ASSUME NEW x \in I PROVE \E k \in 1 .. m + 1 : f[k] = x
  <2>1. CASE x <= i
    BY <1>I, <1>7, <2>1
  <2>2. CASE x = m + 1
    <3>1. i + 1 \in 1 .. m + 1 /\ ~(i + 1 <= i)
      BY <1>1
    <3> QED
      BY <1>7, <2>2, <3>1
  <2>3. CASE ~(x <= i) /\ x # m + 1
    <3>1. x + 1 \in 1 .. m + 1 /\ ~(x + 1 <= i) /\ x + 1 # i + 1 /\ (x + 1) - 1 = x
      BY <1>1, <1>I, <2>3
    <3> QED
      BY <1>7, <3>1
  <2> QED
    BY <2>1, <2>2, <2>3
<1>10. Picks(r, t, I)
  BY <1>3, <1>7, <1>8, <1>9 DEF Picks
<1> QED
  BY <1>1, <1>3, <1>4, <1>I, <1>10

\* ArrayVec::insert
LEMMA InsertStep ==
    ASSUME VecInv, NEW i \in Nat, V!Insert(i)
    PROVE  VecInv'
<1>0. /\ model \in Row /\ Len(model) \in Nat /\ self \in Vectors /\ model = V!as_slice(self) /\ V!Size = Len(model)
      /\ made \in Nat /\ MaxElements \in Nat
  BY VecInvRows DEF VecInv
<1>1. PICK q \in V!Fresh(1) : self' = V!insert(self, i, q[1]) /\ model' = V!InsertAt(model, i + 1, q[1])
  BY DEF V!Insert
<1>2. /\ made + 1 <= MaxElements /\ made' = made + 1 /\ UNCHANGED <<gone, leaky, iter, rest>>
      /\ Len(model) < Cap /\ i <= Len(model) /\ ~V!IsHeap(self)
  BY <1>0 DEF V!Insert, V!NoPanic, V!OnlySelf, V!IsArray, V!IsHeap
<1>3. q \in Row /\ Len(q) = 1 /\ q[1] \in Elements
  <2>1. q \in Row /\ Len(q) = 1
    BY <1>0, FreshIs
  <2> QED
    BY <2>1, RowIs
<1>4. self.len < Cap /\ i <= Len(V!as_slice(self))
  BY <1>0, <1>2, CellsAre
<1>5. self' \in Vectors /\ model' = V!as_slice(self')
  BY <1>0, <1>1, <1>2, <1>3, <1>4, InsertAdds
<1>6. model' \in Row /\ Picks(model', model \o q, 1 .. Len(model) + 1)
  BY <1>0, <1>1, <1>2, <1>3, PicksInserted
<1>7. Owned'
  BY <1>2, <1>6, GainsAll
<1> QED
  BY <1>2, <1>5, <1>7, VecInvSelf

-----------------------------------------------------------------------------
(* The steps of the iterators                                              *)

\* Without an iterator no element is in one.
LEMMA IdleIsEmpty ==
    ASSUME VecInv, V!Idle
    PROVE  Ids(rest) = {}
<1>1. rest = <<>>
  BY NoneIsEmpty DEF VecInv, V!Idle
<1> QED
  BY <1>1, NoRow, RowIs DEF Ids

\* A range goes from the vector to the iterator.
LEMMA DrainStep ==
    ASSUME VecInv, NEW a \in Nat, NEW b \in Nat, V!Drain(a, b)
    PROVE  VecInv'
<1>0. /\ model \in Row /\ Len(model) \in Nat /\ self \in Vectors /\ model = V!as_slice(self) /\ V!Size = Len(model)
      /\ Owned
  BY VecInvRows DEF VecInv
<1>1. /\ a \in 0 .. Len(model) /\ b \in a .. Len(model)
      /\ self' = V!drain(self, a, b) /\ iter' = V!IterOf(self, a, b)
      /\ model' = Cut(model, a, b) /\ rest' = SubSeq(model, a + 1, b)
      /\ UNCHANGED <<made, gone, leaky>>
  BY <1>0 DEF V!Drain, V!NoPanic, Cut
<1>2. self' \in Vectors /\ model' = V!as_slice(self') /\ IsIterator(iter') /\ rest' = V!Remaining(iter')
  BY <1>0, <1>1, DrainLeaves, IterHolds
<1>3. PICK I, J : I = (1 .. Len(model)) \ (a + 1 .. b) /\ J = a + 1 .. b
  OBVIOUS
<1>4. I \in SUBSET (1 .. Len(model)) /\ J \in SUBSET (1 .. Len(model)) /\ I \cap J = {} /\ I \cup J = 1 .. Len(model)
  BY <1>0, <1>1, <1>3
<1>5. model' \in Row /\ Picks(model', model, I)
  BY <1>0, <1>1, <1>3, CutIs, PicksCut
<1>6. rest' \in Row /\ Picks(rest', model, J)
  BY <1>0, <1>1, <1>3, SubRow, PicksPart
<1>7. Ids(rest) = {}
  BY IdleIsEmpty DEF V!Drain
<1>8. Owned'
  BY <1>0, <1>1, <1>4, <1>5, <1>6, <1>7, VectorHandsOver
<1> QED
  BY <1>2, <1>8 DEF VecInv

\* Everything goes from the vector to the iterator.
LEMMA IntoIterStep ==
    ASSUME VecInv, V!IntoIter
    PROVE  VecInv'
<1>0. /\ model \in Row /\ Len(model) \in Nat /\ self \in Vectors /\ model = V!as_slice(self) /\ V!Size = Len(model)
      /\ Owned
  BY VecInvRows DEF VecInv
<1>1. /\ iter' = V!IterOf(self, 0, Len(model)) /\ model' = <<>> /\ rest' = model
      /\ UNCHANGED <<made, gone, leaky>>
  BY <1>0 DEF V!IntoIter, V!NoPanic
<1>2. self' \in Vectors /\ V!as_slice(self') = <<>>
  BY NewIsEmpty DEF V!IntoIter
<1>3. IsIterator(iter') /\ V!Remaining(iter') = model
  <2>1. 0 \in 0 .. Len(model) /\ Len(model) \in 0 .. Len(model) /\ 0 + 1 = 1
    BY <1>0
  <2>2. IsIterator(iter') /\ V!Remaining(iter') = SubSeq(model, 0 + 1, Len(model))
    BY <1>0, <1>1, <2>1, IterHolds
  <2> QED
    BY <1>0, <2>1, <2>2, WholeRow
<1>4. PICK I, J : I = {} /\ J = 1 .. Len(model)
  OBVIOUS
<1>5. I \in SUBSET (1 .. Len(model)) /\ J \in SUBSET (1 .. Len(model)) /\ I \cap J = {} /\ I \cup J = 1 .. Len(model)
  BY <1>4
<1>6. model' \in Row /\ Picks(model', model, I) /\ rest' \in Row /\ Picks(rest', model, J)
  BY <1>0, <1>1, <1>4, NoRow, WholeRow
<1>7. Ids(rest) = {}
  BY IdleIsEmpty DEF V!IntoIter
<1>8. Owned'
  BY <1>0, <1>1, <1>5, <1>6, <1>7, VectorHandsOver
<1> QED
  BY <1>1, <1>2, <1>3, <1>8 DEF VecInv

\* The iterator gives one element, the first or the last.
LEMMA GivesOne ==
    ASSUME VecInv, NEW i \in 1 .. Len(rest), NEW a \in 0 .. Len(rest), NEW b \in a .. Len(rest),
           (i = 1 /\ a = 1 /\ b = Len(rest)) \/ (i = Len(rest) /\ a = 0 /\ b = Len(rest) - 1),
           rest' = SubSeq(rest, a + 1, b), V!Leaves(<<rest[i]>>), UNCHANGED <<made, leaky, model>>
    PROVE  Owned'
<1>0. rest \in Row /\ Len(rest) \in Nat /\ Owned
  BY VecInvRows DEF VecInv
<1>1. PICK I, J : I = a + 1 .. b /\ J = {i}
  OBVIOUS
<1>2. I \in SUBSET (1 .. Len(rest)) /\ J \in SUBSET (1 .. Len(rest)) /\ I \cap J = {} /\ I \cup J = 1 .. Len(rest)
  BY <1>0, <1>1
<1>3. rest' \in Row /\ Picks(rest', rest, I)
  BY <1>0, <1>1, SubRow, PicksPart
<1>4. PICK out \in Row : out = <<rest[i]>> /\ V!Leaves(out) /\ Picks(out, rest, J)
  BY <1>0, <1>1, PicksOne
<1>5. leaky' \in BOOLEAN /\ (leaky => leaky') /\ made' = made /\ model' = model
  BY <1>0 DEF Owned
<1> QED
  BY <1>0, <1>2, <1>3, <1>4, <1>5, IteratorGivesUp

\* The iterator gives its first element.
LEMMA NextStep ==
    ASSUME VecInv, V!next
    PROVE  VecInv'
<1>0. rest \in Row /\ Len(rest) \in Nat /\ IsIterator(iter) /\ rest = V!Remaining(iter)
  BY VecInvRows DEF VecInv
<1>1. PICK s \in Nat, e \in Nat : s = iter.start /\ e = iter.end /\ s <= e /\ Len(rest) = e - s
  BY <1>0, RemainingIs DEF IsIterator
<1>2. s # e /\ iter' = [iter EXCEPT !.start = s + 1] /\ UNCHANGED <<made, leaky, self, model>>
  BY <1>1 DEF V!next, V!NoPanic
<1>3. \A i \in 1 .. e - s : rest[i] = iter.items[s + i - 1]
  BY <1>0, <1>1, RemainingIs
<1>4. rest' = Tail(rest) /\ V!Leaves(<<rest[1]>>)
  <2>1. 1 \in 1 .. e - s /\ s + 1 - 1 = s
    BY <1>1, <1>2
  <2>2. rest[1] = iter.items[s]
    BY <1>3, <2>1
  <2> QED
    BY <1>1, <2>2 DEF V!next
<1>5. 1 \in 0 .. Len(rest) /\ Len(rest) \in 1 .. Len(rest) /\ 1 \in 1 .. Len(rest) /\ rest # <<>>
  BY <1>0, <1>1, <1>2, RowIs
<1>6. PICK t \in Row : t = SubSeq(rest, 1 + 1, Len(rest)) /\ Len(t) = Len(rest) - 1
                       /\ \A i \in 1 .. Len(rest) - 1 : t[i] = rest[1 + i]
  BY <1>0, <1>5, SubRow
<1>7. rest' = t
  <2>1. PICK u \in Row : u = Tail(rest) /\ Len(u) = Len(rest) - 1 /\ \A i \in 1 .. Len(u) : u[i] = rest[i + 1]
    BY <1>0, <1>5, HeadTailProperties DEF Row
  <2>2. \A i \in 1 .. Len(u) : i \in 1 .. Len(rest) - 1 /\ 1 + i = i + 1
    BY <2>1
  <2> QED
    BY <1>4, <1>6, <2>1, <2>2, SameRow
<1>8. IsIterator(iter') /\ iter'.start = s + 1 /\ iter'.end = e /\ iter'.items = iter.items
  <2>1. iter'.start = s + 1 /\ iter'.end = e /\ iter'.items = iter.items /\ iter'.heap = iter.heap
        /\ iter' = [heap |-> iter.heap, items |-> iter.items, start |-> s + 1, end |-> e]
    BY <1>0, <1>1, <1>2 DEF IsIterator
  <2>2. s + 1 <= e /\ s + 1 \in Nat
    BY <1>1, <1>2
  <2>3. \A j \in s + 1 .. e - 1 : iter.items[j] \in Elements
    BY <1>0, <1>1 DEF IsIterator
  <2> QED
    BY <2>1, <2>2, <2>3 DEF IsIterator
<1>9. t = V!Remaining(iter')
  <2>1. PICK u \in Row : u = V!Remaining(iter') /\ Len(u) = e - (s + 1)
                         /\ \A i \in 1 .. e - (s + 1) : u[i] = iter.items[s + 1 + i - 1]
    <3>1. PICK it : it = iter'
      OBVIOUS
    <3>2. /\ V!Remaining(it) \in Row /\ Len(V!Remaining(it)) = it.end - it.start
          /\ \A i \in 1 .. it.end - it.start : V!Remaining(it)[i] = it.items[it.start + i - 1]
      BY <1>8, <3>1, RemainingIs
    <3>3. it.start = s + 1 /\ it.end = e /\ it.items = iter.items
      BY <1>8, <3>1
    <3>4. PICK u \in Row : u = V!Remaining(it)
      BY <3>2
    <3>5. Len(u) = e - (s + 1) /\ \A i \in 1 .. e - (s + 1) : u[i] = iter.items[s + 1 + i - 1]
      BY <3>2, <3>3, <3>4
    <3> QED
      BY <3>1, <3>4, <3>5
  <2>l. Len(t) = e - (s + 1)
    BY <1>1, <1>6
  <2>2. Len(u) = Len(t) /\ Len(t) = e - (s + 1)
    BY <2>l, <2>1
  <2>3. ASSUME NEW i \in 1 .. Len(t) PROVE t[i] = u[i]
    <3>1. i \in 1 .. Len(rest) - 1 /\ 1 + i \in 1 .. e - s /\ i \in 1 .. e - (s + 1)
      BY <1>1, <2>2
    <3>2. s + (1 + i) - 1 = s + 1 + i - 1
      BY <3>1
    <3>3. t[i] = iter.items[s + (1 + i) - 1]
      BY <1>3, <1>6, <3>1
    <3> QED
      BY <2>1, <3>1, <3>2, <3>3
  <2> QED
    BY <2>1, <2>2, <2>3, SameRow
<1>10. Owned'
  BY <1>2, <1>4, <1>5, <1>6, <1>7, GivesOne
<1> QED
  BY <1>2, <1>7, <1>8, <1>9, <1>10, VecInvIter

\* The iterator gives its last element.
LEMMA NextBackStep ==
    ASSUME VecInv, V!next_back
    PROVE  VecInv'
<1>0. rest \in Row /\ Len(rest) \in Nat /\ IsIterator(iter) /\ rest = V!Remaining(iter)
  BY VecInvRows DEF VecInv
<1>1. PICK s \in Nat, e \in Nat : s = iter.start /\ e = iter.end /\ s <= e /\ Len(rest) = e - s
  BY <1>0, RemainingIs DEF IsIterator
<1>2. s # e /\ iter' = [iter EXCEPT !.end = e - 1] /\ UNCHANGED <<made, leaky, self, model>>
  BY <1>1 DEF V!next_back, V!NoPanic
<1>3. \A i \in 1 .. e - s : rest[i] = iter.items[s + i - 1]
  BY <1>0, <1>1, RemainingIs
<1>4. rest' = SubSeq(rest, 1, Len(rest) - 1) /\ V!Leaves(<<rest[Len(rest)]>>)
  <2>1. e - s \in 1 .. e - s /\ s + (e - s) - 1 = e - 1
    BY <1>1, <1>2
  <2>2. rest[Len(rest)] = iter.items[e - 1]
    BY <1>1, <1>3, <2>1
  <2> QED
    BY <1>1, <2>2 DEF V!next_back, V!Front
<1>5. 0 \in 0 .. Len(rest) /\ Len(rest) - 1 \in 0 .. Len(rest) /\ Len(rest) \in 1 .. Len(rest) /\ 0 + 1 = 1
  BY <1>0, <1>1, <1>2
<1>6. PICK t \in Row : t = SubSeq(rest, 1, Len(rest) - 1) /\ Len(t) = Len(rest) - 1
                       /\ \A i \in 1 .. Len(rest) - 1 : t[i] = rest[i]
  BY <1>0, <1>5, Prefix
<1>8. IsIterator(iter') /\ iter'.start = s /\ iter'.end = e - 1 /\ iter'.items = iter.items
  <2>1. iter'.start = s /\ iter'.end = e - 1 /\ iter'.items = iter.items /\ iter'.heap = iter.heap
        /\ iter' = [heap |-> iter.heap, items |-> iter.items, start |-> s, end |-> e - 1]
    BY <1>0, <1>1, <1>2 DEF IsIterator
  <2>2. s <= e - 1 /\ e - 1 \in Nat
    BY <1>1, <1>2
  <2>3. \A j \in s .. (e - 1) - 1 : iter.items[j] \in Elements
    BY <1>0, <1>1 DEF IsIterator
  <2> QED
    BY <2>1, <2>2, <2>3 DEF IsIterator
<1>9. t = V!Remaining(iter')
  <2>1. PICK u \in Row : u = V!Remaining(iter') /\ Len(u) = (e - 1) - s
                         /\ \A i \in 1 .. (e - 1) - s : u[i] = iter.items[s + i - 1]
    <3>1. PICK it : it = iter'
      OBVIOUS
    <3>2. /\ V!Remaining(it) \in Row /\ Len(V!Remaining(it)) = it.end - it.start
          /\ \A i \in 1 .. it.end - it.start : V!Remaining(it)[i] = it.items[it.start + i - 1]
      BY <1>8, <3>1, RemainingIs
    <3>3. it.start = s /\ it.end = e - 1 /\ it.items = iter.items
      BY <1>8, <3>1
    <3>4. PICK u \in Row : u = V!Remaining(it)
      BY <3>2
    <3>5. Len(u) = (e - 1) - s /\ \A i \in 1 .. (e - 1) - s : u[i] = iter.items[s + i - 1]
      BY <3>2, <3>3, <3>4
    <3> QED
      BY <3>1, <3>4, <3>5
  <2>l. Len(t) = (e - 1) - s
    BY <1>1, <1>6
  <2>2. Len(u) = Len(t)
    BY <2>l, <2>1
  <2>3. ASSUME NEW i \in 1 .. Len(t) PROVE t[i] = u[i]
    <3>1. i \in 1 .. Len(rest) - 1 /\ i \in 1 .. e - s /\ i \in 1 .. (e - 1) - s
      BY <1>1, <2>l
    <3> QED
      BY <1>3, <1>6, <2>1, <3>1
  <2> QED
    BY <2>1, <2>2, <2>3, SameRow
<1>10. Owned'
  <2>1. rest' = SubSeq(rest, 0 + 1, Len(rest) - 1)
    BY <1>4, <1>5
  <2> QED
    BY <1>2, <1>4, <1>5, <2>1, GivesOne
<1> QED
  BY <1>2, <1>4, <1>6, <1>8, <1>9, <1>10, VecInvIter

\* The rest is dropped, or lost to a panic.
LEMMA DropIterStep ==
    ASSUME VecInv, NEW stop \in Nat, V!DropIter(stop)
    PROVE  VecInv'
<1>0. rest \in Row /\ Len(rest) \in Nat /\ rest = V!Remaining(iter) /\ Owned /\ leaky \in BOOLEAN
  BY VecInvRows DEF VecInv, Owned
<1>1. /\ stop \in 0 .. Len(rest) /\ V!Leaves(SubSeq(rest, 1, stop)) /\ iter' = V!None /\ rest' = <<>>
      /\ UNCHANGED <<self, made, model>> /\ leaky' = (leaky \/ stop < Len(rest))
  BY <1>0 DEF V!DropIter
<1>2. leaky' \in BOOLEAN /\ (leaky => leaky') /\ (stop < Len(rest) => leaky')
  BY <1>0, <1>1, Zenon
<1>3. PICK I, J : I = {} /\ J = 1 .. stop
  OBVIOUS
<1>4. I \in SUBSET (1 .. Len(rest)) /\ J \in SUBSET (1 .. Len(rest)) /\ I \cap J = {}
  BY <1>0, <1>1, <1>3
<1>5. leaky' \/ I \cup J = 1 .. Len(rest)
  <2> SUFFICES ASSUME ~leaky' PROVE J = 1 .. Len(rest)
    BY <1>3
  <2>1. stop = Len(rest)
    BY <1>0, <1>1, <1>2
  <2> QED
    BY <1>3, <2>1
<1>6. rest' \in Row /\ Picks(rest', rest, I)
  BY <1>0, <1>1, <1>3, NoRow, WholeRow
<1>7. PICK out \in Row : V!Leaves(out) /\ Picks(out, rest, J)
  BY <1>0, <1>1, <1>3, Prefix, PicksPrefix
<1>8. Owned'
  BY <1>0, <1>1, <1>2, <1>4, <1>5, <1>6, <1>7, IteratorGivesUp
<1>9. IsIterator(iter') /\ rest' = V!Remaining(iter')
  BY <1>1, NoneIsEmpty
<1> QED
  BY <1>1, <1>8, <1>9, VecInvIter

-----------------------------------------------------------------------------
(* The theorems                                                            *)

\* Every step of the vector keeps the invariant.
LEMMA VecInvNext ==
    ASSUME VecInv, [V!Next]_vectors
    PROVE  VecInv'
<1>0. MaxElements \in Nat /\ Cap \in Nat
  BY CollectionsAssumption
<1>1. ASSUME NEW storage \in {"array", "inline"}, V!DropVec(storage) PROVE VecInv'
  BY <1>1, DropVecStep
<1>2. ASSUME V!Push PROVE VecInv'
  BY <1>2, ExtendStep DEF V!Push
<1>3. ASSUME NEW n \in 0 .. MaxElements, NEW hint \in 0 .. Cap + 1, V!Extend(n, hint) \/ V!FromVec(n, Cap + hint)
      PROVE  VecInv'
  <2>1. n \in Nat /\ hint \in Nat
    OBVIOUS
  <2> QED
    BY <1>3, <2>1, ExtendStep, FromVecStep
<1>4. ASSUME NEW n \in 0 .. MaxElements, V!Reserve(n) \/ V!Insert(n) \/ V!ArrayExtend(n) \/ V!RemoveElement(n)
      PROVE  VecInv'
  <2>1. n \in Nat
    OBVIOUS
  <2> QED
    BY <1>4, <2>1, ReserveStep, InsertStep, ArrayExtendStep, RemoveElementStep
<1>5. ASSUME NEW n \in 0 .. MaxElements, NEW stop \in 0 .. MaxElements, V!Truncate(n, stop) \/ V!Drain(n, stop)
      PROVE  VecInv'
  <2>1. n \in Nat /\ stop \in Nat
    OBVIOUS
  <2> QED
    BY <1>5, <2>1, TruncateStep, DrainStep
<1>6. ASSUME NEW stop \in 0 .. MaxElements, V!Dedup(stop) \/ V!DropIter(stop) PROVE VecInv'
  <2>1. stop \in Nat
    OBVIOUS
  <2> QED
    BY <1>6, <2>1, DedupStep, DropIterStep
<1>7. ASSUME NEW n \in 1 .. MaxElements, NEW kept \in SUBSET (0 .. n - 1), V!Retain(n, kept) PROVE VecInv'
  <2>1. n \in Nat
    OBVIOUS
  <2> QED
    BY <1>7, <2>1, RetainStep
<1>8. CASE UNCHANGED vectors
  BY <1>8 DEF vectors, VecInv, Owned
<1>9. CASE V!Next
  BY <1>1, <1>2, <1>3, <1>4, <1>5, <1>6, <1>7, <1>9, IntoIterStep, NextStep, NextBackStep DEF V!Next
<1> QED
  BY <1>8, <1>9

\* An element with one place has one owner.
LEMMA VecInvMeansOwnedOnce ==
    ASSUME VecInv
    PROVE  V!OwnedOnce
<1>1. model \in Row /\ rest \in Row /\ Owned /\ model = V!as_slice(self) /\ rest = V!Remaining(iter) /\ Once(model) /\ Once(rest)
  BY VecInvRows DEF VecInv, Owned
<1>2. SUFFICES ASSUME NEW id \in 1 .. made
               PROVE  LET owners == gone[id] + V!Times(model, id) + V!Times(rest, id)
                      IN  owners <= 1 /\ (owners = 0 => leaky)
  BY <1>1 DEF V!OwnedOnce
<1>3. V!Times(model, id) = (IF id \in Ids(model) THEN 1 ELSE 0) /\ V!Times(rest, id) = (IF id \in Ids(rest) THEN 1 ELSE 0)
  BY <1>1, TimesIs
<1>4. ~(id \in Ids(model) /\ id \in Ids(rest))
  BY DEF Owned, VecInv
<1>5. id \in 1 .. MaxElements /\ gone[id] \in {0, 1}
  BY <1>1, CollectionsAssumption DEF Owned
<1>6. id \in Ids(model) \/ id \in Ids(rest) => gone[id] = 0
  BY <1>1, <1>5 DEF Owned
<1>7. gone[id] = 1 \/ id \in Ids(model) \/ id \in Ids(rest) \/ leaky
  BY <1>1 DEF Owned
<1> QED
  BY <1>3, <1>4, <1>5, <1>6, <1>7

\* HoldsItsSequence is a part of the invariant.
LEMMA VecInvMeansHolds ==
    ASSUME VecInv
    PROVE  V!HoldsItsSequence
BY DEF VecInv, V!HoldsItsSequence

\* A step of the slot map does not touch the vector.
LEMMA CollectionsVecInv == CollectionsSpec => []VecInv
<1>1. CollectionsInit => VecInv
  BY VecInvInit DEF CollectionsInit
<1>2. VecInv /\ [CollectionsNext]_<<part, vars, vectors>> => VecInv'
  <2>1. [CollectionsNext]_<<part, vars, vectors>> => [V!Next]_vectors
    BY DEF CollectionsNext, vectors
  <2> QED
    BY <2>1, VecInvNext
<1> QED
  BY <1>1, <1>2, PTL DEF CollectionsSpec

\* Every element that went into a SmallVec or ArrayVec has one owner: the vector or
\* the iterator over what was moved out of it, until it is dropped or given away,
\* once; and none is lost but to a panic of the user's code.
THEOREM ElementsHaveOneOwner == CollectionsSpec => []OwnedOnce
<1>1. VecInv => OwnedOnce
  BY VecInvMeansOwnedOnce DEF OwnedOnce
<1> QED
  BY <1>1, CollectionsVecInv, PTL

\* The vector is the sequence that its calls made of it, inline as on the heap and
\* over the move from one to the other, and the iterator gives the
\* sequence that was moved into it, from both ends.
THEOREM VectorsHoldTheirSequence == CollectionsSpec => []HoldsItsSequence
<1>1. VecInv => HoldsItsSequence
  BY VecInvMeansHolds DEF HoldsItsSequence
<1> QED
  BY <1>1, CollectionsVecInv, PTL
=================================================================================
