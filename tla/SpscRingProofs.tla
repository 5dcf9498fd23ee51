------------------------------ MODULE SpscRingProofs ------------------------------
(***************************************************************************)
(* Theorems about SpscRing, for any capacity, any width of the word and    *)
(* any threads, each of which may push, pop and count.                     *)
(*                                                                         *)
(* Positions wrap and skip the end of each lap, so they are counted here   *)
(* from Start without wrapping: Pos(n) is the n-th position, and the       *)
(* cursors stand at the R-th and the W-th.  What has become of the last    *)
(* Capacity positions before W decides every stamp and every value; a      *)
(* thread's label says where its position is relative to R and W.          *)
(***************************************************************************)
EXTENDS SpscRing, FiniteSetTheorems, SequenceTheorems, TLAPS

Slots == 0 .. Capacity - 1
Laps == Word \div Lap
Cycle == Laps * Capacity

\* The n-th position after Start, and its slot.
Pos(n) == Wrap(Start + (n \div Capacity) * Lap + 2 * (n % Capacity))
Ix(n) == n % Capacity

\* The laps before Start.
Turn == Start \div Lap

\* Which of the positions that are ever used p is.
Nth(p) == CHOOSE n \in 0 .. MaxItems : Pos(n) = p

R == Nth(read)
W == Nth(write)
At(t) == Nth(position[t])

Trying == {"push_load", "push_stamp", "push_claim", "push_full", "push_evict"}
Writing == {"push_write", "push_publish", "push_replace"}
Taking == {"pop_take", "pop_release"}
Busy == Writing \cup Taking \cup {"push_advance"}
Labels == {"idle", "return"} \cup PushLabels \cup PopLabels \cup LenLabels
Placed == {"push_stamp", "push_claim", "push_full", "push_evict", "push_advance",
           "pop_stamp", "pop_claim", "pop_empty", "len_write", "len_check"} \cup Writing \cup Taking

Types ==
    /\ DOMAIN stamp = Slots
    /\ value \in [Slots -> Items \cup {NoItem}]
    /\ pc \in [Threads -> Labels]
    /\ op \in [Threads -> {"none", "push", "push_overwrite", "pop", "len"}]
    /\ DOMAIN position = Threads
    /\ DOMAIN snapshot = Threads
    /\ item \in [Threads -> Items \cup {NoItem}]
    /\ made \in 0 .. MaxItems
    /\ DOMAIN sizes = Threads

\* The method that a thread is in, and its item.
Inside(t) ==
    /\ pc[t] = "idle" <=> op[t] = "none"
    /\ pc[t] \in PushLabels => op[t] \in {"push", "push_overwrite"}
    /\ pc[t] \in PopLabels => op[t] = "pop"
    /\ pc[t] \in LenLabels => op[t] = "len"
    /\ op[t] \in {"push", "push_overwrite"} => t \in Producers
    /\ op[t] = "pop" => t \in Consumers
    /\ pc[t] \in {"push_evict", "push_advance", "push_replace"} => op[t] = "push_overwrite"
    /\ pc[t] \in PushLabels \ {"push_publish"} => item[t] # NoItem
    /\ pc[t] \in (PopLabels \ {"pop_release"}) \cup {"idle"} => item[t] = NoItem

Methods == \A t \in Threads : Inside(t)

IsPlaced(t) == pc[t] \in Placed => At(t) \in 0 .. MaxItems /\ position[t] = Pos(At(t))

\* The cursors, and the positions that threads have.
Cursors ==
    /\ R \in 0 .. MaxItems /\ read = Pos(R)
    /\ W \in 0 .. MaxItems /\ write = Pos(W)
    /\ R <= W /\ W <= R + Capacity
    /\ \A t \in Threads : IsPlaced(t)

\* There are items enough for every push that has yet to advance the write cursor.
Coming == {t \in Threads : pc[t] \in Trying \cup {"push_advance"}}
Budget == IsFiniteSet(Coming) /\ W + Cardinality(Coming) <= made

NoWriter(n) == \A t \in Threads : pc[t] \in Writing => At(t) # n
NoTaker(n) == \A t \in Threads : pc[t] \in Taking => At(t) # n
NoAdvancer == \A t \in Threads : pc[t] # "push_advance"

\* The thread that has claimed position n is past it.
Given(n) == n < R /\ NoWriter(n) /\ NoTaker(n)

\* Where a thread is, by its label, relative to the cursors and to the others.
Stands(t) ==
    /\ pc[t] \in Trying \ {"push_load"} => At(t) <= W
    /\ pc[t] = "push_claim" /\ At(t) = W => Given(W - Capacity) /\ NoAdvancer
    /\ pc[t] \in {"push_full", "push_evict"} => NoWriter(At(t) - Capacity)
    /\ pc[t] = "push_advance" => At(t) = W /\ Given(W - Capacity)
    /\ pc[t] \in Writing => R <= At(t) /\ At(t) < W
    /\ pc[t] \in {"pop_stamp", "pop_claim", "pop_empty", "len_write", "len_check"} => At(t) <= R
    /\ pc[t] = "pop_claim" /\ At(t) = R => R < W /\ NoWriter(R)
    /\ pc[t] = "pop_empty" /\ At(t) = W => NoAdvancer
    /\ pc[t] \in Taking => W - Capacity <= At(t) /\ At(t) < R

Where == \A t \in Threads : Stands(t)

Alone ==
    \A t, u \in Threads :
        /\ pc[t] \in Writing /\ pc[u] \in Writing /\ At(t) = At(u) => t = u
        /\ pc[t] \in Taking /\ pc[u] \in Taking /\ At(t) = At(u) => t = u
        /\ pc[t] = "push_advance" /\ pc[u] = "push_advance" => t = u

\* The stamp of a slot, by what has become of its last position n, and its value.
Stamps ==
    \A n \in W - Capacity .. W - 1 :
        /\ ~NoWriter(n) => stamp[Ix(n)] \in {Pos(n), Pos(n - Capacity) + 1}
        /\ NoWriter(n) /\ ~Given(n) => stamp[Ix(n)] = Pos(n) + 1
        /\ Given(n) /\ (n = W - Capacity => NoAdvancer) => stamp[Ix(n)] = Pos(n + Capacity)
        /\ n = W - Capacity /\ ~NoAdvancer => stamp[Ix(n)] = Pos(n) + 1

Contents ==
    /\ \A n \in W - Capacity .. W - 1 :
        /\ NoWriter(n) /\ n >= R => value[Ix(n)] # NoItem
        /\ Given(n) /\ (n = W - Capacity => NoAdvancer) => value[Ix(n)] = NoItem
        /\ n = W - Capacity /\ ~NoAdvancer => value[Ix(n)] # NoItem
    /\ \A t \in Threads :
        /\ pc[t] \in {"push_write", "pop_release"} => value[Ix(At(t))] = NoItem
        /\ pc[t] \in {"push_publish", "push_replace", "pop_take"} => value[Ix(At(t))] # NoItem

IInv == Types /\ Methods /\ Cursors /\ Budget /\ Where /\ Alone /\ Stamps /\ Contents

\* len has read the write cursor while the read cursor was where it is.
Counts(t) ==
    /\ pc[t] = "len_check" =>
          /\ Nth(snapshot[t]) \in 0 .. MaxItems /\ snapshot[t] = Pos(Nth(snapshot[t]))
          /\ At(t) = R => /\ Nth(snapshot[t]) - R \in 0 .. Capacity
                          /\ Showed(t, Nth(snapshot[t]) - R)
    /\ pc[t] = "return" /\ op[t] = "len" => Showed(t, snapshot[t])

Counting == \A t \in Threads : Counts(t)

-----------------------------------------------------------------------------
(* Numbers                                                                 *)

LEMMA DivMod ==
    ASSUME NEW m \in Nat, m > 0, NEW c \in Int, NEW i \in 0 .. m - 1
    PROVE  (c * m + i) % m = i /\ (c * m + i) \div m = c
  OBVIOUS

LEMMA Divides ==
    ASSUME NEW m \in Nat, m > 0, NEW n \in Int
    PROVE  n = (n \div m) * m + (n % m) /\ (n % m) \in 0 .. m - 1 /\ n \div m \in Int
<1>1. n % m \in 0 .. m - 1
  OBVIOUS
<1>2. n \div m \in Int
  OBVIOUS
<1>3. n = m * (n \div m) + (n % m)
  OBVIOUS
<1> QED
  BY <1>1, <1>2, <1>3

LEMMA Fits ==
    ASSUME NEW l \in Nat, l > 0, NEW q \in Nat, q > 0, NEW b \in 0 .. q - 1, NEW j \in 0 .. l - 1
    PROVE  b * l + j \in 0 .. q * l - 1
<1>1. PICK d \in Nat : q = b + 1 + d
  <2>1. q - b - 1 \in Nat /\ q = b + 1 + (q - b - 1)
    OBVIOUS
  <2> QED BY <2>1
<1>2. q * l = b * l + l + d * l
  BY <1>1
<1>3. d * l \in Nat /\ b * l \in Nat
  BY <1>1
<1> QED
  BY <1>2, <1>3

LEMMA ModLaps ==
    ASSUME NEW l \in Nat, l > 0, NEW q \in Nat, q > 0, NEW a \in Int, NEW j \in 0 .. l - 1
    PROVE  (a * l + j) % (q * l) = (a % q) * l + j
<1>1. PICK c \in Int, b \in 0 .. q - 1 : a = c * q + b /\ a % q = b
  BY Divides
<1>2. a * l + j = c * (q * l) + (b * l + j)
  BY <1>1
<1>3. b * l + j \in 0 .. q * l - 1
  BY Fits
<1>4. q * l \in Nat /\ q * l > 0
  BY <1>3
<1>6. PICK m \in Nat : m = q * l
  BY <1>4
<1>7. PICK k \in Int : k = b * l + j
  BY <1>3
<1>8. (c * m + k) % m = k
  BY <1>3, <1>4, <1>6, <1>7, DivMod
<1> QED
  BY <1>1, <1>2, <1>6, <1>7, <1>8

LEMMA ModPlus ==
    ASSUME NEW q \in Nat, q > 0, NEW a \in Int, NEW k \in Int
    PROVE  ((a % q) + k) % q = (a + k) % q
<1>1. PICK c \in Int, b \in 0 .. q - 1 : a = c * q + b /\ a % q = b
  BY Divides
<1>2. PICK d \in Int, e \in 0 .. q - 1 : b + k = d * q + e /\ (b + k) % q = e
  BY Divides
<1>3. a + k = (c + d) * q + e
  BY <1>1, <1>2
<1>4. ((c + d) * q + e) % q = e
  BY DivMod
<1> QED
  BY <1>1, <1>2, <1>3, <1>4

LEMMA Constants ==
    /\ Capacity \in Nat /\ Capacity > 0
    /\ Lap \in Nat /\ Lap > 0 /\ Lap >= 2 * Capacity /\ Lap % 2 = 0
    /\ Laps \in Nat /\ Laps > 0 /\ Word \in Nat /\ Word = Laps * Lap
    /\ Turn \in Nat /\ Start = Turn * Lap
    /\ Cycle \in Nat /\ Cycle > 0
    /\ MaxItems \in Nat /\ MaxItems > 0 /\ MaxItems + Capacity <= Cycle
<1>1. Capacity \in Nat /\ Capacity > 0 /\ Lap \in Nat /\ Lap > 0 /\ Lap >= 2 * Capacity
      /\ MaxItems \in Nat /\ MaxItems > 0 /\ Lap % 2 = 0
  BY RingAssumption
<1>2. Word \in Nat /\ Word > 0 /\ Word % Lap = 0 /\ Start \in Nat /\ Start % Lap = 0
  BY RingAssumption
<1>3. Laps \in Int /\ Word = Laps * Lap
  BY <1>1, <1>2, Divides DEF Laps
<1>4. Laps \in Nat /\ Laps > 0
  <2> SUFFICES ASSUME Laps <= 0 PROVE FALSE
    BY <1>3
  <2>1. Laps * Lap <= 0
    BY <1>1, <1>3
  <2> QED
    BY <1>2, <1>3, <2>1
<1>5. Turn \in Int /\ Start = Turn * Lap
  BY <1>1, <1>2, Divides DEF Turn
<1>6. Turn \in Nat
  <2> SUFFICES ASSUME Turn < 0 PROVE FALSE
    BY <1>5
  <2>1. Turn * Lap < 0
    BY <1>1, <1>5
  <2> QED
    BY <1>2, <1>5, <2>1
<1>7. Cycle \in Nat /\ Cycle > 0
  BY <1>1, <1>4 DEF Cycle
<1>8. MaxItems + Capacity <= Cycle
  BY RingAssumption DEF Cycle, Laps
<1> QED
  BY <1>1, <1>2, <1>3, <1>4, <1>5, <1>6, <1>7, <1>8

LEMMA Sizes ==
    /\ Capacity \in Nat /\ Capacity > 0 /\ Lap \in Nat /\ Lap > 0 /\ Laps \in Nat /\ Laps > 0
    /\ Turn \in Nat /\ Cycle \in Nat /\ Cycle > 0 /\ MaxItems \in Nat /\ MaxItems > 0 /\ MaxItems + Capacity <= Cycle
  BY Constants

-----------------------------------------------------------------------------
(* Positions                                                               *)

\* The position with ordinal o.
Place(o) == Wrap((o \div Capacity) * Lap + 2 * (o % Capacity))

LEMMA Split ==
    ASSUME NEW n \in Int
    PROVE  \E q \in Int, i \in Slots : n = q * Capacity + i
<1>1. n = (n \div Capacity) * Capacity + (n % Capacity) /\ n % Capacity \in Slots /\ n \div Capacity \in Int
  BY Constants, Divides DEF Slots
<1> QED
  BY <1>1

LEMMA PlaceForm ==
    ASSUME NEW a \in Int, NEW i \in Slots
    PROVE  Place(a * Capacity + i) = (a % Laps) * Lap + 2 * i
<1>1. (a * Capacity + i) \div Capacity = a /\ (a * Capacity + i) % Capacity = i
  BY Constants, DivMod DEF Slots
<1>2. 2 * i \in 0 .. Lap - 1
  BY Constants DEF Slots
<1>3. (a * Lap + 2 * i) % (Laps * Lap) = (a % Laps) * Lap + 2 * i
  BY <1>2, Constants, ModLaps
<1> QED
  BY <1>1, <1>3, Constants DEF Place, Wrap

LEMMA PosForm ==
    ASSUME NEW q \in Int, NEW i \in Slots
    PROVE  /\ Ix(q * Capacity + i) = i
           /\ Pos(q * Capacity + i) = ((Turn + q) % Laps) * Lap + 2 * i
           /\ Pos(q * Capacity + i) = Place(Turn * Capacity + (q * Capacity + i))
<1>1. (q * Capacity + i) \div Capacity = q /\ (q * Capacity + i) % Capacity = i
  BY Constants, DivMod DEF Slots
<1>2. 2 * i \in 0 .. Lap - 1 /\ Turn + q \in Int /\ i \in Int
  BY Constants DEF Slots
<1>3. ((Turn + q) * Lap + 2 * i) % (Laps * Lap) = ((Turn + q) % Laps) * Lap + 2 * i
  BY <1>2, Constants, ModLaps
<1>4. Start + q * Lap + 2 * i = (Turn + q) * Lap + 2 * i
  BY <1>2, Constants
<1>5. Pos(q * Capacity + i) = ((Turn + q) % Laps) * Lap + 2 * i
  BY <1>1, <1>3, <1>4, Constants DEF Pos, Wrap
<1>6. Turn * Capacity + (q * Capacity + i) = (Turn + q) * Capacity + i
  BY <1>2, Constants
<1> QED
  BY <1>1, <1>2, <1>5, <1>6, PlaceForm DEF Ix

\* A position is an even number of the word, so that a stamp one above it is
\* the stamp of no position.
LEMMA PosEven ==
    ASSUME NEW n \in Int
    PROVE  /\ Pos(n) \in Nat /\ Pos(n) % 2 = 0
           /\ Pos(n) + 1 < Word /\ Wrap(Pos(n) + 1) = Pos(n) + 1
<1>1. PICK q \in Int, i \in Slots : n = q * Capacity + i
  BY Split
<1>2. PICK b \in 0 .. Laps - 1 : b = (Turn + q) % Laps
  BY Constants, Divides
<1>3. Pos(n) = b * Lap + 2 * i
  BY <1>1, <1>2, PosForm
<1>4. 2 * i + 1 \in 0 .. Lap - 1 /\ i \in Nat
  BY Constants DEF Slots
<1>5. b * Lap + (2 * i + 1) \in 0 .. Laps * Lap - 1
  BY <1>4, Constants, Fits
<1>6. PICK h \in Int : Lap = 2 * h
  BY Constants
<1>7. b * Lap \in Nat /\ b * Lap = 2 * (b * h) /\ b * h \in Int
  BY <1>6, Constants
<1>8. Pos(n) \in Nat /\ Pos(n) % 2 = 0
  BY <1>3, <1>4, <1>7
<1>9. Pos(n) + 1 \in 0 .. Word - 1
  BY <1>3, <1>4, <1>5, <1>7, Constants
<1>10. Word > 0
  BY <1>8, <1>9, Constants
<1>11. Wrap(Pos(n) + 1) = Pos(n) + 1
  <2>1. PICK p \in Int : p = Pos(n) + 1
    BY <1>8
  <2>2. p % Word = p
    BY <1>9, <1>10, <2>1, Constants
  <2> QED
    BY <2>1, <2>2 DEF Wrap
<1> QED
  BY <1>8, <1>9, <1>11, Constants

LEMMA PosOdd ==
    ASSUME NEW n \in Int, NEW m \in Int
    PROVE  Pos(n) + 1 # Pos(m)
  BY PosEven

\* The slot of a position.
LEMMA PosIndex ==
    ASSUME NEW n \in Int
    PROVE  Index(Pos(n)) = Ix(n) /\ Ix(n) \in Slots /\ Ix(n) \in Nat
<1>1. PICK q \in Int, i \in Slots : n = q * Capacity + i
  BY Split
<1>2. PICK b \in 0 .. Laps - 1 : b = (Turn + q) % Laps
  BY Constants, Divides
<1>3. Pos(n) = b * Lap + 2 * i /\ Ix(n) = i
  BY <1>1, <1>2, PosForm
<1>4. 2 * i \in 0 .. Lap - 1 /\ i \in Nat
  BY Constants DEF Slots
<1>5. (b * Lap + 2 * i) % Lap = 2 * i
  BY <1>4, Constants, DivMod
<1> QED
  BY <1>3, <1>4, <1>5 DEF Index

LEMMA PosNext ==
    ASSUME NEW n \in Int
    PROVE  NextPosition(Pos(n)) = Pos(n + 1)
<1>1. PICK q \in Int, i \in Slots : n = q * Capacity + i
  BY Split
<1>2. PICK b \in 0 .. Laps - 1 : b = (Turn + q) % Laps
  BY Constants, Divides
<1>3. Pos(n) = b * Lap + 2 * i /\ Ix(n) = i /\ Index(Pos(n)) = i
  BY <1>1, <1>2, PosForm, PosIndex
<1>4. 2 * i \in 0 .. Lap - 1 /\ i \in Nat /\ b \in Nat /\ b * Lap \in Nat
  BY Constants DEF Slots
<1>5. (b * Lap + 2 * i) % Lap = 2 * i
  BY <1>4, Constants, DivMod
<1>6. CASE i + 1 = Capacity
  <2>1. NextPosition(Pos(n)) = Wrap(b * Lap + Lap)
    BY <1>3, <1>4, <1>5, <1>6 DEF NextPosition
  <2>2. n + 1 = (q + 1) * Capacity + 0 /\ 0 \in Slots
    BY <1>1, <1>4, <1>6, Constants DEF Slots
  <2>3. Pos(n + 1) = ((Turn + (q + 1)) % Laps) * Lap + 2 * 0
    BY <2>2, PosForm
  <2>4. ((b + 1) * Lap + 0) % (Laps * Lap) = ((b + 1) % Laps) * Lap + 0
    <3>1. b + 1 \in Int /\ 0 \in 0 .. Lap - 1
      BY <1>4, Constants
    <3> QED
      BY <3>1, Constants, ModLaps
  <2>5. (b + 1) % Laps = (Turn + (q + 1)) % Laps
    <3>1. (((Turn + q) % Laps) + 1) % Laps = ((Turn + q) + 1) % Laps
      <4>1. Turn + q \in Int /\ 1 \in Int
        BY Sizes
      <4> QED
        BY <4>1, Sizes, ModPlus
    <3> QED
      BY <3>1, <1>2, Constants
  <2>6. b * Lap + Lap = (b + 1) * Lap + 0
    BY <1>4, Constants
  <2>7. Pos(n + 1) \in Nat /\ ((Turn + (q + 1)) % Laps) * Lap \in Int
    BY <2>3, PosEven, Constants, Divides
  <2> QED
    BY <2>1, <2>3, <2>4, <2>5, <2>6, <2>7, Constants DEF Wrap
<1>7. CASE i + 1 # Capacity
  <2>1. NextPosition(Pos(n)) = Wrap(b * Lap + 2 * i + 2)
    BY <1>3, <1>7 DEF NextPosition
  <2>2. n + 1 = q * Capacity + (i + 1) /\ i + 1 \in Slots
    BY <1>1, <1>4, <1>7, Constants DEF Slots
  <2>3. Pos(n + 1) = b * Lap + 2 * (i + 1)
    BY <1>2, <2>2, PosForm
  <2>4. b * Lap + 2 * (i + 1) = b * Lap + 2 * i + 2
    BY <1>4
  <2>5. Pos(n + 1) \in Nat /\ Pos(n + 1) + 1 < Word /\ Word \in Nat
    BY PosEven, Constants
  <2>6. Pos(n + 1) % Word = Pos(n + 1)
    BY <2>5
  <2> QED
    BY <2>1, <2>3, <2>4, <2>6 DEF Wrap
<1> QED
  BY <1>6, <1>7

LEMMA PosLap ==
    ASSUME NEW n \in Int
    PROVE  /\ Wrap(Pos(n) + Lap) = Pos(n + Capacity)
           /\ Wrap(Pos(n) - Lap) = Pos(n - Capacity)
<1>1. PICK q \in Int, i \in Slots : n = q * Capacity + i
  BY Split
<1>2. PICK b \in 0 .. Laps - 1 : b = (Turn + q) % Laps
  BY Constants, Divides
<1>3. Pos(n) = b * Lap + 2 * i
  BY <1>1, <1>2, PosForm
<1>4. 2 * i \in 0 .. Lap - 1 /\ i \in Nat /\ b \in Nat /\ b * Lap \in Nat
  BY Constants DEF Slots
<1>5. ASSUME NEW k \in Int
      PROVE  Wrap(b * Lap + 2 * i + k * Lap) = Pos((q + k) * Capacity + i)
  <2>1. b * Lap + 2 * i + k * Lap = (b + k) * Lap + 2 * i
    BY <1>4, Constants
  <2>2. ((b + k) * Lap + 2 * i) % (Laps * Lap) = ((b + k) % Laps) * Lap + 2 * i
    <3>1. b + k \in Int
      BY <1>4
    <3> QED
      BY <3>1, <1>4, Sizes, ModLaps
  <2>3. (((Turn + q) % Laps) + k) % Laps = ((Turn + q) + k) % Laps
    <3>1. Turn + q \in Int
      BY Sizes
    <3> QED
      BY <3>1, Sizes, ModPlus
  <2>4. (b + k) % Laps = (Turn + (q + k)) % Laps
    BY <2>3, <1>2, Constants
  <2>5. Pos((q + k) * Capacity + i) = ((Turn + (q + k)) % Laps) * Lap + 2 * i
    BY PosForm
  <2> QED
    BY <2>1, <2>2, <2>4, <2>5, Constants DEF Wrap
<1>6. Wrap(b * Lap + 2 * i + 1 * Lap) = Pos((q + 1) * Capacity + i)
  BY <1>5
<1>7. Wrap(b * Lap + 2 * i + (0 - 1) * Lap) = Pos((q + (0 - 1)) * Capacity + i)
  BY <1>5
<1>8. (q + 1) * Capacity + i = n + Capacity /\ (q + (0 - 1)) * Capacity + i = n - Capacity
  BY <1>1, <1>4, Constants
<1>9. /\ b * Lap + 2 * i + 1 * Lap = Pos(n) + Lap
      /\ b * Lap + 2 * i + (0 - 1) * Lap = Pos(n) - Lap
  BY <1>3, <1>4, Constants
<1> QED
  BY <1>6, <1>7, <1>8, <1>9

\* The ordinal of a position.
LEMMA PosOrdinal ==
    ASSUME NEW n \in Int
    PROVE  Ordinal(Pos(n)) = (Turn * Capacity + n) % Cycle /\ Pos(n) = Place(Turn * Capacity + n)
<1>1. PICK q \in Int, i \in Slots : n = q * Capacity + i
  BY Split
<1>2. PICK b \in 0 .. Laps - 1 : b = (Turn + q) % Laps
  BY Constants, Divides
<1>3. Pos(n) = b * Lap + 2 * i /\ Pos(n) = Place(Turn * Capacity + n) /\ Index(Pos(n)) = i
  BY <1>1, <1>2, PosForm, PosIndex
<1>4. 2 * i \in 0 .. Lap - 1 /\ i \in 0 .. Capacity - 1
  BY Constants DEF Slots
<1>5. (b * Lap + 2 * i) \div Lap = b
  BY <1>4, Constants, DivMod
<1>6. ((Turn + q) * Capacity + i) % (Laps * Capacity) = b * Capacity + i
  <2>1. Turn + q \in Int
    BY Sizes
  <2> QED
    BY <2>1, <1>2, <1>4, Sizes, ModLaps
<1>7. (Turn + q) * Capacity + i = Turn * Capacity + n
  BY <1>1, <1>4, Constants
<1> QED
  BY <1>3, <1>5, <1>6, <1>7 DEF Ordinal, Cycle

\* Positions are told apart as long as they do not come round.
LEMMA PosDiffer ==
    ASSUME NEW n \in Int, NEW m \in Int, Pos(n) = Pos(m), n - m < Cycle, m - n < Cycle
    PROVE  n = m
<1>1. PICK k \in Int : k = Turn * Capacity
  BY Constants
<1>2. (k + n) % Cycle = (k + m) % Cycle
  BY <1>1, PosOrdinal
<1>3. PICK c \in Int, d \in Int : k + n = c * Cycle + ((k + n) % Cycle) /\ k + m = d * Cycle + ((k + m) % Cycle)
  <2>1. k + n \in Int /\ k + m \in Int
    OBVIOUS
  <2>2. (k + n) \div Cycle \in Int /\ k + n = ((k + n) \div Cycle) * Cycle + ((k + n) % Cycle)
    BY <2>1, Sizes, Divides
  <2>3. (k + m) \div Cycle \in Int /\ k + m = ((k + m) \div Cycle) * Cycle + ((k + m) % Cycle)
    BY <2>1, Sizes, Divides
  <2> QED
    BY <2>2, <2>3
<1>4. PICK e \in Int : e = (k + n) % Cycle
  BY Constants
<1>5. n - m = (c - d) * Cycle
  BY <1>2, <1>3, <1>4, Constants
<1>6. c - d = 0
  <2> SUFFICES ASSUME c - d # 0 PROVE FALSE
    OBVIOUS
  <2>1. PICK f \in Int : f = c - d
    OBVIOUS
  <2>2. CASE f >= 1
    <3>1. f * Cycle >= Cycle
      BY <2>2, Constants
    <3> QED
      BY <3>1, <1>5, <2>1, Constants
  <2>3. CASE f <= 0 - 1
    <3>1. (0 - f) * Cycle >= Cycle
      BY <2>3, Constants
    <3>2. (0 - f) * Cycle = m - n
      BY <1>5, <2>1, Constants
    <3> QED
      BY <3>1, <3>2, Constants
  <2> QED
    BY <2>1, <2>2, <2>3
<1> QED
  BY <1>5, <1>6, Constants

LEMMA PosDistance ==
    ASSUME NEW r \in Int, NEW w \in Int, r <= w, w - r < Cycle
    PROVE  Distance(Pos(r), Pos(w)) = w - r
<1>1. PICK k \in Int : k = Turn * Capacity
  BY Constants
<1>2. PICK a \in Int, b \in Int : a = (k + w) % Cycle /\ b = (k + r) % Cycle
  BY Constants
<1>3. PICK c \in Int, d \in Int : k + w = c * Cycle + a /\ k + r = d * Cycle + b
  <2>1. k + w \in Int /\ k + r \in Int
    OBVIOUS
  <2>2. (k + w) \div Cycle \in Int /\ k + w = ((k + w) \div Cycle) * Cycle + a
    BY <1>2, <2>1, Sizes, Divides
  <2>3. (k + r) \div Cycle \in Int /\ k + r = ((k + r) \div Cycle) * Cycle + b
    BY <1>2, <2>1, Sizes, Divides
  <2> QED
    BY <2>2, <2>3
<1>4. a - b = (d - c) * Cycle + (w - r)
  BY <1>3, Constants
<1>5. ((d - c) * Cycle + (w - r)) % Cycle = w - r
  BY Constants, DivMod
<1> QED
  BY <1>1, <1>2, <1>4, <1>5, PosOrdinal DEF Distance, Cycle, Laps

LEMMA PosLater ==
    ASSUME NEW r \in Int, NEW n \in Int
    PROVE  Later(Pos(r), n) = Pos(r + n)
<1>1. PICK k \in Int : k = Turn * Capacity
  BY Constants
<1>2. PICK b \in Int : b = (k + r) % Cycle
  BY Constants
<1>3. PICK c \in Int : k + r = c * Cycle + b
  <2>1. k + r \in Int
    OBVIOUS
  <2>2. (k + r) \div Cycle \in Int /\ k + r = ((k + r) \div Cycle) * Cycle + b
    BY <1>2, <2>1, Sizes, Divides
  <2> QED
    BY <2>2
<1>4. PICK a \in Int, i \in Slots : b + n = a * Capacity + i
  BY Split
<1>5. k + (r + n) = (c * Laps + a) * Capacity + i /\ i \in Int
  BY <1>3, <1>4, Constants DEF Cycle, Slots
<1>6. Place(b + n) = (a % Laps) * Lap + 2 * i
  BY <1>4, PlaceForm
<1>7. Place(k + (r + n)) = ((c * Laps + a) % Laps) * Lap + 2 * i
  BY <1>5, PlaceForm, Constants
<1>8. (c * Laps + a) % Laps = a % Laps
  <2>1. PICK d \in Int, e \in 0 .. Laps - 1 : a = d * Laps + e /\ a % Laps = e
    BY Constants, Divides
  <2>2. c * Laps + a = (c + d) * Laps + e
    BY <2>1, Constants
  <2>3. ((c + d) * Laps + e) % Laps = e
    BY Constants, DivMod
  <2> QED
    BY <2>1, <2>2, <2>3
<1>9. Later(Pos(r), n) = Place(b + n)
  BY <1>1, <1>2, PosOrdinal DEF Later, Place
<1>10. Pos(r + n) = Place(k + (r + n))
  BY <1>1, PosOrdinal
<1> QED
  BY <1>6, <1>7, <1>8, <1>9, <1>10

\* Positions a lap apart share a slot, positions less than a lap apart do not.
LEMMA IxShift ==
    ASSUME NEW n \in Int, NEW d \in 0 .. Capacity
    PROVE  Ix(n + d) = IF Ix(n) + d < Capacity THEN Ix(n) + d ELSE Ix(n) + d - Capacity
<1>1. PICK q \in Int, i \in Slots : n = q * Capacity + i
  BY Split
<1>2. Ix(n) = i /\ i \in Int /\ 0 <= i /\ i < Capacity
  BY <1>1, PosForm, Sizes DEF Slots
<1>3. CASE i + d < Capacity
  <2>1. n + d = q * Capacity + (i + d) /\ i + d \in Slots
    BY <1>1, <1>2, <1>3, Sizes DEF Slots
  <2> QED
    BY <2>1, <1>2, <1>3, PosForm
<1>4. CASE i + d >= Capacity
  <2>1. n + d = (q + 1) * Capacity + (i + d - Capacity) /\ i + d - Capacity \in Slots /\ q + 1 \in Int
    BY <1>1, <1>2, <1>4, Sizes DEF Slots
  <2>2. Ix((q + 1) * Capacity + (i + d - Capacity)) = i + d - Capacity
    BY <2>1, PosForm
  <2> QED
    BY <2>1, <2>2, <1>2, <1>4, Sizes
<1> QED
  BY <1>2, <1>3, <1>4, Sizes

LEMMA IxLap ==
    ASSUME NEW n \in Int
    PROVE  Ix(n + Capacity) = Ix(n) /\ Ix(n - Capacity) = Ix(n)
<1>1. Ix(n) \in Nat /\ Ix(n - Capacity) \in Nat /\ n - Capacity \in Int /\ Capacity \in 0 .. Capacity
  BY PosIndex, Sizes
<1>2. ASSUME NEW m \in Int PROVE Ix(m + Capacity) = Ix(m)
  BY <1>1, IxShift, PosIndex, Sizes
<1>3. Ix((n - Capacity) + Capacity) = Ix(n - Capacity) /\ (n - Capacity) + Capacity = n
  BY <1>1, <1>2, Sizes
<1> QED
  BY <1>2, <1>3

LEMMA IxDiffer ==
    ASSUME NEW n \in Int, NEW m \in Int, Ix(n) = Ix(m), n - m < Capacity, m - n < Capacity
    PROVE  n = m
<1>1. ASSUME NEW x \in Int, NEW d \in 1 .. Capacity - 1
      PROVE  Ix(x + d) # Ix(x)
  <2>1. d \in 0 .. Capacity
    BY Sizes
  <2>2. PICK i \in Nat : i = Ix(x) /\ i < Capacity
    BY PosIndex, Sizes DEF Slots
  <2>3. Ix(x + d) = IF i + d < Capacity THEN i + d ELSE i + d - Capacity
    BY <2>1, <2>2, IxShift
  <2> QED
    BY <2>2, <2>3, Sizes
<1>2. CASE n < m
  <2>1. m - n \in 1 .. Capacity - 1 /\ n + (m - n) = m
    BY <1>2, Sizes
  <2> QED
    BY <1>1, <2>1
<1>3. CASE m < n
  <2>1. n - m \in 1 .. Capacity - 1 /\ m + (n - m) = n
    BY <1>3, Sizes
  <2> QED
    BY <1>1, <2>1
<1> QED
  BY <1>2, <1>3

\* What len computes from the two cursors.
LEMMA CountIs ==
    ASSUME NEW r \in Int, NEW d \in 0 .. Capacity, d < Cycle
    PROVE  Count(Pos(r), Pos(r + d)) = d
<1>1. Index(Pos(r)) = Ix(r) /\ Index(Pos(r + d)) = Ix(r + d) /\ Ix(r) \in Nat /\ Ix(r) < Capacity
  BY PosIndex, Sizes DEF Slots
<1>2. Ix(r + d) = IF Ix(r) + d < Capacity THEN Ix(r) + d ELSE Ix(r) + d - Capacity
  BY IxShift
<1>3. CASE d = 0
  BY <1>3 DEF Count
<1>4. CASE d # 0
  <2>1. Pos(r) # Pos(r + d)
    BY <1>4, PosDiffer, Sizes
  <2>2. PICK i \in Nat : i = Ix(r)
    BY <1>1
  <2> QED
    BY <2>1, <2>2, <1>1, <1>2, <1>4, Sizes DEF Count
<1> QED
  BY <1>3, <1>4

\* The positions that are used are told apart.
LEMMA NthPos ==
    ASSUME NEW n \in 0 .. MaxItems
    PROVE  Nth(Pos(n)) = n
<1>1. \A m \in 0 .. MaxItems : Pos(m) = Pos(n) => m = n
  BY PosDiffer, Sizes
<1>2. \E m \in 0 .. MaxItems : Pos(m) = Pos(n)
  OBVIOUS
<1>3. Nth(Pos(n)) \in 0 .. MaxItems /\ Pos(Nth(Pos(n))) = Pos(n)
  BY <1>2 DEF Nth
<1> QED
  BY <1>1, <1>3

\* The first lap.
LEMMA PosFirst ==
    ASSUME NEW i \in Slots
    PROVE  Pos(i) = Start + 2 * i /\ Ix(i) = i
<1>1. i = 0 * Capacity + i /\ i \in Nat /\ i < Capacity
  BY Sizes DEF Slots
<1>2. i \div Capacity = 0 /\ i % Capacity = i
  <2>1. (0 * Capacity + i) \div Capacity = 0 /\ (0 * Capacity + i) % Capacity = i
    BY <1>1, Sizes, DivMod
  <2> QED
    BY <1>1, <2>1
<1>3. Turn \in 0 .. Laps - 1
  <2> SUFFICES ASSUME Turn >= Laps PROVE FALSE
    BY Sizes
  <2>1. Turn * Lap >= Laps * Lap
    BY Sizes
  <2>2. Start < Word
    BY RingAssumption
  <2> QED
    BY <2>1, <2>2, Constants
<1>4. Turn * Lap + 2 * i \in 0 .. Laps * Lap - 1
  <2>1. 2 * i \in 0 .. Lap - 1
    BY <1>1, Constants
  <2> QED
    BY <1>3, <2>1, Sizes, Fits
<1>5. PICK p \in Int : p = Start + 2 * i /\ p \in 0 .. Word - 1
  BY <1>1, <1>4, Constants
<1>6. Word \in Nat /\ Word > 0 /\ Start \in Int /\ Lap \in Int
  BY <1>5, Constants
<1>7. p % Word = p
  BY <1>5, <1>6
<1>8. Start + (i \div Capacity) * Lap + 2 * (i % Capacity) = p
  BY <1>1, <1>2, <1>5, <1>6
<1> QED
  BY <1>2, <1>5, <1>7, <1>8 DEF Pos, Wrap, Ix

-----------------------------------------------------------------------------
(* The inductive invariant                                                 *)

\* What the positions of a lap have to do with each other.
LEMMA Window ==
    ASSUME IInv
    PROVE  /\ R \in 0 .. MaxItems /\ W \in 0 .. MaxItems /\ R \in Int /\ W \in Int
           /\ R <= W /\ W <= R + Capacity
           /\ Capacity \in Nat /\ Capacity > 0 /\ MaxItems \in Nat /\ Capacity < Cycle
           /\ Cycle \in Nat /\ MaxItems + Capacity <= Cycle
  BY Sizes DEF IInv, Cursors

LEMMA Places ==
    ASSUME IInv, NEW t \in Threads, pc[t] \in Placed
    PROVE  /\ At(t) \in 0 .. MaxItems /\ At(t) \in Int /\ position[t] = Pos(At(t))
           /\ Slot(t) = Ix(At(t)) /\ Ix(At(t)) \in Slots
<1>1. At(t) \in 0 .. MaxItems /\ position[t] = Pos(At(t)) /\ MaxItems \in Nat
  BY Sizes DEF IInv, Cursors, IsPlaced
<1> QED
  BY <1>1, PosIndex DEF Slot

\* A step outside the slots: t neither was nor becomes the owner of a position.
LEMMA Quiet ==
    ASSUME IInv, NEW t \in Threads, NEW l \in Labels,
           pc' = [pc EXCEPT ![t] = l], pc[t] \notin Busy, l \notin Busy,
           stamp' = stamp, value' = value, read' = read, write' = write,
           \A u \in Threads \ {t} : position'[u] = position[u],
           IsPlaced(t)', Stands(t)'
    PROVE  Cursors' /\ Where' /\ Alone' /\ Stamps' /\ Contents'
<1>1. R' = R /\ W' = W
  BY DEF R, W
<1>2. pc \in [Threads -> Labels]
  BY DEF IInv, Types
<1>3. \A u \in Threads : u # t => pc'[u] = pc[u] /\ At(u)' = At(u)
  BY <1>2 DEF At
<1>4. pc'[t] = l
  BY <1>2
<1>5. ASSUME NEW n PROVE (NoWriter(n)' <=> NoWriter(n)) /\ (NoTaker(n)' <=> NoTaker(n))
  BY <1>3, <1>4 DEF NoWriter, NoTaker, Busy
<1>6. NoAdvancer' <=> NoAdvancer
  BY <1>3, <1>4 DEF NoAdvancer, Busy
<1>7. ASSUME NEW n PROVE Given(n)' <=> Given(n)
  BY <1>1, <1>5 DEF Given
<1>8. Cursors'
  <2>1. ASSUME NEW u \in Threads, u # t PROVE IsPlaced(u)'
    BY <2>1, <1>3 DEF IInv, Cursors, IsPlaced
  <2> QED
    BY <2>1, <1>1 DEF IInv, Cursors
<1>9. Where'
  <2>1. ASSUME NEW u \in Threads, u # t PROVE Stands(u)'
    BY <2>1, <1>1, <1>3, <1>5, <1>6, <1>7 DEF IInv, Where, Stands
  <2> QED
    BY <2>1 DEF Where
<1>10. Alone'
  BY <1>3, <1>4 DEF IInv, Alone, Busy
<1>11. Stamps'
  BY <1>1, <1>5, <1>6, <1>7 DEF IInv, Stamps
<1>12. Contents'
  <2>1. ASSUME NEW u \in Threads
        PROVE  /\ pc'[u] \in {"push_write", "pop_release"} => value'[Ix(At(u)')] = NoItem
               /\ pc'[u] \in {"push_publish", "push_replace", "pop_take"} => value'[Ix(At(u)')] # NoItem
    BY <1>3, <1>4 DEF IInv, Contents, Busy, Writing, Taking
  <2> QED
    BY <2>1, <1>1, <1>5, <1>6, <1>7 DEF IInv, Contents
<1> QED
  BY <1>8, <1>9, <1>10, <1>11, <1>12

LEMMA TypesStep ==
    ASSUME IInv, Next
    PROVE  Types'
<1>0. Types /\ Capacity \in Nat
  BY Sizes DEF IInv
<1>1. sizes' = [t \in Threads |-> sizes'[t]]
  BY DEF Next, Invoke, Step, Observe
<1>2. ASSUME NEW t \in Threads, NEW o \in {"push", "push_overwrite"}, CallPush(t, o)
      PROVE  Types'
  BY <1>0, <1>1, <1>2, Sizes DEF CallPush, Goto, Types, ring, Labels, PushLabels, Items
<1>3. ASSUME NEW t \in Threads, NEW o \in {"pop", "len"}, NEW l \in {"pop_load", "len_read"}, Call(t, o, l)
      PROVE  Types'
  BY <1>0, <1>1, <1>3 DEF Call, Goto, Types, ring, Labels, PopLabels, LenLabels
<1>4. ASSUME NEW t \in Threads, Step(t)
      PROVE  Types'
  <2>1. CASE PushLoad(t) \/ PushStamp(t) \/ PushClaim(t) \/ PushClaimFails(t) \/ PushPublish(t)
             \/ PushFull(t) \/ PushEvict(t) \/ PushAdvance(t)
    <3>1. /\ DOMAIN stamp' = Slots /\ value' = value /\ op' = op /\ DOMAIN position' = Threads
          /\ snapshot' = snapshot /\ item' = item /\ made' = made
      BY <2>1, <1>0 DEF Types, ring, PushLoad, PushStamp, PushClaim, PushClaimFails, PushPublish, PushFull,
         PushEvict, PushAdvance
    <3>2. pc' \in [Threads -> Labels]
      BY <2>1, <1>0 DEF Types, Goto, Labels, PushLabels, PushLoad, PushStamp, PushClaim, PushClaimFails,
         PushPublish, PushFull, PushEvict, PushAdvance
    <3> QED
      BY <3>1, <3>2, <1>0, <1>1 DEF Types
  <2>2. CASE PopLoad(t) \/ PopStamp(t) \/ PopClaim(t) \/ PopClaimFails(t) \/ PopRelease(t) \/ PopEmpty(t)
    <3>1. /\ DOMAIN stamp' = Slots /\ value' = value /\ op' = op /\ DOMAIN position' = Threads
          /\ snapshot' = snapshot /\ item' = item /\ made' = made
      BY <2>2, <1>0 DEF Types, ring, PopLoad, PopStamp, PopClaim, PopClaimFails, PopRelease, PopEmpty
    <3>2. pc' \in [Threads -> Labels]
      BY <2>2, <1>0 DEF Types, Goto, Labels, PopLabels, PopLoad, PopStamp, PopClaim, PopClaimFails,
         PopRelease, PopEmpty
    <3> QED
      BY <3>1, <3>2, <1>0, <1>1 DEF Types
  <2>3. CASE PushWrite(t)
    BY <2>3, <1>0, <1>1 DEF PushWrite, Goto, Types, Labels, PushLabels
  <2>4. CASE PushReplace(t)
    <3>1. Slot(t) \in Slots
      BY <2>4, Places DEF PushReplace, Placed, Writing
    <3> QED
      BY <3>1, <2>4, <1>0, <1>1 DEF PushReplace, Goto, Types, Labels, PushLabels
  <2>5. CASE PopTake(t)
    <3>1. Slot(t) \in Slots
      BY <2>5, Places DEF PopTake, Placed, Taking
    <3> QED
      BY <3>1, <2>5, <1>0, <1>1 DEF PopTake, Goto, Types, Labels, PopLabels
  <2>6. CASE LenRead(t) \/ LenWrite(t) \/ LenCheck(t)
    <3>1. /\ stamp' = stamp /\ value' = value /\ op' = op /\ DOMAIN position' = Threads
          /\ DOMAIN snapshot' = Threads /\ item' = item /\ made' = made
      BY <2>6, <1>0 DEF Types, ring, LenRead, LenWrite, LenCheck
    <3>2. pc' \in [Threads -> Labels]
      BY <2>6, <1>0 DEF Types, Goto, Labels, LenLabels, LenRead, LenWrite, LenCheck
    <3> QED
      BY <3>1, <3>2, <1>0, <1>1 DEF Types
  <2>7. CASE Return(t)
    BY <2>7, <1>0, <1>1 DEF Return, Goto, Types, Labels, ring
  <2> QED
    BY <2>1, <2>2, <2>3, <2>4, <2>5, <2>6, <2>7, <1>4 DEF Step
<1> QED
  BY <1>2, <1>3, <1>4 DEF Next, Invoke, Threads

LEMMA MethodsStep ==
    ASSUME IInv, Next
    PROVE  Methods'
<1>0. Types /\ Methods
  BY DEF IInv
<1>1. \E t \in Threads : Inside(t)' /\ \A u \in Threads : u # t => pc'[u] = pc[u] /\ op'[u] = op[u] /\ item'[u] = item[u]
  <2>1. ASSUME NEW t \in Producers, NEW o \in {"push", "push_overwrite"}, CallPush(t, o)
        PROVE  Inside(t)' /\ \A u \in Threads : u # t => pc'[u] = pc[u] /\ op'[u] = op[u] /\ item'[u] = item[u]
    <3>1. made + 1 \in Items /\ NoItem \notin Items /\ t \in Threads
      BY <2>1, <1>0, RingAssumption DEF CallPush, Types, Items, Threads
    <3> QED
      BY <3>1, <2>1, <1>0 DEF CallPush, Goto, Types, Methods, Inside, PushLabels, PopLabels, LenLabels
  <2>2. ASSUME NEW t \in Consumers, Call(t, "pop", "pop_load")
        PROVE  Inside(t)' /\ \A u \in Threads : u # t => pc'[u] = pc[u] /\ op'[u] = op[u] /\ item'[u] = item[u]
    BY <2>2, <1>0 DEF Call, Goto, Types, Methods, Inside, PushLabels, PopLabels, LenLabels, Threads
  <2>3. ASSUME NEW t \in Observers, Call(t, "len", "len_read")
        PROVE  Inside(t)' /\ \A u \in Threads : u # t => pc'[u] = pc[u] /\ op'[u] = op[u] /\ item'[u] = item[u]
    BY <2>3, <1>0 DEF Call, Goto, Types, Methods, Inside, PushLabels, PopLabels, LenLabels, Threads
  <2>4. ASSUME NEW t \in Threads, Step(t)
        PROVE  Inside(t)' /\ \A u \in Threads : u # t => pc'[u] = pc[u] /\ op'[u] = op[u] /\ item'[u] = item[u]
    <3>0. Inside(t)
      BY <1>0 DEF Methods
    <3>1. CASE PushLoad(t) \/ PushStamp(t) \/ PushClaim(t) \/ PushClaimFails(t) \/ PushFull(t) \/ PushEvict(t) \/ PushAdvance(t)
      BY <3>1, <3>0, <1>0 DEF Types, Goto, Inside, PushLoad, PushStamp, PushClaim, PushClaimFails, PushFull,
         PushEvict, PushAdvance, PushLabels, PopLabels, LenLabels
    <3>2. CASE PushWrite(t) \/ PushPublish(t) \/ PushReplace(t)
      BY <3>2, <3>0, <1>0 DEF Types, Goto, Inside, PushWrite, PushPublish, PushReplace, PushLabels, PopLabels, LenLabels
    <3>3. CASE PopLoad(t) \/ PopStamp(t) \/ PopClaim(t) \/ PopClaimFails(t) \/ PopTake(t) \/ PopRelease(t) \/ PopEmpty(t)
      BY <3>3, <3>0, <1>0 DEF Types, Goto, Inside, PopLoad, PopStamp, PopClaim, PopClaimFails, PopTake,
         PopRelease, PopEmpty, PushLabels, PopLabels, LenLabels
    <3>4. CASE LenRead(t) \/ LenWrite(t) \/ LenCheck(t) \/ Return(t)
      BY <3>4, <3>0, <1>0 DEF Types, Goto, Inside, LenRead, LenWrite, LenCheck, Return, PushLabels, PopLabels, LenLabels
    <3> QED
      BY <3>1, <3>2, <3>3, <3>4, <2>4 DEF Step
  <2> QED
    BY <2>1, <2>2, <2>3, <2>4 DEF Next, Invoke, Threads
<1> QED
  BY <1>0, <1>1 DEF Methods, Inside

\* The pushes that have yet to advance the write cursor.
LEMMA BudgetKept ==
    ASSUME IInv, W' = W, made' = made, Coming' \subseteq Coming
    PROVE  Budget'
<1>1. IsFiniteSet(Coming) /\ W + Cardinality(Coming) <= made /\ W \in Int /\ made \in Int
  BY Window DEF IInv, Budget, Types
<1>2. IsFiniteSet(Coming') /\ Cardinality(Coming') <= Cardinality(Coming)
  BY <1>1, FS_Subset
<1>3. Cardinality(Coming) \in Nat /\ Cardinality(Coming') \in Nat
  BY <1>1, <1>2, FS_CardinalityType
<1> QED
  BY <1>1, <1>2, <1>3 DEF Budget

LEMMA BudgetLeft ==
    ASSUME IInv, NEW t \in Coming
    PROVE  W + 1 <= MaxItems
<1>1. IsFiniteSet(Coming) /\ W + Cardinality(Coming) <= made /\ W \in Int /\ made \in Int /\ made <= MaxItems
  BY Window, Sizes DEF IInv, Budget, Types
<1>2. Cardinality(Coming) \in Nat /\ Cardinality(Coming) # 0
  BY <1>1, FS_CardinalityType, FS_EmptySet
<1> QED
  BY <1>1, <1>2, Sizes

LEMMA BudgetSpent ==
    ASSUME IInv, NEW t \in Coming, W' = W + 1, made' = made, Coming' = Coming \ {t}
    PROVE  Budget'
<1>1. IsFiniteSet(Coming) /\ W + Cardinality(Coming) <= made /\ W \in Int /\ made \in Int
  BY Window DEF IInv, Budget, Types
<1>2. IsFiniteSet(Coming \ {t}) /\ Cardinality(Coming \ {t}) = Cardinality(Coming) - 1
  BY <1>1, FS_RemoveElement
<1>3. Cardinality(Coming) \in Nat
  BY <1>1, FS_CardinalityType
<1> QED
  BY <1>1, <1>2, <1>3 DEF Budget

LEMMA BudgetGrows ==
    ASSUME IInv, NEW t, t \notin Coming, W' = W, made' = made + 1, Coming' = Coming \cup {t}
    PROVE  Budget'
<1>1. IsFiniteSet(Coming) /\ W + Cardinality(Coming) <= made /\ W \in Int /\ made \in Int
  BY Window DEF IInv, Budget, Types
<1>2. IsFiniteSet(Coming \cup {t}) /\ Cardinality(Coming \cup {t}) = Cardinality(Coming) + 1
  BY <1>1, FS_AddElement
<1>3. Cardinality(Coming) \in Nat
  BY <1>1, FS_CardinalityType
<1> QED
  BY <1>1, <1>2, <1>3 DEF Budget

LEMMA PlaceKept ==
    ASSUME IInv, NEW u \in Threads, position'[u] = position[u], pc'[u] \in Placed => pc[u] \in Placed
    PROVE  IsPlaced(u)'
  BY DEF IInv, Cursors, IsPlaced, At

\* The write cursor goes over a position whose slot has been given back: t is
\* the writer there.
LEMMA PushClaimStep ==
    ASSUME IInv, Next, NEW t \in Threads, PushClaim(t)
    PROVE  IInv'
<1>0. /\ R \in Int /\ W \in Int /\ R <= W /\ W <= R + Capacity /\ Capacity \in Nat /\ Capacity > 0
      /\ Types /\ Where /\ Alone /\ Stamps /\ Contents /\ Cursors
  BY Window DEF IInv
<1>1. At(t) = W /\ position[t] = Pos(W) /\ pc[t] = "push_claim"
  <2>1. pc[t] = "push_claim" /\ write = position[t]
    BY DEF PushClaim
  <2> QED
    BY <2>1, Places, <1>0 DEF W, At, Placed
<1>2. Given(W - Capacity) /\ NoAdvancer
  BY <1>0, <1>1 DEF Where, Stands
<1>3. W + 1 \in 0 .. MaxItems
  <2>1. t \in Coming
    BY <1>1 DEF Coming, Trying
  <2> QED
    BY <2>1, BudgetLeft, Window
<1>4. /\ stamp' = stamp /\ value' = value /\ read' = read /\ write' = Pos(W + 1) /\ made' = made
      /\ pc' = [pc EXCEPT ![t] = "push_write"] /\ position' = position
  BY <1>0, <1>1, PosNext DEF PushClaim, Goto
<1>5. R' = R /\ W' = W + 1
  BY <1>3, <1>4, NthPos DEF R, W
<1>6. pc'[t] = "push_write" /\ \A u \in Threads : (u # t => pc'[u] = pc[u]) /\ At(u)' = At(u)
  BY <1>0, <1>4 DEF At, Types
<1>7. ASSUME NEW n
      PROVE  /\ NoWriter(n)' <=> NoWriter(n) /\ n # W
             /\ NoTaker(n)' <=> NoTaker(n)
  BY <1>1, <1>6 DEF NoWriter, NoTaker, Writing, Taking
<1>8. NoAdvancer'
  BY <1>2, <1>6 DEF NoAdvancer
<1>9. ASSUME NEW n \in Int, n # W PROVE Given(n)' <=> Given(n)
  BY <1>5, <1>7, <1>9 DEF Given
<1>10. Cursors'
  <2>1. ASSUME NEW u \in Threads PROVE IsPlaced(u)'
    <3>1. pc'[u] \in Placed => pc[u] \in Placed
      BY <1>1, <1>6 DEF Placed
    <3> QED
      BY <3>1, <1>4, PlaceKept
  <2>2. W + 1 <= R + Capacity
    BY <1>0, <1>2 DEF Given
  <2> QED
    BY <2>1, <2>2, <1>0, <1>3, <1>4, <1>5 DEF Cursors
<1>11. Where'
  <2>1. ASSUME NEW u \in Threads, u # t PROVE Stands(u)'
    <3>1. Stands(u) /\ pc'[u] = pc[u] /\ At(u)' = At(u)
      BY <1>0, <1>6, <2>1 DEF Where
    <3>2. pc[u] \in Placed => At(u) \in Int
      BY Places
    <3>3. pc[u] \in Taking => At(u) # W - Capacity
      BY <1>2 DEF Given, NoTaker
    <3>4. pc[u] # "push_advance"
      BY <1>2 DEF NoAdvancer
    <3>5. /\ pc[u] \in {"push_full", "push_evict"} => NoWriter(At(u) - Capacity)'
          /\ pc[u] = "pop_claim" /\ At(u) = R => NoWriter(R)'
      BY <3>1, <3>2, <1>0, <1>5, <1>7 DEF Stands, Trying, Placed
    <3> QED
      BY <3>1, <3>2, <3>3, <3>4, <3>5, <1>0, <1>5, <1>8 DEF Stands, Trying, Placed, Writing, Taking
  <2>2. Stands(t)'
    BY <1>0, <1>1, <1>5, <1>6 DEF Stands, Trying, Writing, Taking
  <2> QED
    BY <2>1, <2>2 DEF Where
<1>12. Alone'
  <2>1. \A u \in Threads : pc[u] \in Writing => At(u) # W
    BY <1>0, Places DEF Where, Stands, Placed
  <2> QED
    BY <2>1, <1>0, <1>1, <1>6 DEF Alone, Writing, Taking
<1>13. Stamps'
  <2> SUFFICES ASSUME NEW n \in W' - Capacity .. W' - 1
               PROVE  /\ ~NoWriter(n)' => stamp'[Ix(n)] \in {Pos(n), Pos(n - Capacity) + 1}
                      /\ NoWriter(n)' /\ ~Given(n)' => stamp'[Ix(n)] = Pos(n) + 1
                      /\ Given(n)' => stamp'[Ix(n)] = Pos(n + Capacity)
    BY <1>8 DEF Stamps
  <2>1. CASE n = W
    <3>1. stamp[Ix(W - Capacity)] = Pos(W - Capacity + Capacity)
      BY <1>0, <1>2 DEF Stamps
    <3>2. stamp[Ix(W)] = Pos(W)
      BY <3>1, <1>0, IxLap
    <3>3. ~Given(n)' /\ ~NoWriter(n)'
      BY <1>0, <1>5, <1>7, <2>1 DEF Given
    <3> QED
      BY <3>2, <3>3, <2>1, <1>4
  <2>2. CASE n # W
    <3>1. n \in W - Capacity .. W - 1
      BY <2>2, <1>0, <1>5
    <3> QED
      BY <3>1, <2>2, <1>0, <1>2, <1>4, <1>7, <1>9 DEF Stamps
  <2> QED
    BY <2>1, <2>2
<1>14. Contents'
  <2>1. value[Ix(W)] = NoItem
    <3>1. value[Ix(W - Capacity)] = NoItem
      BY <1>0, <1>2 DEF Contents
    <3> QED
      BY <3>1, <1>0, IxLap
  <2>2. ASSUME NEW n \in W' - Capacity .. W' - 1
        PROVE  /\ NoWriter(n)' /\ n >= R' => value'[Ix(n)] # NoItem
               /\ Given(n)' => value'[Ix(n)] = NoItem
    <3>1. CASE n = W
      BY <3>1, <1>0, <1>5, <1>7 DEF Given
    <3>2. CASE n # W
      <4>1. n \in W - Capacity .. W - 1
        BY <3>2, <1>0, <1>5
      <4> QED
        BY <4>1, <3>2, <1>0, <1>2, <1>4, <1>5, <1>7, <1>9 DEF Contents
    <3> QED
      BY <3>1, <3>2
  <2>3. ASSUME NEW u \in Threads
        PROVE  /\ pc'[u] \in {"push_write", "pop_release"} => value'[Ix(At(u)')] = NoItem
               /\ pc'[u] \in {"push_publish", "push_replace", "pop_take"} => value'[Ix(At(u)')] # NoItem
    BY <2>1, <1>0, <1>1, <1>4, <1>6 DEF Contents
  <2> QED
    BY <2>2, <2>3, <1>8 DEF Contents
<1>15. Budget'
  <2>1. t \in Coming /\ Coming' = Coming \ {t}
    BY <1>1, <1>6 DEF Coming, Trying
  <2> QED
    BY <2>1, <1>4, <1>5, BudgetSpent
<1> QED
  BY <1>10, <1>11, <1>12, <1>13, <1>14, <1>15, TypesStep, MethodsStep DEF IInv

\* The owner of a position accesses the value of its slot.
LEMMA AccessStep ==
    ASSUME IInv, Next, NEW t \in Threads, NEW l \in Labels, NEW v,
           \/ pc[t] \in Writing /\ l = "push_publish" /\ v # NoItem
           \/ pc[t] \in Taking /\ l = "pop_release" /\ v = NoItem,
           pc' = [pc EXCEPT ![t] = l], position' = position, made' = made,
           stamp' = stamp, value' = [value EXCEPT ![Slot(t)] = v], read' = read, write' = write
    PROVE  IInv'
<1>0. /\ R \in Int /\ W \in Int /\ R <= W /\ W <= R + Capacity /\ Capacity \in Nat /\ Capacity > 0
      /\ Types /\ Where /\ Alone /\ Stamps /\ Contents /\ Cursors
  BY Window DEF IInv
<1>1. At(t) \in Int /\ Slot(t) = Ix(At(t)) /\ Ix(At(t)) \in Slots /\ At(t) \in W - Capacity .. W - 1
  <2>1. pc[t] \in Placed
    BY DEF Placed
  <2>2. At(t) \in Int /\ Slot(t) = Ix(At(t)) /\ Ix(At(t)) \in Slots
    BY <2>1, Places
  <2> QED
    BY <2>2, <1>0 DEF Where, Stands
<1>2. R' = R /\ W' = W
  BY DEF R, W
<1>3. pc'[t] = l /\ \A u \in Threads : (u # t => pc'[u] = pc[u]) /\ At(u)' = At(u)
  BY <1>0 DEF At, Types
<1>4. ASSUME NEW n PROVE (NoWriter(n)' <=> NoWriter(n)) /\ (NoTaker(n)' <=> NoTaker(n))
  BY <1>3 DEF NoWriter, NoTaker, Writing, Taking
<1>5. NoAdvancer' <=> NoAdvancer
  BY <1>3 DEF NoAdvancer, Writing, Taking
<1>6. ASSUME NEW n PROVE Given(n)' <=> Given(n)
  BY <1>2, <1>4 DEF Given
<1>7. ASSUME NEW n \in W - Capacity .. W - 1, n # At(t)
      PROVE  value'[Ix(n)] = value[Ix(n)]
  BY <1>0, <1>1, <1>7, IxDiffer, PosIndex DEF Types
<1>8. value'[Ix(At(t))] = v
  BY <1>0, <1>1 DEF Types
<1>9. Cursors'
  <2>1. ASSUME NEW u \in Threads PROVE IsPlaced(u)'
    <3>1. pc'[u] \in Placed => pc[u] \in Placed
      BY <1>3 DEF Placed
    <3> QED
      BY <3>1, PlaceKept
  <2> QED
    BY <2>1, <1>0, <1>2 DEF Cursors
<1>10. Where'
  <2>1. ASSUME NEW u \in Threads, u # t PROVE Stands(u)'
    BY <2>1, <1>0, <1>2, <1>3, <1>4, <1>5, <1>6 DEF Where, Stands
  <2>2. Stands(t)'
    BY <1>0, <1>2, <1>3 DEF Where, Stands, Writing, Taking, Trying
  <2> QED
    BY <2>1, <2>2 DEF Where
<1>11. Alone'
  BY <1>0, <1>3 DEF Alone, Writing, Taking
<1>12. Stamps'
  BY <1>0, <1>2, <1>4, <1>5, <1>6 DEF Stamps
<1>13. Contents'
  <2>1. ASSUME NEW n \in W' - Capacity .. W' - 1
        PROVE  /\ NoWriter(n)' /\ n >= R' => value'[Ix(n)] # NoItem
               /\ Given(n)' /\ (n = W' - Capacity => NoAdvancer') => value'[Ix(n)] = NoItem
               /\ n = W' - Capacity /\ ~NoAdvancer' => value'[Ix(n)] # NoItem
    <3>1. CASE n # At(t)
      BY <3>1, <1>0, <1>2, <1>4, <1>5, <1>6, <1>7 DEF Contents
    <3>2. CASE n = At(t)
      <4>1. ~NoAdvancer => Given(W - Capacity)
        BY <1>0 DEF NoAdvancer, Where, Stands
      <4>2. ~Given(n)
        BY <3>2 DEF Given, NoWriter, NoTaker
      <4>3. ~(NoWriter(n) /\ n >= R)
        BY <3>2, <1>0, <1>1 DEF NoWriter, Where, Stands
      <4> QED
        BY <4>1, <4>2, <4>3, <1>2, <1>4, <1>5, <1>6
    <3> QED
      BY <3>1, <3>2
  <2>2. ASSUME NEW u \in Threads
        PROVE  /\ pc'[u] \in {"push_write", "pop_release"} => value'[Ix(At(u)')] = NoItem
               /\ pc'[u] \in {"push_publish", "push_replace", "pop_take"} => value'[Ix(At(u)')] # NoItem
    <3>1. CASE u = t
      BY <3>1, <1>3, <1>8
    <3>2. CASE u # t /\ pc[u] \in Writing \cup Taking
      <4>1. At(u) \in W - Capacity .. W - 1
        BY <3>2, <1>0, Places DEF Where, Stands, Placed
      <4>2. At(u) # At(t)
        BY <3>2, <4>1, <1>0, <1>1 DEF Alone, Where, Stands
      <4> QED
        BY <3>2, <4>1, <4>2, <1>0, <1>3, <1>7 DEF Contents
    <3>3. CASE u # t /\ pc[u] \notin Writing \cup Taking
      BY <3>3, <1>3 DEF Writing, Taking
    <3> QED
      BY <3>1, <3>2, <3>3
  <2> QED
    BY <2>1, <2>2 DEF Contents
<1>14. Budget'
  <2>1. Coming' \subseteq Coming
    BY <1>3 DEF Coming, Trying
  <2> QED
    BY <2>1, <1>2, BudgetKept
<1> QED
  BY <1>9, <1>10, <1>11, <1>12, <1>13, <1>14, TypesStep, MethodsStep DEF IInv

LEMMA PushWriteStep ==
    ASSUME IInv, Next, NEW t \in Threads, PushWrite(t)
    PROVE  IInv'
<1>1. pc[t] \in Writing /\ item[t] # NoItem /\ "push_publish" \in Labels
  BY DEF PushWrite, Writing, IInv, Methods, Inside, PushLabels, Labels
<1>2. /\ pc' = [pc EXCEPT ![t] = "push_publish"] /\ position' = position /\ made' = made
      /\ stamp' = stamp /\ value' = [value EXCEPT ![Slot(t)] = item[t]] /\ read' = read /\ write' = write
  BY DEF PushWrite, Goto
<1> QED
  BY <1>1, <1>2, AccessStep

LEMMA PushReplaceStep ==
    ASSUME IInv, Next, NEW t \in Threads, PushReplace(t)
    PROVE  IInv'
<1>1. pc[t] \in Writing /\ item[t] # NoItem /\ "push_publish" \in Labels
  BY DEF PushReplace, Writing, IInv, Methods, Inside, PushLabels, Labels
<1>2. /\ pc' = [pc EXCEPT ![t] = "push_publish"] /\ position' = position /\ made' = made
      /\ stamp' = stamp /\ value' = [value EXCEPT ![Slot(t)] = item[t]] /\ read' = read /\ write' = write
  BY DEF PushReplace, Goto
<1> QED
  BY <1>1, <1>2, AccessStep

LEMMA PopTakeStep ==
    ASSUME IInv, Next, NEW t \in Threads, PopTake(t)
    PROVE  IInv'
<1>1. pc[t] \in Taking /\ "pop_release" \in Labels
  BY DEF PopTake, Taking, PopLabels, Labels
<1>2. /\ pc' = [pc EXCEPT ![t] = "pop_release"] /\ position' = position /\ made' = made
      /\ stamp' = stamp /\ value' = [value EXCEPT ![Slot(t)] = NoItem] /\ read' = read /\ write' = write
  BY DEF PopTake, Goto
<1> QED
  BY <1>1, <1>2, AccessStep

\* Both cursors have gone over: t writes at the position that it displaced.
LEMMA PushAdvanceStep ==
    ASSUME IInv, Next, NEW t \in Threads, PushAdvance(t)
    PROVE  IInv'
<1>0. /\ R \in Int /\ W \in Int /\ R <= W /\ W <= R + Capacity /\ Capacity \in Nat /\ Capacity > 0
      /\ Types /\ Where /\ Alone /\ Stamps /\ Contents /\ Cursors
  BY Window DEF IInv
<1>1. At(t) = W /\ position[t] = Pos(W) /\ pc[t] = "push_advance" /\ Given(W - Capacity)
  <2>1. pc[t] = "push_advance"
    BY DEF PushAdvance
  <2> QED
    BY <2>1, Places, <1>0 DEF Where, Stands, Placed
<1>2. ~NoAdvancer
  BY <1>1 DEF NoAdvancer
<1>3. W + 1 \in 0 .. MaxItems
  <2>1. t \in Coming
    BY <1>1 DEF Coming, Trying
  <2> QED
    BY <2>1, BudgetLeft, Window
<1>4. /\ stamp' = stamp /\ value' = value /\ read' = read /\ write' = Pos(W + 1) /\ made' = made
      /\ pc' = [pc EXCEPT ![t] = "push_replace"] /\ position' = position
  BY <1>0, <1>1, PosNext DEF PushAdvance, Goto
<1>5. R' = R /\ W' = W + 1
  BY <1>3, <1>4, NthPos DEF R, W
<1>6. pc'[t] = "push_replace" /\ \A u \in Threads : (u # t => pc'[u] = pc[u]) /\ At(u)' = At(u)
  BY <1>0, <1>4 DEF At, Types
<1>7. ASSUME NEW n
      PROVE  /\ NoWriter(n)' <=> NoWriter(n) /\ n # W
             /\ NoTaker(n)' <=> NoTaker(n)
  BY <1>1, <1>6 DEF NoWriter, NoTaker, Writing, Taking
<1>8. NoAdvancer'
  BY <1>0, <1>1, <1>6 DEF NoAdvancer, Alone
<1>9. ASSUME NEW n \in Int, n # W PROVE Given(n)' <=> Given(n)
  BY <1>5, <1>7, <1>9 DEF Given
<1>10. Cursors'
  <2>1. ASSUME NEW u \in Threads PROVE IsPlaced(u)'
    <3>1. pc'[u] \in Placed => pc[u] \in Placed
      BY <1>1, <1>6 DEF Placed
    <3> QED
      BY <3>1, <1>4, PlaceKept
  <2>2. W + 1 <= R + Capacity
    BY <1>0, <1>1 DEF Given
  <2> QED
    BY <2>1, <2>2, <1>0, <1>3, <1>4, <1>5 DEF Cursors
<1>11. Where'
  <2>1. ASSUME NEW u \in Threads, u # t PROVE Stands(u)'
    <3>1. Stands(u) /\ pc'[u] = pc[u] /\ At(u)' = At(u)
      BY <1>0, <1>6, <2>1 DEF Where
    <3>2. pc[u] \in Placed => At(u) \in Int
      BY Places
    <3>3. pc[u] \in Taking => At(u) # W - Capacity
      BY <1>1 DEF Given, NoTaker
    <3>4. pc[u] # "push_advance"
      BY <1>0, <1>1, <2>1 DEF Alone
    <3>5. /\ pc[u] \in {"push_full", "push_evict"} => NoWriter(At(u) - Capacity)'
          /\ pc[u] = "pop_claim" /\ At(u) = R => NoWriter(R)'
      BY <3>1, <3>2, <1>0, <1>5, <1>7 DEF Stands, Trying, Placed
    <3> QED
      BY <3>1, <3>2, <3>3, <3>4, <3>5, <1>0, <1>5, <1>8 DEF Stands, Trying, Placed, Writing, Taking
  <2>2. Stands(t)'
    BY <1>0, <1>1, <1>5, <1>6 DEF Stands, Trying, Writing, Taking
  <2> QED
    BY <2>1, <2>2 DEF Where
<1>12. Alone'
  <2>1. \A u \in Threads : pc[u] \in Writing => At(u) # W
    BY <1>0, Places DEF Where, Stands, Placed
  <2> QED
    BY <2>1, <1>0, <1>1, <1>6 DEF Alone, Writing, Taking
<1>13. Stamps'
  <2> SUFFICES ASSUME NEW n \in W' - Capacity .. W' - 1
               PROVE  /\ ~NoWriter(n)' => stamp'[Ix(n)] \in {Pos(n), Pos(n - Capacity) + 1}
                      /\ NoWriter(n)' /\ ~Given(n)' => stamp'[Ix(n)] = Pos(n) + 1
                      /\ Given(n)' => stamp'[Ix(n)] = Pos(n + Capacity)
    BY <1>8 DEF Stamps
  <2>1. CASE n = W
    <3>1. stamp[Ix(W - Capacity)] = Pos(W - Capacity) + 1
      BY <1>0, <1>2 DEF Stamps
    <3>2. stamp[Ix(W)] = Pos(W - Capacity) + 1
      BY <3>1, <1>0, IxLap
    <3>3. ~Given(n)' /\ ~NoWriter(n)'
      BY <1>0, <1>5, <1>7, <2>1 DEF Given
    <3> QED
      BY <3>2, <3>3, <2>1, <1>4
  <2>2. CASE n # W
    <3>1. n \in W - Capacity .. W - 1 /\ n # W - Capacity
      BY <2>2, <1>0, <1>5
    <3> QED
      BY <3>1, <2>2, <1>0, <1>4, <1>7, <1>9 DEF Stamps
  <2> QED
    BY <2>1, <2>2
<1>14. Contents'
  <2>1. value[Ix(W)] # NoItem
    <3>1. value[Ix(W - Capacity)] # NoItem
      BY <1>0, <1>2 DEF Contents
    <3> QED
      BY <3>1, <1>0, IxLap
  <2>2. ASSUME NEW n \in W' - Capacity .. W' - 1
        PROVE  /\ NoWriter(n)' /\ n >= R' => value'[Ix(n)] # NoItem
               /\ Given(n)' => value'[Ix(n)] = NoItem
    <3>1. CASE n = W
      BY <3>1, <1>0, <1>5, <1>7 DEF Given
    <3>2. CASE n # W
      <4>1. n \in W - Capacity .. W - 1 /\ n # W - Capacity
        BY <3>2, <1>0, <1>5
      <4> QED
        BY <4>1, <3>2, <1>0, <1>4, <1>5, <1>7, <1>9 DEF Contents
    <3> QED
      BY <3>1, <3>2
  <2>3. ASSUME NEW u \in Threads
        PROVE  /\ pc'[u] \in {"push_write", "pop_release"} => value'[Ix(At(u)')] = NoItem
               /\ pc'[u] \in {"push_publish", "push_replace", "pop_take"} => value'[Ix(At(u)')] # NoItem
    BY <2>1, <1>0, <1>1, <1>4, <1>6 DEF Contents
  <2> QED
    BY <2>2, <2>3, <1>8 DEF Contents
<1>15. Budget'
  <2>1. t \in Coming /\ Coming' = Coming \ {t}
    BY <1>1, <1>6 DEF Coming, Trying
  <2> QED
    BY <2>1, <1>4, <1>5, BudgetSpent
<1> QED
  BY <1>10, <1>11, <1>12, <1>13, <1>14, <1>15, TypesStep, MethodsStep DEF IInv

\* The writer of a position publishes it.
LEMMA PushPublishStep ==
    ASSUME IInv, Next, NEW t \in Threads, PushPublish(t)
    PROVE  IInv'
<1>0. /\ R \in Int /\ W \in Int /\ R <= W /\ W <= R + Capacity /\ Capacity \in Nat /\ Capacity > 0
      /\ Types /\ Where /\ Alone /\ Stamps /\ Contents /\ Cursors
  BY Window DEF IInv
<1>1. /\ pc[t] = "push_publish" /\ At(t) \in Int /\ position[t] = Pos(At(t)) /\ Slot(t) = Ix(At(t))
      /\ Ix(At(t)) \in Slots /\ R <= At(t) /\ At(t) < W
  <2>1. pc[t] = "push_publish"
    BY DEF PushPublish
  <2> QED
    BY <2>1, <1>0, Places DEF Where, Stands, Placed, Writing
<1>2. /\ stamp' = [stamp EXCEPT ![Ix(At(t))] = Pos(At(t)) + 1] /\ value' = value /\ read' = read /\ write' = write
      /\ pc' = [pc EXCEPT ![t] = "return"] /\ position' = position /\ made' = made
  BY <1>1, PosEven DEF PushPublish, Goto
<1>3. R' = R /\ W' = W
  BY <1>2 DEF R, W
<1>4. pc'[t] = "return" /\ \A u \in Threads : (u # t => pc'[u] = pc[u]) /\ At(u)' = At(u)
  BY <1>0, <1>2 DEF At, Types
<1>5. ASSUME NEW n
      PROVE  /\ NoWriter(n)' <=> NoWriter(n) \/ n = At(t)
             /\ NoTaker(n)' <=> NoTaker(n)
  BY <1>0, <1>1, <1>4 DEF NoWriter, NoTaker, Writing, Taking, Alone
<1>6. NoAdvancer' <=> NoAdvancer
  BY <1>1, <1>4 DEF NoAdvancer
<1>7. ASSUME NEW n \in Int PROVE Given(n)' <=> Given(n)
  BY <1>0, <1>1, <1>3, <1>5 DEF Given
<1>8. ASSUME NEW n \in W - Capacity .. W - 1, n # At(t)
      PROVE  stamp'[Ix(n)] = stamp[Ix(n)]
  BY <1>0, <1>1, <1>2, <1>8, IxDiffer, PosIndex DEF Types
<1>9. stamp'[Ix(At(t))] = Pos(At(t)) + 1
  BY <1>0, <1>1, <1>2 DEF Types
<1>10. Cursors'
  <2>1. ASSUME NEW u \in Threads PROVE IsPlaced(u)'
    <3>1. pc'[u] \in Placed => pc[u] \in Placed
      BY <1>1, <1>4 DEF Placed, Writing
    <3> QED
      BY <3>1, <1>2, PlaceKept
  <2> QED
    BY <2>1, <1>0, <1>2, <1>3 DEF Cursors
<1>11. Where'
  <2>1. ASSUME NEW u \in Threads, u # t PROVE Stands(u)'
    <3>1. Stands(u) /\ pc'[u] = pc[u] /\ At(u)' = At(u)
      BY <1>0, <1>4, <2>1 DEF Where
    <3> QED
      BY <3>1, <1>0, <1>3, <1>5, <1>6, <1>7 DEF Stands
  <2>2. Stands(t)'
    BY <1>4 DEF Stands, Trying, Writing, Taking
  <2> QED
    BY <2>1, <2>2 DEF Where
<1>12. Alone'
  BY <1>0, <1>4 DEF Alone, Writing, Taking
<1>13. Stamps'
  <2> SUFFICES ASSUME NEW n \in W - Capacity .. W - 1
               PROVE  /\ ~NoWriter(n)' => stamp'[Ix(n)] \in {Pos(n), Pos(n - Capacity) + 1}
                      /\ NoWriter(n)' /\ ~Given(n)' => stamp'[Ix(n)] = Pos(n) + 1
                      /\ Given(n)' /\ (n = W - Capacity => NoAdvancer') => stamp'[Ix(n)] = Pos(n + Capacity)
                      /\ n = W - Capacity /\ ~NoAdvancer' => stamp'[Ix(n)] = Pos(n) + 1
    BY <1>3 DEF Stamps
  <2>1. CASE n = At(t)
    <3>1. ~Given(n)'
      BY <2>1, <1>0, <1>1, <1>7 DEF Given
    <3> QED
      BY <3>1, <2>1, <1>5, <1>9
  <2>2. CASE n # At(t)
    BY <2>2, <1>0, <1>5, <1>6, <1>7, <1>8 DEF Stamps
  <2> QED
    BY <2>1, <2>2
<1>14. Contents'
  <2>1. ASSUME NEW n \in W - Capacity .. W - 1
        PROVE  /\ NoWriter(n)' /\ n >= R => value[Ix(n)] # NoItem
               /\ Given(n)' /\ (n = W - Capacity => NoAdvancer') => value[Ix(n)] = NoItem
               /\ n = W - Capacity /\ ~NoAdvancer' => value[Ix(n)] # NoItem
    <3>1. value[Ix(At(t))] # NoItem
      BY <1>0, <1>1 DEF Contents
    <3> QED
      BY <3>1, <1>0, <1>5, <1>6, <1>7 DEF Contents
  <2>2. ASSUME NEW u \in Threads
        PROVE  /\ pc'[u] \in {"push_write", "pop_release"} => value'[Ix(At(u)')] = NoItem
               /\ pc'[u] \in {"push_publish", "push_replace", "pop_take"} => value'[Ix(At(u)')] # NoItem
    BY <1>0, <1>2, <1>4 DEF Contents
  <2> QED
    BY <2>1, <2>2, <1>2, <1>3 DEF Contents
<1>15. Budget'
  <2>1. Coming' \subseteq Coming
    BY <1>4 DEF Coming, Trying
  <2> QED
    BY <2>1, <1>2, <1>3, BudgetKept
<1> QED
  BY <1>10, <1>11, <1>12, <1>13, <1>14, <1>15, TypesStep, MethodsStep DEF IInv

\* The taker of a position gives its slot back for the lap after.
LEMMA PopReleaseStep ==
    ASSUME IInv, Next, NEW t \in Threads, PopRelease(t)
    PROVE  IInv'
<1>0. /\ R \in Int /\ W \in Int /\ R <= W /\ W <= R + Capacity /\ Capacity \in Nat /\ Capacity > 0
      /\ Types /\ Where /\ Alone /\ Stamps /\ Contents /\ Cursors
  BY Window DEF IInv
<1>1. /\ pc[t] = "pop_release" /\ At(t) \in Int /\ position[t] = Pos(At(t)) /\ Slot(t) = Ix(At(t))
      /\ Ix(At(t)) \in Slots /\ W - Capacity <= At(t) /\ At(t) < R
  <2>1. pc[t] = "pop_release"
    BY DEF PopRelease
  <2> QED
    BY <2>1, <1>0, Places DEF Where, Stands, Placed, Taking
<1>2. /\ stamp' = [stamp EXCEPT ![Ix(At(t))] = Pos(At(t) + Capacity)] /\ value' = value /\ read' = read /\ write' = write
      /\ pc' = [pc EXCEPT ![t] = "return"] /\ position' = position /\ made' = made
  BY <1>1, PosLap DEF PopRelease, Goto
<1>3. R' = R /\ W' = W
  BY <1>2 DEF R, W
<1>4. pc'[t] = "return" /\ \A u \in Threads : (u # t => pc'[u] = pc[u]) /\ At(u)' = At(u)
  BY <1>0, <1>2 DEF At, Types
<1>5. ASSUME NEW n
      PROVE  /\ NoWriter(n)' <=> NoWriter(n)
             /\ NoTaker(n)' <=> NoTaker(n) \/ n = At(t)
  BY <1>0, <1>1, <1>4 DEF NoWriter, NoTaker, Writing, Taking, Alone
<1>6. NoAdvancer' <=> NoAdvancer
  BY <1>1, <1>4 DEF NoAdvancer
<1>7. NoWriter(At(t)) /\ ~Given(At(t))
  <2>1. NoWriter(At(t))
    BY <1>0, <1>1, Places DEF NoWriter, Where, Stands, Placed
  <2>2. ~NoTaker(At(t))
    BY <1>1 DEF NoTaker, Taking
  <2> QED
    BY <2>1, <2>2 DEF Given
<1>8. ASSUME NEW n \in Int PROVE Given(n)' <=> Given(n) \/ n = At(t)
  BY <1>0, <1>1, <1>3, <1>5, <1>7 DEF Given
<1>9. ASSUME NEW n \in W - Capacity .. W - 1, n # At(t)
      PROVE  stamp'[Ix(n)] = stamp[Ix(n)]
  BY <1>0, <1>1, <1>2, <1>9, IxDiffer, PosIndex DEF Types
<1>10. stamp'[Ix(At(t))] = Pos(At(t) + Capacity)
  BY <1>0, <1>1, <1>2 DEF Types
<1>11. ~NoAdvancer => Given(W - Capacity)
  BY <1>0 DEF NoAdvancer, Where, Stands
<1>12. Cursors'
  <2>1. ASSUME NEW u \in Threads PROVE IsPlaced(u)'
    <3>1. pc'[u] \in Placed => pc[u] \in Placed
      BY <1>1, <1>4 DEF Placed, Taking
    <3> QED
      BY <3>1, <1>2, PlaceKept
  <2> QED
    BY <2>1, <1>0, <1>2, <1>3 DEF Cursors
<1>13. Where'
  <2>1. ASSUME NEW u \in Threads, u # t PROVE Stands(u)'
    <3>1. Stands(u) /\ pc'[u] = pc[u] /\ At(u)' = At(u)
      BY <1>0, <1>4, <2>1 DEF Where
    <3> QED
      BY <3>1, <1>0, <1>3, <1>5, <1>6, <1>8 DEF Stands
  <2>2. Stands(t)'
    BY <1>4 DEF Stands, Trying, Writing, Taking
  <2> QED
    BY <2>1, <2>2 DEF Where
<1>14. Alone'
  BY <1>0, <1>4 DEF Alone, Writing, Taking
<1>15. Stamps'
  <2> SUFFICES ASSUME NEW n \in W - Capacity .. W - 1
               PROVE  /\ ~NoWriter(n)' => stamp'[Ix(n)] \in {Pos(n), Pos(n - Capacity) + 1}
                      /\ NoWriter(n)' /\ ~Given(n)' => stamp'[Ix(n)] = Pos(n) + 1
                      /\ Given(n)' /\ (n = W - Capacity => NoAdvancer') => stamp'[Ix(n)] = Pos(n + Capacity)
                      /\ n = W - Capacity /\ ~NoAdvancer' => stamp'[Ix(n)] = Pos(n) + 1
    BY <1>3 DEF Stamps
  <2>1. CASE n = At(t)
    BY <2>1, <1>5, <1>6, <1>7, <1>8, <1>10, <1>11
  <2>2. CASE n # At(t)
    BY <2>2, <1>0, <1>5, <1>6, <1>8, <1>9 DEF Stamps
  <2> QED
    BY <2>1, <2>2
<1>16. Contents'
  <2>1. ASSUME NEW n \in W - Capacity .. W - 1
        PROVE  /\ NoWriter(n)' /\ n >= R => value[Ix(n)] # NoItem
               /\ Given(n)' /\ (n = W - Capacity => NoAdvancer') => value[Ix(n)] = NoItem
               /\ n = W - Capacity /\ ~NoAdvancer' => value[Ix(n)] # NoItem
    <3>1. value[Ix(At(t))] = NoItem
      BY <1>0, <1>1 DEF Contents
    <3>2. CASE n = At(t)
      BY <3>1, <3>2, <1>0, <1>1, <1>6, <1>7, <1>11
    <3>3. CASE n # At(t)
      BY <3>3, <1>0, <1>5, <1>6, <1>8 DEF Contents
    <3> QED
      BY <3>2, <3>3
  <2>2. ASSUME NEW u \in Threads
        PROVE  /\ pc'[u] \in {"push_write", "pop_release"} => value'[Ix(At(u)')] = NoItem
               /\ pc'[u] \in {"push_publish", "push_replace", "pop_take"} => value'[Ix(At(u)')] # NoItem
    BY <1>0, <1>2, <1>4 DEF Contents
  <2> QED
    BY <2>1, <2>2, <1>2, <1>3 DEF Contents
<1>17. Budget'
  <2>1. Coming' \subseteq Coming
    BY <1>4 DEF Coming, Trying
  <2> QED
    BY <2>1, <1>2, <1>3, BudgetKept
<1> QED
  BY <1>12, <1>13, <1>14, <1>15, <1>16, <1>17, TypesStep, MethodsStep DEF IInv

\* The read cursor goes over a published position: t is the taker there.
LEMMA PopClaimStep ==
    ASSUME IInv, Next, NEW t \in Threads, PopClaim(t)
    PROVE  IInv'
<1>0. /\ R \in Int /\ W \in Int /\ R <= W /\ W <= R + Capacity /\ Capacity \in Nat /\ Capacity > 0
      /\ Types /\ Where /\ Alone /\ Stamps /\ Contents /\ Cursors
  BY Window DEF IInv
<1>1. At(t) = R /\ position[t] = Pos(R) /\ pc[t] = "pop_claim"
  <2>1. pc[t] = "pop_claim" /\ read = position[t]
    BY DEF PopClaim
  <2> QED
    BY <2>1, Places, <1>0 DEF R, At, Placed
<1>2. R < W /\ NoWriter(R)
  BY <1>0, <1>1 DEF Where, Stands
<1>3. R + 1 \in 0 .. MaxItems
  BY <1>2, Window
<1>4. /\ stamp' = stamp /\ value' = value /\ read' = Pos(R + 1) /\ write' = write /\ made' = made
      /\ pc' = [pc EXCEPT ![t] = "pop_take"] /\ position' = position
  BY <1>0, <1>1, PosNext DEF PopClaim, Goto
<1>5. R' = R + 1 /\ W' = W
  BY <1>3, <1>4, NthPos DEF R, W
<1>6. pc'[t] = "pop_take" /\ \A u \in Threads : (u # t => pc'[u] = pc[u]) /\ At(u)' = At(u)
  BY <1>0, <1>4 DEF At, Types
<1>7. ASSUME NEW n
      PROVE  /\ NoWriter(n)' <=> NoWriter(n)
             /\ NoTaker(n)' <=> NoTaker(n) /\ n # R
  BY <1>1, <1>6 DEF NoWriter, NoTaker, Writing, Taking
<1>8. NoAdvancer' <=> NoAdvancer
  BY <1>1, <1>6 DEF NoAdvancer
<1>9. ASSUME NEW n \in Int PROVE Given(n)' <=> Given(n)
  BY <1>0, <1>5, <1>7 DEF Given
<1>10. Cursors'
  <2>1. ASSUME NEW u \in Threads PROVE IsPlaced(u)'
    <3>1. pc'[u] \in Placed => pc[u] \in Placed
      BY <1>1, <1>6 DEF Placed
    <3> QED
      BY <3>1, <1>4, PlaceKept
  <2> QED
    BY <2>1, <1>0, <1>2, <1>3, <1>4, <1>5 DEF Cursors
<1>11. Where'
  <2>1. ASSUME NEW u \in Threads, u # t PROVE Stands(u)'
    <3>1. Stands(u) /\ pc'[u] = pc[u] /\ At(u)' = At(u)
      BY <1>0, <1>6, <2>1 DEF Where
    <3>2. pc[u] \in Placed => At(u) \in Int
      BY Places
    <3>3. pc[u] \in Writing => At(u) # R
      BY <1>2 DEF NoWriter
    <3>4. /\ pc[u] \in {"push_full", "push_evict"} => NoWriter(At(u) - Capacity)'
          /\ pc[u] = "push_claim" /\ At(u) = W => Given(W - Capacity)'
          /\ pc[u] = "push_advance" => Given(W - Capacity)'
      BY <3>1, <3>2, <1>0, <1>5, <1>7, <1>9 DEF Stands, Trying, Placed
    <3> QED
      BY <3>1, <3>2, <3>3, <3>4, <1>0, <1>5, <1>8 DEF Stands, Trying, Placed, Writing, Taking
  <2>2. Stands(t)'
    BY <1>0, <1>1, <1>2, <1>5, <1>6 DEF Stands, Trying, Writing, Taking
  <2> QED
    BY <2>1, <2>2 DEF Where
<1>12. Alone'
  <2>1. \A u \in Threads : pc[u] \in Taking => At(u) # R
    BY <1>0, Places DEF Where, Stands, Placed
  <2> QED
    BY <2>1, <1>0, <1>1, <1>6 DEF Alone, Writing, Taking
<1>13. Stamps'
  BY <1>0, <1>4, <1>5, <1>7, <1>8, <1>9 DEF Stamps
<1>14. Contents'
  <2>1. value[Ix(R)] # NoItem
    BY <1>0, <1>2 DEF Contents
  <2>2. ASSUME NEW n \in W' - Capacity .. W' - 1
        PROVE  /\ NoWriter(n)' /\ n >= R' => value'[Ix(n)] # NoItem
               /\ Given(n)' /\ (n = W' - Capacity => NoAdvancer') => value'[Ix(n)] = NoItem
               /\ n = W' - Capacity /\ ~NoAdvancer' => value'[Ix(n)] # NoItem
    BY <1>0, <1>4, <1>5, <1>7, <1>8, <1>9 DEF Contents
  <2>3. ASSUME NEW u \in Threads
        PROVE  /\ pc'[u] \in {"push_write", "pop_release"} => value'[Ix(At(u)')] = NoItem
               /\ pc'[u] \in {"push_publish", "push_replace", "pop_take"} => value'[Ix(At(u)')] # NoItem
    BY <2>1, <1>0, <1>1, <1>4, <1>6 DEF Contents
  <2> QED
    BY <2>2, <2>3 DEF Contents
<1>15. Budget'
  <2>1. Coming' \subseteq Coming
    BY <1>6 DEF Coming, Trying
  <2> QED
    BY <2>1, <1>4, <1>5, BudgetKept
<1> QED
  BY <1>10, <1>11, <1>12, <1>13, <1>14, <1>15, TypesStep, MethodsStep DEF IInv

\* What the read cursor says to a push that found its slot occupied: the ring is
\* full, and the oldest item is at t's position, a lap ago.
LEMMA FullRing ==
    ASSUME IInv, NEW t \in Threads, pc[t] \in {"push_full", "push_evict"}, read = Oldest(t)
    PROVE  /\ At(t) = W /\ R = W - Capacity /\ position[t] = Pos(W) /\ Oldest(t) = Pos(R)
           /\ NoWriter(R) /\ NoTaker(R) /\ NoAdvancer
<1>0. /\ R \in Int /\ W \in Int /\ R <= W /\ W <= R + Capacity /\ Capacity \in Nat /\ Capacity > 0
      /\ Where /\ Cursors /\ R \in 0 .. MaxItems /\ W \in 0 .. MaxItems
      /\ MaxItems \in Nat /\ Cycle \in Nat /\ MaxItems + Capacity <= Cycle
  BY Window DEF IInv
<1>1. pc[t] \in Placed /\ t \in Coming
  BY DEF Placed, Coming, Trying
<1>2. At(t) \in 0 .. MaxItems /\ At(t) \in Int /\ position[t] = Pos(At(t))
  BY <1>1, Places
<1>3. At(t) <= W /\ NoWriter(At(t) - Capacity) /\ W + 1 <= MaxItems
  BY <1>0, <1>1, BudgetLeft DEF Where, Stands, Trying
<1>4. Oldest(t) = Pos(At(t) - Capacity)
  BY <1>2, PosLap DEF Oldest
<1>5. Pos(R) = Pos(At(t) - Capacity)
  BY <1>4, <1>0 DEF Cursors
<1>6. At(t) - Capacity \in Int /\ R - (At(t) - Capacity) < Cycle /\ (At(t) - Capacity) - R < Cycle
  BY <1>0, <1>2, <1>3
<1>7. R = At(t) - Capacity
  BY <1>0, <1>5, <1>6, PosDiffer
<1>8. At(t) = W /\ R = W - Capacity
  BY <1>0, <1>2, <1>3, <1>7
<1>9. NoWriter(R)
  BY <1>3, <1>7
<1>10. NoTaker(R)
  BY <1>0, Places DEF NoTaker, Where, Stands, Placed
<1>11. NoAdvancer
  BY <1>0, <1>8 DEF NoAdvancer, Where, Stands, Given
<1> QED
  BY <1>2, <1>4, <1>7, <1>8, <1>9, <1>10, <1>11

\* The read cursor goes over the oldest item of a full ring: t displaces it.
LEMMA EvictStep ==
    ASSUME IInv, Next, NEW t \in Threads, PushEvict(t), read = Oldest(t)
    PROVE  IInv'
<1>0. /\ R \in Int /\ W \in Int /\ R <= W /\ W <= R + Capacity /\ Capacity \in Nat /\ Capacity > 0
      /\ Types /\ Where /\ Alone /\ Stamps /\ Contents /\ Cursors
  BY Window DEF IInv
<1>1. pc[t] = "push_evict"
  BY DEF PushEvict
<1>2. /\ At(t) = W /\ R = W - Capacity /\ position[t] = Pos(W) /\ Oldest(t) = Pos(R)
      /\ NoWriter(R) /\ NoTaker(R) /\ NoAdvancer
  BY <1>1, FullRing
<1>3. R + 1 \in 0 .. MaxItems /\ R + 1 <= W
  BY <1>0, <1>2, Window
<1>4. /\ stamp' = stamp /\ value' = value /\ read' = Pos(R + 1) /\ write' = write /\ made' = made
      /\ pc' = [pc EXCEPT ![t] = "push_advance"] /\ position' = position
  BY <1>0, <1>2, PosNext DEF PushEvict, Goto
<1>5. R' = R + 1 /\ W' = W
  BY <1>3, <1>4, NthPos DEF R, W
<1>6. pc'[t] = "push_advance" /\ \A u \in Threads : (u # t => pc'[u] = pc[u]) /\ At(u)' = At(u)
  BY <1>0, <1>4 DEF At, Types
<1>7. ASSUME NEW n
      PROVE  /\ NoWriter(n)' <=> NoWriter(n)
             /\ NoTaker(n)' <=> NoTaker(n)
  BY <1>1, <1>6 DEF NoWriter, NoTaker, Writing, Taking
<1>8. ~NoAdvancer'
  BY <1>6 DEF NoAdvancer
<1>9. ASSUME NEW n \in Int PROVE Given(n)' <=> Given(n) \/ n = R
  BY <1>0, <1>2, <1>5, <1>7 DEF Given
<1>10. Cursors'
  <2>1. ASSUME NEW u \in Threads PROVE IsPlaced(u)'
    <3>1. pc'[u] \in Placed => pc[u] \in Placed
      BY <1>1, <1>6 DEF Placed
    <3> QED
      BY <3>1, <1>4, PlaceKept
  <2> QED
    BY <2>1, <1>0, <1>3, <1>4, <1>5 DEF Cursors
<1>11. Where'
  <2>1. ASSUME NEW u \in Threads, u # t PROVE Stands(u)'
    <3>1. Stands(u) /\ pc'[u] = pc[u] /\ At(u)' = At(u)
      BY <1>0, <1>6, <2>1 DEF Where
    <3>2. pc[u] \in Placed => At(u) \in Int
      BY Places
    <3>3. pc[u] \in Writing => At(u) # R
      BY <1>2 DEF NoWriter
    <3>4. pc[u] # "push_advance"
      BY <1>2 DEF NoAdvancer
    <3>5. ~(pc[u] = "push_claim" /\ At(u) = W)
      BY <3>1, <1>0, <1>2 DEF Stands, Given
    <3>6. pc[u] \in {"push_full", "push_evict"} => NoWriter(At(u) - Capacity)'
      BY <3>1, <1>7 DEF Stands
    <3> QED
      BY <3>1, <3>2, <3>3, <3>4, <3>5, <3>6, <1>0, <1>2, <1>5 DEF Stands, Trying, Placed, Writing, Taking
  <2>2. Stands(t)'
    <3>1. Given(W - Capacity)'
      BY <1>0, <1>2, <1>5, <1>9
    <3> QED
      BY <3>1, <1>2, <1>5, <1>6 DEF Stands, Trying, Writing, Taking
  <2> QED
    BY <2>1, <2>2 DEF Where
<1>12. Alone'
  BY <1>0, <1>2, <1>6 DEF Alone, NoAdvancer, Writing, Taking
<1>13. Stamps'
  <2> SUFFICES ASSUME NEW n \in W - Capacity .. W - 1
               PROVE  /\ ~NoWriter(n)' => stamp'[Ix(n)] \in {Pos(n), Pos(n - Capacity) + 1}
                      /\ NoWriter(n)' /\ ~Given(n)' => stamp'[Ix(n)] = Pos(n) + 1
                      /\ Given(n)' /\ n # W - Capacity => stamp'[Ix(n)] = Pos(n + Capacity)
                      /\ n = W - Capacity => stamp'[Ix(n)] = Pos(n) + 1
    BY <1>5, <1>8 DEF Stamps
  <2>1. ~Given(R)
    BY <1>0 DEF Given
  <2> QED
    BY <2>1, <1>0, <1>2, <1>4, <1>7, <1>9 DEF Stamps
<1>14. Contents'
  <2>1. value[Ix(R)] # NoItem
    BY <1>0, <1>2 DEF Contents
  <2>2. ASSUME NEW n \in W - Capacity .. W - 1
        PROVE  /\ NoWriter(n)' /\ n >= R' => value'[Ix(n)] # NoItem
               /\ Given(n)' /\ n # W - Capacity => value'[Ix(n)] = NoItem
               /\ n = W - Capacity => value'[Ix(n)] # NoItem
    BY <2>1, <1>0, <1>2, <1>4, <1>5, <1>7, <1>9 DEF Contents
  <2>3. ASSUME NEW u \in Threads
        PROVE  /\ pc'[u] \in {"push_write", "pop_release"} => value'[Ix(At(u)')] = NoItem
               /\ pc'[u] \in {"push_publish", "push_replace", "pop_take"} => value'[Ix(At(u)')] # NoItem
    BY <1>0, <1>4, <1>6 DEF Contents
  <2> QED
    BY <2>2, <2>3, <1>5, <1>8 DEF Contents
<1>15. Budget'
  <2>1. Coming' \subseteq Coming
    BY <1>1, <1>6 DEF Coming, Trying
  <2> QED
    BY <2>1, <1>4, <1>5, BudgetKept
<1> QED
  BY <1>10, <1>11, <1>12, <1>13, <1>14, <1>15, TypesStep, MethodsStep DEF IInv

\* The steps outside the slots, for the parts that Quiet leaves.
LEMMA QuietStep ==
    ASSUME IInv, Next, NEW t \in Threads, NEW l \in Labels,
           pc' = [pc EXCEPT ![t] = l], pc[t] \notin Busy, l \notin Busy,
           l \in Trying => pc[t] \in Trying,
           stamp' = stamp, value' = value, read' = read, write' = write, made' = made,
           \A u \in Threads \ {t} : position'[u] = position[u],
           IsPlaced(t)', Stands(t)'
    PROVE  IInv'
<1>1. Cursors' /\ Where' /\ Alone' /\ Stamps' /\ Contents'
  BY Quiet
<1>2. W' = W
  BY DEF W
<1>3. Coming' \subseteq Coming
  BY DEF Coming, Busy, IInv, Types
<1>4. Budget'
  BY <1>2, <1>3, BudgetKept
<1> QED
  BY <1>1, <1>4, TypesStep, MethodsStep DEF IInv

\* What the stamp says to a push.
LEMMA PushStampSays ==
    ASSUME IInv, NEW t \in Threads, pc[t] = "push_stamp"
    PROVE  /\ stamp[Slot(t)] = position[t] /\ At(t) = W => Given(W - Capacity) /\ NoAdvancer
           /\ stamp[Slot(t)] = Wrap(Oldest(t) + 1) => NoWriter(At(t) - Capacity)
<1>0. /\ R \in Int /\ W \in Int /\ R <= W /\ W <= R + Capacity /\ Capacity \in Nat /\ Capacity > 0
      /\ Where /\ Stamps /\ Capacity < Cycle /\ Cycle \in Nat
  BY Window DEF IInv
<1>1. /\ At(t) \in Int /\ position[t] = Pos(At(t)) /\ Slot(t) = Ix(At(t)) /\ At(t) <= W
  BY <1>0, Places DEF Where, Stands, Placed, Trying
<1>2. ASSUME NEW n \in Int PROVE Pos(n) # Pos(n + Capacity) /\ Pos(n) # Pos(n - Capacity)
  <2>1. n + Capacity \in Int /\ n - Capacity \in Int /\ n # n + Capacity /\ n # n - Capacity
    BY <1>0
  <2>2. /\ n - (n + Capacity) < Cycle /\ (n + Capacity) - n < Cycle
        /\ n - (n - Capacity) < Cycle /\ (n - Capacity) - n < Cycle
    BY <1>0
  <2> QED
    BY <2>1, <2>2, PosDiffer
<1>3. ASSUME stamp[Slot(t)] = position[t], At(t) = W PROVE Given(W - Capacity) /\ NoAdvancer
  <2>1. PICK n \in Int : n = W - Capacity /\ n \in W - Capacity .. W - 1 /\ n + Capacity = W
    BY <1>0
  <2>2. stamp[Ix(n)] = Pos(n + Capacity)
    BY <2>1, <1>0, <1>1, <1>3, IxLap
  <2>3. stamp[Ix(n)] # Pos(n) /\ \A m \in Int : stamp[Ix(n)] # Pos(m) + 1
    BY <2>2, <2>1, <1>0, <1>2, PosOdd
  <2>4. NoWriter(n)
    BY <2>1, <2>3, <1>0 DEF Stamps
  <2>5. Given(n)
    BY <2>1, <2>3, <2>4, <1>0 DEF Stamps
  <2>6. NoAdvancer
    BY <2>1, <2>3, <1>0 DEF Stamps
  <2> QED
    BY <2>1, <2>5, <2>6
<1>4. ASSUME stamp[Slot(t)] = Wrap(Oldest(t) + 1) PROVE NoWriter(At(t) - Capacity)
  <2> SUFFICES ASSUME NEW u \in Threads, pc[u] \in Writing, At(u) = At(t) - Capacity
               PROVE  FALSE
    BY DEF NoWriter
  <2>1. PICK n \in Int : n = At(u) /\ n \in W - Capacity .. W - 1 /\ At(t) = n + Capacity
    BY <1>0, <1>1, Places DEF Where, Stands, Placed
  <2>2. ~NoWriter(n)
    BY <2>1 DEF NoWriter
  <2>3. stamp[Ix(n)] \in {Pos(n), Pos(n - Capacity) + 1}
    BY <2>1, <2>2, <1>0 DEF Stamps
  <2>4. Oldest(t) = Pos(n)
    BY <2>1, <1>0, <1>1, PosLap DEF Oldest
  <2>5. stamp[Ix(n)] = Pos(n) + 1
    BY <2>1, <2>4, <1>1, <1>4, PosEven, IxLap
  <2>6. n - Capacity \in Int
    BY <1>0
  <2>7. Pos(n) \in Nat /\ Pos(n - Capacity) \in Nat
    BY <2>6, PosEven
  <2>8. Pos(n) # Pos(n - Capacity)
    BY <1>2
  <2> QED
    BY <2>3, <2>5, <2>7, <2>8
<1> QED
  BY <1>3, <1>4

\* What the stamp says to a pop.
LEMMA PopStampSays ==
    ASSUME IInv, NEW t \in Threads, pc[t] = "pop_stamp"
    PROVE  /\ stamp[Slot(t)] = Wrap(position[t] + 1) /\ At(t) = R => R < W /\ NoWriter(R)
           /\ stamp[Slot(t)] = position[t] /\ At(t) = W => NoAdvancer
<1>0. /\ R \in Int /\ W \in Int /\ R <= W /\ W <= R + Capacity /\ Capacity \in Nat /\ Capacity > 0
      /\ Where /\ Stamps /\ Capacity < Cycle /\ Cycle \in Nat
  BY Window DEF IInv
<1>1. At(t) \in Int /\ position[t] = Pos(At(t)) /\ Slot(t) = Ix(At(t))
  BY Places DEF Placed
<1>2. ASSUME NEW n \in Int PROVE Pos(n) # Pos(n + Capacity) /\ Pos(n) # Pos(n - Capacity)
  <2>1. n + Capacity \in Int /\ n - Capacity \in Int /\ n # n + Capacity /\ n # n - Capacity
    BY <1>0
  <2>2. /\ n - (n + Capacity) < Cycle /\ (n + Capacity) - n < Cycle
        /\ n - (n - Capacity) < Cycle /\ (n - Capacity) - n < Cycle
    BY <1>0
  <2> QED
    BY <2>1, <2>2, PosDiffer
<1>3. PICK n \in Int : n = W - Capacity /\ n \in W - Capacity .. W - 1 /\ n + Capacity = W
  BY <1>0
<1>4. ASSUME stamp[Slot(t)] = Wrap(position[t] + 1), At(t) = R PROVE R < W /\ NoWriter(R)
  <2>1. stamp[Ix(R)] = Pos(R) + 1 /\ Pos(R) \in Nat
    BY <1>0, <1>1, <1>4, PosEven
  <2>2. R < W
    <3> SUFFICES ASSUME R = W PROVE FALSE
      BY <1>0
    <3>1. stamp[Ix(n)] = Pos(n + Capacity) + 1
      BY <2>1, <1>0, <1>3, IxLap
    <3>2. Pos(n) \in Nat /\ Pos(n + Capacity) \in Nat /\ Pos(n) # Pos(n + Capacity)
      BY <1>0, <1>2, <1>3, PosEven
    <3>3. NoWriter(n)
      BY <1>0, <1>3, Places DEF NoWriter, Where, Stands, Placed
    <3>4. Given(n)
      BY <3>1, <3>2, <3>3, <1>0, <1>3 DEF Stamps
    <3>5. NoAdvancer
      BY <3>1, <3>2, <1>0, <1>3 DEF Stamps
    <3>6. stamp[Ix(n)] = Pos(n + Capacity)
      BY <3>4, <3>5, <1>0, <1>3 DEF Stamps
    <3> QED
      BY <3>1, <3>2, <3>6
  <2>3. R \in W - Capacity .. W - 1
    BY <2>2, <1>0
  <2>4. Pos(R - Capacity) \in Nat /\ Pos(R) # Pos(R - Capacity)
    BY <1>0, <1>2, PosEven
  <2>5. stamp[Ix(R)] \notin {Pos(R), Pos(R - Capacity) + 1}
    BY <2>1, <2>4
  <2>6. NoWriter(R)
    BY <2>3, <2>5, <1>0 DEF Stamps
  <2> QED
    BY <2>2, <2>6
<1>5. ASSUME stamp[Slot(t)] = position[t], At(t) = W PROVE NoAdvancer
  <2>1. stamp[Ix(n)] = Pos(n + Capacity)
    BY <1>0, <1>1, <1>3, <1>5, IxLap
  <2>2. stamp[Ix(n)] # Pos(n) + 1
    BY <2>1, <1>0, <1>3, PosOdd
  <2> QED
    BY <2>2, <1>0, <1>3 DEF Stamps
<1> QED
  BY <1>4, <1>5

LEMMA PushQuiet ==
    ASSUME IInv, Next, NEW t \in Threads,
           \/ PushLoad(t) \/ PushStamp(t) \/ PushClaimFails(t) \/ PushFull(t)
           \/ PushEvict(t) /\ read # Oldest(t)
    PROVE  IInv'
<1>0. /\ Types /\ Where /\ Cursors /\ R \in 0 .. MaxItems /\ W \in 0 .. MaxItems /\ W \in Int
  BY Window DEF IInv
<1>1. CASE PushLoad(t)
  <2>1. /\ pc' = [pc EXCEPT ![t] = "push_stamp"] /\ pc[t] = "push_load" /\ "push_stamp" \in Labels
        /\ stamp' = stamp /\ value' = value /\ read' = read /\ write' = write /\ made' = made
        /\ position' = [position EXCEPT ![t] = write]
    BY <1>1 DEF PushLoad, Goto, ring, Labels, PushLabels
  <2>2. pc'[t] = "push_stamp" /\ position'[t] = write /\ \A u \in Threads \ {t} : position'[u] = position[u]
    BY <2>1, <1>0 DEF Types
  <2>3. At(t)' = W /\ W' = W
    BY <2>1, <2>2 DEF At, W
  <2>4. IsPlaced(t)'
    BY <2>2, <2>3, <1>0 DEF IsPlaced, Cursors
  <2>5. Stands(t)'
    BY <2>2, <2>3, <1>0 DEF Stands, Trying, Writing, Taking
  <2>6. pc[t] \notin Busy /\ "push_stamp" \notin Busy /\ pc[t] \in Trying
    BY <2>1 DEF Busy, Trying, Writing, Taking
  <2> QED
    BY <2>1, <2>2, <2>4, <2>5, <2>6, QuietStep
<1>2. CASE PushStamp(t)
  <2>1. PICK l \in {"push_claim", "push_full", "push_load"} :
          /\ pc' = [pc EXCEPT ![t] = l]
          /\ l = "push_claim" => stamp[Slot(t)] = position[t]
          /\ l = "push_full" => stamp[Slot(t)] = Wrap(Oldest(t) + 1)
    BY <1>2 DEF PushStamp, Goto
  <2>2. /\ pc[t] = "push_stamp" /\ l \in Labels /\ l \in Trying
        /\ stamp' = stamp /\ value' = value /\ read' = read /\ write' = write /\ made' = made
        /\ position' = position
    BY <1>2, <2>1 DEF PushStamp, ring, Labels, PushLabels, Trying
  <2>3. pc'[t] = l /\ \A u \in Threads : u # t => pc'[u] = pc[u]
    BY <2>1, <1>0 DEF Types
  <2>4. At(t)' = At(t) /\ W' = W /\ R' = R
    BY <2>2 DEF At, W, R
  <2>5. pc[t] \notin Busy /\ l \notin Busy /\ pc[t] \in Trying
    BY <2>1, <2>2 DEF Busy, Trying, Writing, Taking
  <2>6. IsPlaced(t)'
    <3>1. pc[t] \in Placed
      BY <2>2 DEF Placed
    <3> QED
      BY <3>1, <2>2, PlaceKept
  <2>7. \A n : (NoWriter(n)' <=> NoWriter(n)) /\ (NoTaker(n)' <=> NoTaker(n))
    <3> SUFFICES ASSUME NEW n PROVE (NoWriter(n)' <=> NoWriter(n)) /\ (NoTaker(n)' <=> NoTaker(n))
      OBVIOUS
    <3> QED
      BY <2>2, <2>3, <2>5 DEF NoWriter, NoTaker, Busy, At
  <2>8. NoAdvancer' <=> NoAdvancer
    BY <2>2, <2>3, <2>5 DEF NoAdvancer, Busy
  <2>9. /\ l = "push_claim" /\ At(t) = W => Given(W - Capacity) /\ NoAdvancer
        /\ l = "push_full" => NoWriter(At(t) - Capacity)
    BY <2>1, <2>2, PushStampSays
  <2>10. At(t) <= W
    BY <2>2, <1>0 DEF Where, Stands, Trying
  <2>11. Stands(t)'
    BY <2>1, <2>3, <2>4, <2>7, <2>8, <2>9, <2>10 DEF Stands, Trying, Writing, Taking, Given
  <2> QED
    BY <2>1, <2>2, <2>5, <2>6, <2>11, QuietStep
<1>3. CASE PushClaimFails(t) \/ PushFull(t) \/ (PushEvict(t) /\ read # Oldest(t))
  <2>1. PICK l \in {"push_load", "return", "push_evict"} :
          /\ pc' = [pc EXCEPT ![t] = l]
          /\ l = "push_evict" => pc[t] = "push_full"
    BY <1>3 DEF PushClaimFails, PushFull, PushEvict, Goto
  <2>2. /\ pc[t] \in {"push_claim", "push_full", "push_evict"} /\ l \in Labels
        /\ stamp' = stamp /\ value' = value /\ read' = read /\ write' = write /\ made' = made
        /\ position' = position
    BY <1>3, <2>1 DEF PushClaimFails, PushFull, PushEvict, ring, Labels, PushLabels
  <2>3. pc'[t] = l /\ \A u \in Threads : u # t => pc'[u] = pc[u]
    BY <2>1, <1>0 DEF Types
  <2>4. At(t)' = At(t) /\ W' = W /\ R' = R
    BY <2>2 DEF At, W, R
  <2>5. pc[t] \notin Busy /\ l \notin Busy /\ pc[t] \in Trying
    BY <2>1, <2>2 DEF Busy, Trying, Writing, Taking
  <2>6. IsPlaced(t)'
    <3>1. pc[t] \in Placed
      BY <2>2 DEF Placed
    <3> QED
      BY <3>1, <2>2, PlaceKept
  <2>7. \A n : NoWriter(n)' <=> NoWriter(n)
    <3> SUFFICES ASSUME NEW n PROVE NoWriter(n)' <=> NoWriter(n)
      OBVIOUS
    <3> QED
      BY <2>2, <2>3, <2>5 DEF NoWriter, Busy, At
  <2>8. /\ At(t) <= W
        /\ l = "push_evict" => NoWriter(At(t) - Capacity)
    BY <2>1, <2>2, <1>0 DEF Where, Stands, Trying
  <2>9. Stands(t)'
    BY <2>1, <2>3, <2>4, <2>7, <2>8 DEF Stands, Trying, Writing, Taking
  <2> QED
    BY <2>1, <2>2, <2>5, <2>6, <2>9, QuietStep
<1> QED
  BY <1>1, <1>2, <1>3

LEMMA PopQuiet ==
    ASSUME IInv, Next, NEW t \in Threads,
           PopLoad(t) \/ PopStamp(t) \/ PopClaimFails(t) \/ PopEmpty(t)
    PROVE  IInv'
<1>0. /\ Types /\ Where /\ Cursors /\ R \in 0 .. MaxItems /\ W \in 0 .. MaxItems /\ R \in Int /\ W \in Int
  BY Window DEF IInv
<1>1. CASE PopLoad(t)
  <2>1. /\ pc' = [pc EXCEPT ![t] = "pop_stamp"] /\ pc[t] = "pop_load" /\ "pop_stamp" \in Labels
        /\ stamp' = stamp /\ value' = value /\ read' = read /\ write' = write /\ made' = made
        /\ position' = [position EXCEPT ![t] = read]
    BY <1>1 DEF PopLoad, Goto, ring, Labels, PopLabels
  <2>2. pc'[t] = "pop_stamp" /\ position'[t] = read /\ \A u \in Threads \ {t} : position'[u] = position[u]
    BY <2>1, <1>0 DEF Types
  <2>3. At(t)' = R /\ R' = R
    BY <2>1, <2>2 DEF At, R
  <2>4. IsPlaced(t)'
    BY <2>2, <2>3, <1>0 DEF IsPlaced, Cursors
  <2>5. Stands(t)'
    BY <2>2, <2>3, <1>0 DEF Stands, Trying, Writing, Taking
  <2>6. pc[t] \notin Busy /\ "pop_stamp" \notin Busy /\ "pop_stamp" \notin Trying
    BY <2>1 DEF Busy, Trying, Writing, Taking
  <2> QED
    BY <2>1, <2>2, <2>4, <2>5, <2>6, QuietStep
<1>2. CASE PopStamp(t)
  <2>1. PICK l \in {"pop_claim", "pop_empty", "pop_load"} :
          /\ pc' = [pc EXCEPT ![t] = l]
          /\ l = "pop_claim" => stamp[Slot(t)] = Wrap(position[t] + 1)
          /\ l = "pop_empty" => stamp[Slot(t)] = position[t]
    BY <1>2 DEF PopStamp, Goto
  <2>2. /\ pc[t] = "pop_stamp" /\ l \in Labels
        /\ stamp' = stamp /\ value' = value /\ read' = read /\ write' = write /\ made' = made
        /\ position' = position
    BY <1>2, <2>1 DEF PopStamp, ring, Labels, PopLabels
  <2>3. pc'[t] = l /\ \A u \in Threads : u # t => pc'[u] = pc[u]
    BY <2>1, <1>0 DEF Types
  <2>4. At(t)' = At(t) /\ W' = W /\ R' = R
    BY <2>2 DEF At, W, R
  <2>5. pc[t] \notin Busy /\ l \notin Busy /\ l \notin Trying
    BY <2>1, <2>2 DEF Busy, Trying, Writing, Taking
  <2>6. IsPlaced(t)'
    <3>1. pc[t] \in Placed
      BY <2>2 DEF Placed
    <3> QED
      BY <3>1, <2>2, PlaceKept
  <2>7. \A n : NoWriter(n)' <=> NoWriter(n)
    <3> SUFFICES ASSUME NEW n PROVE NoWriter(n)' <=> NoWriter(n)
      OBVIOUS
    <3> QED
      BY <2>2, <2>3, <2>5 DEF NoWriter, Busy, At
  <2>8. NoAdvancer' <=> NoAdvancer
    BY <2>2, <2>3, <2>5 DEF NoAdvancer, Busy
  <2>9. /\ l = "pop_claim" /\ At(t) = R => R < W /\ NoWriter(R)
        /\ l = "pop_empty" /\ At(t) = W => NoAdvancer
    BY <2>1, <2>2, PopStampSays
  <2>10. At(t) <= R
    BY <2>2, <1>0 DEF Where, Stands
  <2>11. Stands(t)'
    BY <2>1, <2>3, <2>4, <2>7, <2>8, <2>9, <2>10 DEF Stands, Trying, Writing, Taking
  <2> QED
    BY <2>1, <2>2, <2>5, <2>6, <2>11, QuietStep
<1>3. CASE PopClaimFails(t) \/ PopEmpty(t)
  <2>1. PICK l \in {"pop_load", "return"} : pc' = [pc EXCEPT ![t] = l]
    BY <1>3 DEF PopClaimFails, PopEmpty, Goto
  <2>2. /\ pc[t] \in {"pop_claim", "pop_empty"} /\ l \in Labels
        /\ stamp' = stamp /\ value' = value /\ read' = read /\ write' = write /\ made' = made
        /\ position' = position
    BY <1>3, <2>1 DEF PopClaimFails, PopEmpty, ring, Labels, PopLabels
  <2>3. pc'[t] = l
    BY <2>1, <1>0 DEF Types
  <2>4. pc[t] \notin Busy /\ l \notin Busy /\ l \notin Trying
    BY <2>1, <2>2 DEF Busy, Trying, Writing, Taking
  <2>5. IsPlaced(t)' /\ Stands(t)'
    BY <2>1, <2>3 DEF IsPlaced, Placed, Stands, Trying, Writing, Taking
  <2> QED
    BY <2>1, <2>2, <2>4, <2>5, QuietStep
<1> QED
  BY <1>1, <1>2, <1>3

LEMMA LenQuiet ==
    ASSUME IInv, Next, NEW t \in Threads,
           LenRead(t) \/ LenWrite(t) \/ LenCheck(t) \/ Return(t)
    PROVE  IInv'
<1>0. /\ Types /\ Where /\ Cursors /\ R \in 0 .. MaxItems /\ R \in Int
  BY Window DEF IInv
<1>1. CASE LenRead(t)
  <2>1. /\ pc' = [pc EXCEPT ![t] = "len_write"] /\ pc[t] = "len_read" /\ "len_write" \in Labels
        /\ stamp' = stamp /\ value' = value /\ read' = read /\ write' = write /\ made' = made
        /\ position' = [position EXCEPT ![t] = read]
    BY <1>1 DEF LenRead, Goto, ring, Labels, LenLabels
  <2>2. pc'[t] = "len_write" /\ position'[t] = read /\ \A u \in Threads \ {t} : position'[u] = position[u]
    BY <2>1, <1>0 DEF Types
  <2>3. At(t)' = R /\ R' = R
    BY <2>1, <2>2 DEF At, R
  <2>4. IsPlaced(t)'
    BY <2>2, <2>3, <1>0 DEF IsPlaced, Cursors
  <2>5. Stands(t)'
    BY <2>2, <2>3, <1>0 DEF Stands, Trying, Writing, Taking
  <2>6. pc[t] \notin Busy /\ "len_write" \notin Busy /\ "len_write" \notin Trying
    BY <2>1 DEF Busy, Trying, Writing, Taking
  <2> QED
    BY <2>1, <2>2, <2>4, <2>5, <2>6, QuietStep
<1>2. CASE LenWrite(t)
  <2>1. /\ pc' = [pc EXCEPT ![t] = "len_check"] /\ pc[t] = "len_write" /\ "len_check" \in Labels
        /\ stamp' = stamp /\ value' = value /\ read' = read /\ write' = write /\ made' = made
        /\ position' = position
    BY <1>2 DEF LenWrite, Goto, ring, Labels, LenLabels
  <2>2. pc'[t] = "len_check" /\ At(t)' = At(t) /\ R' = R
    BY <2>1, <1>0 DEF Types, At, R
  <2>3. IsPlaced(t)'
    <3>1. pc[t] \in Placed
      BY <2>1 DEF Placed
    <3> QED
      BY <3>1, <2>1, PlaceKept
  <2>4. At(t) <= R
    BY <2>1, <1>0 DEF Where, Stands
  <2>5. Stands(t)'
    BY <2>2, <2>4 DEF Stands, Trying, Writing, Taking
  <2>6. pc[t] \notin Busy /\ "len_check" \notin Busy /\ "len_check" \notin Trying
    BY <2>1 DEF Busy, Trying, Writing, Taking
  <2> QED
    BY <2>1, <2>3, <2>5, <2>6, QuietStep
<1>3. CASE LenCheck(t) \/ Return(t)
  <2>1. PICK l \in {"len_read", "return", "idle"} : pc' = [pc EXCEPT ![t] = l]
    BY <1>3 DEF LenCheck, Return, Goto
  <2>2. /\ pc[t] \in {"len_check", "return"} /\ l \in Labels
        /\ stamp' = stamp /\ value' = value /\ read' = read /\ write' = write /\ made' = made
        /\ \A u \in Threads \ {t} : position'[u] = position[u]
    BY <1>0, <1>3, <2>1 DEF LenCheck, Return, ring, Labels, LenLabels, Types
  <2>3. pc'[t] = l
    BY <2>1, <1>0 DEF Types
  <2>4. pc[t] \notin Busy /\ l \notin Busy /\ l \notin Trying
    BY <2>1, <2>2 DEF Busy, Trying, Writing, Taking
  <2>5. IsPlaced(t)' /\ Stands(t)'
    BY <2>1, <2>3 DEF IsPlaced, Placed, Stands, Trying, Writing, Taking
  <2> QED
    BY <2>1, <2>2, <2>4, <2>5, QuietStep
<1> QED
  BY <1>1, <1>2, <1>3

LEMMA InvokeStep ==
    ASSUME IInv, Next, Invoke
    PROVE  IInv'
<1>0. Types
  BY DEF IInv
<1>1. PICK t \in Threads, l \in {"push_load", "pop_load", "len_read"} :
        /\ pc[t] = "idle" /\ pc' = [pc EXCEPT ![t] = l]
        /\ stamp' = stamp /\ value' = value /\ read' = read /\ write' = write /\ position' = position
        /\ made' = IF l = "push_load" THEN made + 1 ELSE made
  BY DEF Invoke, CallPush, Call, Goto, ring, Threads
<1>2. l \in Labels /\ pc[t] \notin Busy /\ l \notin Busy
  BY <1>1 DEF Labels, PushLabels, PopLabels, LenLabels, Busy, Writing, Taking
<1>3. pc'[t] = l /\ \A u \in Threads : u # t => pc'[u] = pc[u]
  BY <1>0, <1>1 DEF Types
<1>4. IsPlaced(t)' /\ Stands(t)'
  BY <1>1, <1>3 DEF IsPlaced, Placed, Stands, Trying, Writing, Taking
<1>5. Cursors' /\ Where' /\ Alone' /\ Stamps' /\ Contents'
  BY <1>1, <1>2, <1>4, Quiet
<1>6. W' = W
  BY <1>1 DEF W
<1>7. Budget'
  <2>1. CASE l = "push_load"
    <3>1. t \notin Coming /\ Coming' = Coming \cup {t}
      BY <1>1, <1>3, <2>1 DEF Coming, Trying
    <3>2. made' = made + 1
      BY <1>1, <2>1
    <3> QED
      BY <3>1, <3>2, <1>6, BudgetGrows
  <2>2. CASE l # "push_load"
    <3>1. Coming' \subseteq Coming
      BY <1>1, <1>3, <2>2 DEF Coming, Trying
    <3>2. made' = made
      BY <1>1, <2>2
    <3> QED
      BY <3>1, <3>2, <1>6, BudgetKept
  <2> QED
    BY <2>1, <2>2
<1> QED
  BY <1>5, <1>7, TypesStep, MethodsStep DEF IInv

LEMMA InitIInv == Init => IInv
<1> SUFFICES ASSUME Init PROVE IInv
  OBVIOUS
<1>0. Capacity \in Nat /\ Capacity > 0 /\ MaxItems \in Nat /\ 0 \in Slots /\ 0 \in 0 .. MaxItems
  BY Sizes DEF Slots
<1>1. read = Pos(0) /\ write = Pos(0)
  <2>1. Pos(0) = Start + 2 * 0 /\ Start \in Int
    BY <1>0, PosFirst, RingAssumption
  <2> QED
    BY <2>1 DEF Init
<1>2. R = 0 /\ W = 0
  BY <1>0, <1>1, NthPos DEF R, W
<1>3. \A t \in Threads : pc[t] = "idle" /\ op[t] = "none" /\ item[t] = NoItem
  BY DEF Init
<1>4. Types
  BY <1>0 DEF Init, Types, Slots, Labels
<1>5. Methods
  BY <1>3 DEF Methods, Inside, PushLabels, PopLabels, LenLabels
<1>6. Cursors
  BY <1>0, <1>1, <1>2, <1>3 DEF Cursors, IsPlaced, Placed, Writing, Taking
<1>7. Budget
  <2>1. Coming = {}
    BY <1>3 DEF Coming, Trying
  <2>2. IsFiniteSet({}) /\ Cardinality({}) = 0
    BY FS_EmptySet
  <2>3. made = 0
    BY DEF Init
  <2> QED
    BY <2>1, <2>2, <2>3, <1>2 DEF Budget
<1>8. Where /\ Alone
  BY <1>3 DEF Where, Stands, Alone, Trying, Writing, Taking
<1>9. NoAdvancer /\ \A n : NoWriter(n) /\ NoTaker(n)
  BY <1>3 DEF NoAdvancer, NoWriter, NoTaker, Writing, Taking
<1>10. ASSUME NEW n \in W - Capacity .. W - 1
       PROVE  Given(n) /\ stamp[Ix(n)] = Pos(n + Capacity) /\ value[Ix(n)] = NoItem
  <2>1. n \in Int /\ n + Capacity \in Slots /\ n < R
    BY <1>0, <1>2 DEF Slots
  <2>2. Pos(n + Capacity) = Start + 2 * (n + Capacity) /\ Ix(n + Capacity) = n + Capacity
    BY <2>1, PosFirst
  <2>3. Ix(n) = n + Capacity
    BY <2>1, <2>2, IxLap
  <2> QED
    BY <2>1, <2>2, <2>3, <1>9 DEF Init, Slots, Given
<1>11. Stamps /\ Contents
  <2>1. Stamps
    BY <1>9, <1>10 DEF Stamps
  <2>2. Contents
    BY <1>2, <1>3, <1>9, <1>10 DEF Contents, Given
  <2> QED
    BY <2>1, <2>2
<1> QED
  BY <1>4, <1>5, <1>6, <1>7, <1>8, <1>11 DEF IInv

LEMMA StepIInv == IInv /\ [Next]_vars => IInv'
<1> SUFFICES ASSUME IInv, [Next]_vars PROVE IInv'
  OBVIOUS
<1>1. CASE Next
  <2>1. CASE Invoke
    BY <1>1, <2>1, InvokeStep
  <2>2. ASSUME NEW t \in Threads, Step(t) PROVE IInv'
    <3>1. CASE PushClaim(t) \/ PushWrite(t) \/ PushPublish(t) \/ PushAdvance(t) \/ PushReplace(t)
      BY <3>1, <1>1, PushClaimStep, PushWriteStep, PushPublishStep, PushAdvanceStep, PushReplaceStep
    <3>2. CASE PushEvict(t)
      BY <3>2, <1>1, EvictStep, PushQuiet
    <3>3. CASE PushLoad(t) \/ PushStamp(t) \/ PushClaimFails(t) \/ PushFull(t)
      BY <3>3, <1>1, PushQuiet
    <3>4. CASE PopClaim(t) \/ PopTake(t) \/ PopRelease(t)
      BY <3>4, <1>1, PopClaimStep, PopTakeStep, PopReleaseStep
    <3>5. CASE PopLoad(t) \/ PopStamp(t) \/ PopClaimFails(t) \/ PopEmpty(t)
      BY <3>5, <1>1, PopQuiet
    <3>6. CASE LenRead(t) \/ LenWrite(t) \/ LenCheck(t) \/ Return(t)
      BY <3>6, <1>1, LenQuiet
    <3> QED
      BY <2>2, <3>1, <3>2, <3>3, <3>4, <3>5, <3>6 DEF Step
  <2> QED
    BY <1>1, <2>1, <2>2 DEF Next
<1>2. CASE UNCHANGED vars
  <2>1. /\ stamp' = stamp /\ value' = value /\ read' = read /\ write' = write /\ pc' = pc /\ op' = op
        /\ position' = position /\ snapshot' = snapshot /\ item' = item /\ made' = made /\ sizes' = sizes
    BY <1>2 DEF vars, ring, local
  <2>2. R' = R /\ W' = W /\ Coming' = Coming
    BY <2>1 DEF R, W, Coming
  <2>3. \A u : At(u)' = At(u)
    BY <2>1 DEF At
  <2>4. ASSUME NEW n PROVE (NoWriter(n)' <=> NoWriter(n)) /\ (NoTaker(n)' <=> NoTaker(n)) /\ (Given(n)' <=> Given(n))
    BY <2>1, <2>2, <2>3 DEF NoWriter, NoTaker, Given
  <2>5. NoAdvancer' <=> NoAdvancer
    BY <2>1 DEF NoAdvancer
  <2>6. Types' /\ Methods' /\ Cursors' /\ Budget'
    BY <2>1, <2>2, <2>3 DEF IInv, Types, Methods, Inside, Cursors, IsPlaced, Budget
  <2>7. Where' /\ Alone'
    BY <2>1, <2>2, <2>3, <2>4, <2>5 DEF IInv, Where, Stands, Alone
  <2>8. Stamps' /\ Contents'
    BY <2>1, <2>2, <2>3, <2>4, <2>5 DEF IInv, Stamps, Contents
  <2> QED
    BY <2>6, <2>7, <2>8 DEF IInv
<1> QED
  BY <1>1, <1>2

LEMMA Invariance == Safety => []IInv
<1>1. Init => IInv
  BY InitIInv
<1>2. IInv /\ [Next]_vars => IInv'
  BY StepIInv
<1> QED
  BY <1>1, <1>2, PTL DEF Safety

\* The accesses to the slots' values, which push and pop make without a lock,
\* are exclusive, find a slot empty to write and full to read, for any number of
\* threads that share a handle.
THEOREM SlotsAreExclusive == Safety => []SlotAccess
<1>1. IInv => SlotAccess
  <2> SUFFICES ASSUME IInv, NEW t \in Threads
               PROVE  /\ pc[t] = "push_write" => value[Slot(t)] = NoItem
                      /\ pc[t] \in {"pop_take", "push_replace"} => value[Slot(t)] # NoItem
                      /\ \A u \in Threads \ {t} :
                            pc[t] \in {"push_write", "pop_take", "push_replace"}
                            /\ pc[u] \in {"push_write", "pop_take", "push_replace"}
                            => Slot(t) # Slot(u)
    BY DEF SlotAccess
  <2>0. /\ R \in Int /\ W \in Int /\ R <= W /\ W <= R + Capacity /\ Capacity \in Nat
        /\ Where /\ Alone /\ Contents
    BY Window DEF IInv
  <2>1. ASSUME NEW u \in Threads, pc[u] \in {"push_write", "pop_take", "push_replace"}
        PROVE  /\ Slot(u) = Ix(At(u)) /\ At(u) \in Int /\ W - Capacity <= At(u) /\ At(u) < W
               /\ pc[u] # "pop_take" => R <= At(u)
               /\ pc[u] = "pop_take" => At(u) < R
    <3>1. pc[u] \in Placed /\ pc[u] \in Writing \cup Taking
      BY <2>1 DEF Placed, Writing, Taking
    <3> QED
      BY <2>0, <2>1, <3>1, Places DEF Where, Stands, Writing, Taking
  <2>2. ASSUME NEW u \in Threads, u # t, pc[t] \in {"push_write", "pop_take", "push_replace"},
               pc[u] \in {"push_write", "pop_take", "push_replace"}
        PROVE  Slot(t) # Slot(u)
    <3>1. At(t) # At(u)
      BY <2>0, <2>1, <2>2 DEF Alone, Writing, Taking
    <3> QED
      BY <3>1, <2>0, <2>1, <2>2, IxDiffer
  <2>3. /\ pc[t] = "push_write" => value[Slot(t)] = NoItem
        /\ pc[t] \in {"pop_take", "push_replace"} => value[Slot(t)] # NoItem
    BY <2>0, <2>1 DEF Contents
  <2> QED
    BY <2>2, <2>3
<1> QED
  BY <1>1, Invariance, PTL

-----------------------------------------------------------------------------
(* len                                                                     *)

\* The read cursor only goes forward.
LEMMA ReadMoves ==
    ASSUME IInv, Next
    PROVE  (read' = read /\ R' = R) \/ R' = R + 1
<1>1. CASE read' = read
  BY <1>1 DEF R
<1>2. ASSUME NEW t \in Threads, PopClaim(t) PROVE R' = R + 1
  <2>1. pc[t] = "pop_claim" /\ read = position[t] /\ read' = NextPosition(position[t])
    BY <1>2 DEF PopClaim
  <2>2. At(t) = R /\ position[t] = Pos(R) /\ R \in Int
    BY <2>1, Places, Window DEF R, At, Placed
  <2>3. R < W
    BY <2>1, <2>2 DEF IInv, Where, Stands
  <2>4. R + 1 \in 0 .. MaxItems
    BY <2>3, Window
  <2>5. read' = Pos(R + 1)
    BY <2>1, <2>2, PosNext
  <2> QED
    BY <2>4, <2>5, NthPos DEF R
<1>3. ASSUME NEW t \in Threads, PushEvict(t), read = Oldest(t) PROVE R' = R + 1
  <2>1. pc[t] = "push_evict" /\ read' = NextPosition(Oldest(t))
    BY <1>3 DEF PushEvict
  <2>2. R = W - Capacity /\ Oldest(t) = Pos(R)
    BY <1>3, <2>1, FullRing
  <2>3. R + 1 \in 0 .. MaxItems /\ R \in Int
    BY <2>2, Window
  <2>4. read' = Pos(R + 1)
    BY <2>1, <2>2, <2>3, PosNext
  <2> QED
    BY <2>3, <2>4, NthPos DEF R
<1>4. read' = read \/ \E t \in Threads : PopClaim(t) \/ (PushEvict(t) /\ read = Oldest(t))
  <2>1. ASSUME NEW t \in Threads, Step(t)
        PROVE  read' = read \/ PopClaim(t) \/ (PushEvict(t) /\ read = Oldest(t))
    <3>1. CASE PushLoad(t) \/ PushStamp(t) \/ PushClaim(t) \/ PushClaimFails(t) \/ PushWrite(t)
               \/ PushPublish(t) \/ PushFull(t) \/ PushEvict(t) \/ PushAdvance(t) \/ PushReplace(t)
      BY <3>1 DEF PushLoad, PushStamp, PushClaim, PushClaimFails, PushWrite, PushPublish, PushFull,
         PushEvict, PushAdvance, PushReplace, ring
    <3>2. CASE PopLoad(t) \/ PopStamp(t) \/ PopClaim(t) \/ PopClaimFails(t) \/ PopTake(t)
               \/ PopRelease(t) \/ PopEmpty(t)
      BY <3>2 DEF PopLoad, PopStamp, PopClaimFails, PopTake, PopRelease, PopEmpty, ring
    <3>3. CASE LenRead(t) \/ LenWrite(t) \/ LenCheck(t) \/ Return(t)
      BY <3>3 DEF LenRead, LenWrite, LenCheck, Return, ring
    <3> QED
      BY <2>1, <3>1, <3>2, <3>3 DEF Step
  <2>2. CASE Invoke
    BY <2>2 DEF Invoke, CallPush, Call, ring
  <2> QED
    BY <2>1, <2>2 DEF Next
<1> QED
  BY <1>1, <1>2, <1>3, <1>4

\* A step of t leaves the locals of the others alone.
LEMMA OthersStay ==
    ASSUME Types, NEW t \in Threads, NEW u \in Threads, Step(t), u # t
    PROVE  /\ pc'[u] = pc[u] /\ op'[u] = op[u] /\ position'[u] = position[u]
           /\ snapshot'[u] = snapshot[u] /\ item'[u] = item[u]
<1>1. CASE PushLoad(t) \/ PushStamp(t) \/ PushClaim(t) \/ PushClaimFails(t) \/ PushWrite(t)
           \/ PushPublish(t) \/ PushFull(t) \/ PushEvict(t) \/ PushAdvance(t) \/ PushReplace(t)
  BY <1>1 DEF PushLoad, PushStamp, PushClaim, PushClaimFails, PushWrite, PushPublish, PushFull,
     PushEvict, PushAdvance, PushReplace, Goto, Types
<1>2. CASE PopLoad(t) \/ PopStamp(t) \/ PopClaim(t) \/ PopClaimFails(t) \/ PopTake(t)
           \/ PopRelease(t) \/ PopEmpty(t)
  BY <1>2 DEF PopLoad, PopStamp, PopClaim, PopClaimFails, PopTake, PopRelease, PopEmpty, Goto, Types
<1>3. CASE LenRead(t) \/ LenWrite(t) \/ LenCheck(t) \/ Return(t)
  BY <1>3 DEF LenRead, LenWrite, LenCheck, Return, Goto, Types
<1> QED
  BY <1>1, <1>2, <1>3 DEF Step

LEMMA AheadIs ==
    ASSUME IInv
    PROVE  Ahead = W - R /\ W - R \in 0 .. Capacity /\ W - R < Cycle
<1>1. W - R \in 0 .. Capacity /\ W - R < Cycle /\ R \in Int /\ W \in Int /\ R <= W
  BY Window
<1>2. read = Pos(R) /\ write = Pos(W)
  BY DEF IInv, Cursors
<1> QED
  BY <1>1, <1>2, PosDistance DEF Ahead

\* At most one thread is between the two moves of an eviction.
LEMMA OneEvicts ==
    ASSUME IInv
    PROVE  /\ Cardinality(Evicting) \in {0, 1}
           /\ NoAdvancer <=> Cardinality(Evicting) = 0
<1>0. Methods /\ Alone
  BY DEF IInv
<1>1. Evicting \subseteq Threads /\ \A t \in Threads : pc[t] = "push_advance" => t \in Evicting
  BY <1>0 DEF Evicting, Threads, Methods, Inside, PushLabels
<1>2. CASE NoAdvancer
  <2>1. Evicting = {}
    BY <1>1, <1>2 DEF Evicting, NoAdvancer
  <2> QED
    BY <2>1, <1>2, FS_EmptySet
<1>3. CASE ~NoAdvancer
  <2>1. PICK t \in Threads : pc[t] = "push_advance"
    BY <1>3 DEF NoAdvancer
  <2>2. Evicting = {t}
    BY <1>1, <2>1, <1>0 DEF Evicting, Alone
  <2>3. Cardinality({t}) = 1
    BY FS_Singleton
  <2> QED
    BY <2>2, <2>3, <1>3
<1> QED
  BY <1>2, <1>3

LEMMA StepCounting ==
    ASSUME IInv, IInv', Counting, Next
    PROVE  Counting'
<1>0. /\ R \in Int /\ W \in Int /\ R <= W /\ W <= R + Capacity /\ Capacity \in Nat
      /\ Types /\ Where /\ Methods /\ Types' /\ Methods' /\ W \in 0 .. MaxItems /\ Cursors
  BY Window DEF IInv
<1>1. \A u \in Threads : Counts(u)
  BY DEF Counting, Counts
<1>2. \A u \in Threads : op'[u] = "len" => sizes'[u] = sizes[u] \cup {Moment'}
  BY DEF Next, Invoke, Step, Observe
\* What was shown once stays so.
<1>2a. \A u \in Threads : \A n : op'[u] = "len" /\ Showed(u, n) => Showed(u, n)'
  BY <1>2 DEF Showed
<1>3. (read' = read /\ R' = R) \/ R' = R + 1
  BY ReadMoves
\* A thread that does not move.
<1>4. ASSUME NEW u \in Threads, pc'[u] = pc[u], op'[u] = op[u], position'[u] = position[u], snapshot'[u] = snapshot[u]
      PROVE  Counts(u)'
  <2>1. At(u)' = At(u)
    BY <1>4 DEF At
  <2>2. pc[u] = "len_check" => op[u] = "len" /\ At(u) \in Int /\ At(u) <= R
    BY <1>0, Places DEF Methods, Inside, LenLabels, Where, Stands, Placed
  <2> QED
    BY <2>1, <2>2, <1>0, <1>1, <1>3, <1>4, <1>2a DEF Counts
\* A thread whose label is another than those of Counts.
<1>5. ASSUME NEW u \in Threads, pc'[u] # "len_check", ~(pc'[u] = "return" /\ op'[u] = "len")
      PROVE  Counts(u)'
  BY <1>5 DEF Counts
<1>6. ASSUME NEW t \in Threads, NEW u \in Threads, Step(t), u # t
      PROVE  pc'[u] = pc[u] /\ op'[u] = op[u] /\ position'[u] = position[u] /\ snapshot'[u] = snapshot[u]
  BY <1>0, <1>6, OthersStay
<1>7. ASSUME NEW t \in Threads, Step(t) PROVE Counts(t)'
  <2>0. Inside(t) /\ Inside(t)'
    BY <1>0 DEF Methods
  <2>1. CASE LenWrite(t)
    <3>1. /\ pc[t] = "len_write" /\ pc'[t] = "len_check" /\ op'[t] = "len" /\ snapshot'[t] = write
          /\ read' = read /\ write' = write
      BY <2>0, <2>1, <1>0 DEF LenWrite, Goto, Types, ring, Inside, LenLabels
    <3>2. R' = R /\ W' = W /\ write = Pos(W) /\ Nth(snapshot'[t]) = W
      BY <3>1, <1>0 DEF R, W, Cursors
    <3>3. PICK e \in {0, 1} : e = Cardinality(Evicting)
      BY OneEvicts
    <3>4. Evicting' = Evicting
      <4>1. \A u \in Producers : u # t => pc'[u] = pc[u]
        BY <1>6, <1>7 DEF Threads
      <4> QED
        BY <3>1, <4>1 DEF Evicting
    <3>5. Moment' = [items |-> W - R + e, evictions |-> e] /\ W - R \in 0 .. Capacity
      <4>1. Ahead = W - R /\ W - R \in 0 .. Capacity
        BY AheadIs
      <4> QED
        BY <4>1, <3>1, <3>3, <3>4 DEF Moment, Length, Ahead
    <3>6. PICK d \in 0 .. Capacity : d = W - R
      BY <3>5
    <3>7. Showed(t, d)'
      <4>1. PICK m : m = [items |-> d + e, evictions |-> e]
        OBVIOUS
      <4>2. m \in sizes'[t]
        BY <4>1, <3>1, <3>5, <3>6, <1>2
      <4>3. m.evictions \in {0, 1} /\ d = m.items - m.evictions
        <5>1. d \in Int /\ e \in Int /\ d = (d + e) - e
          BY <1>0
        <5> QED
          BY <5>1, <4>1
      <4> QED
        BY <4>2, <4>3 DEF Showed
    <3>8. Nth(snapshot'[t]) - R' = d
      BY <3>2, <3>6
    <3> QED
      BY <3>1, <3>2, <3>6, <3>7, <3>8, <1>0 DEF Counts
  <2>2. CASE LenCheck(t)
    <3>1. CASE read = position[t]
      <4>1. /\ pc[t] = "len_check" /\ pc'[t] = "return" /\ op'[t] = "len"
            /\ snapshot'[t] = Count(position[t], snapshot[t])
        BY <2>0, <2>2, <3>1, <1>0 DEF LenCheck, Goto, Types, Inside, LenLabels
      <4>2. At(t) = R /\ position[t] = Pos(R)
        BY <3>1, <1>0 DEF At, R, Cursors
      <4>3. PICK d \in 0 .. Capacity : d = Nth(snapshot[t]) - R /\ Showed(t, d) /\ snapshot[t] = Pos(Nth(snapshot[t]))
        BY <4>1, <4>2, <1>1 DEF Counts
      <4>4. Nth(snapshot[t]) \in 0 .. MaxItems
        BY <4>1, <1>1 DEF Counts
      <4>5. Nth(snapshot[t]) = R + d /\ d < Cycle
        BY <4>3, <4>4, Window
      <4>6. Count(Pos(R), Pos(R + d)) = d
        BY <4>5, <1>0, CountIs
      <4> QED
        BY <4>1, <4>2, <4>3, <4>5, <4>6, <1>2a DEF Counts
    <3>2. CASE read # position[t]
      <4>1. pc'[t] = "len_read"
        BY <2>2, <3>2, <1>0 DEF LenCheck, Goto, Types
      <4> QED
        BY <4>1 DEF Counts
    <3> QED
      BY <3>1, <3>2
  <2>3. CASE LenRead(t) \/ Return(t)
    <3>1. pc'[t] \in {"len_write", "idle"}
      BY <2>3, <1>0 DEF LenRead, Return, Goto, Types
    <3> QED
      BY <3>1, <1>5
  <2>4. CASE PushLoad(t) \/ PushStamp(t) \/ PushClaim(t) \/ PushClaimFails(t) \/ PushWrite(t)
             \/ PushPublish(t) \/ PushFull(t) \/ PushEvict(t) \/ PushAdvance(t) \/ PushReplace(t)
    <3>1. pc[t] \in PushLabels /\ op'[t] = op[t] /\ pc'[t] # "len_check"
      BY <2>4, <1>0 DEF PushLoad, PushStamp, PushClaim, PushClaimFails, PushWrite, PushPublish, PushFull,
         PushEvict, PushAdvance, PushReplace, Goto, Types, PushLabels
    <3>2. op[t] # "len"
      BY <3>1, <2>0 DEF Inside
    <3> QED
      BY <3>1, <3>2, <1>5
  <2>5. CASE PopLoad(t) \/ PopStamp(t) \/ PopClaim(t) \/ PopClaimFails(t) \/ PopTake(t)
             \/ PopRelease(t) \/ PopEmpty(t)
    <3>1. pc[t] \in PopLabels /\ op'[t] = op[t] /\ pc'[t] # "len_check"
      BY <2>5, <1>0 DEF PopLoad, PopStamp, PopClaim, PopClaimFails, PopTake, PopRelease, PopEmpty,
         Goto, Types, PopLabels
    <3>2. op[t] # "len"
      BY <3>1, <2>0 DEF Inside
    <3> QED
      BY <3>1, <3>2, <1>5
  <2> QED
    BY <1>7, <2>1, <2>2, <2>3, <2>4, <2>5 DEF Step
<1>8. ASSUME Invoke, NEW u \in Threads PROVE Counts(u)'
  <2>1. \/ pc'[u] \in {"push_load", "pop_load", "len_read"}
        \/ pc'[u] = pc[u] /\ op'[u] = op[u] /\ position'[u] = position[u] /\ snapshot'[u] = snapshot[u]
    BY <1>0, <1>8 DEF Invoke, CallPush, Call, Goto, Types
  <2> QED
    BY <2>1, <1>4, <1>5
<1>9. \A u \in Threads : Counts(u)'
  BY <1>4, <1>6, <1>7, <1>8 DEF Next
<1> QED
  BY <1>9 DEF Counting, Counts

\* buffered_count, which reads the two cursors one after the other while other
\* threads push and pop, returns the number of items held at one instant of the
\* call, or one less if an eviction was between its two moves at that instant.
THEOREM CountsAreTrue == Safety => []CountWasTrue
<1>1. Init => Counting
  BY DEF Init, Counting, Counts
<1>2. IInv /\ IInv' /\ Counting /\ [Next]_vars => Counting'
  <2>1. IInv /\ IInv' /\ Counting /\ Next => Counting'
    BY StepCounting
  <2>2. Counting /\ UNCHANGED vars => Counting'
    BY DEF Counting, Counts, Showed, vars, ring, local, At, R
  <2> QED
    BY <2>1, <2>2
<1>3. Counting => CountWasTrue
  BY DEF Counting, Counts, CountWasTrue
<1> QED
  BY <1>1, <1>2, <1>3, Invariance, PTL DEF Safety

-----------------------------------------------------------------------------
(* The queue                                                               *)

Values == Items \cup {NoItem}
Holding == {"push_write", "push_advance", "push_replace"}
Extra == Cardinality(Evicting)
Held(n) == ItemAt(Pos(n))
HasHolder(n) == \E t \in Threads : pc[t] \in Holding /\ At(t) = n

\* The queue that the ring stands for.
Shown ==
    /\ Extra \in {0, 1} /\ (NoAdvancer <=> Extra = 0)
    /\ QueueOfRing \in Seq(Values) /\ Len(QueueOfRing) = W - R + Extra
    /\ \A k \in 1 .. W - R + Extra : QueueOfRing[k] = Held(R + k - 1)
    /\ \A t \in Threads : pc[t] \in Holding => Held(At(t)) = item[t]
    /\ \A n \in 0 .. MaxItems : ~HasHolder(n) => Held(n) = value[Ix(n)]

LEMMA IsShown == IInv => Shown
<1> SUFFICES ASSUME IInv PROVE Shown
  OBVIOUS
<1>0. /\ R \in Int /\ W \in Int /\ R <= W /\ W <= R + Capacity /\ Capacity \in Nat /\ Capacity > 0
      /\ Types /\ Methods /\ Where /\ Alone /\ Cursors /\ MaxItems \in Nat /\ R \in 0 .. MaxItems /\ W \in 0 .. MaxItems
  BY Window DEF IInv
<1>1. Extra \in {0, 1} /\ (NoAdvancer <=> Extra = 0)
  BY OneEvicts DEF Extra
\* The writers of a position.
<1>2. ASSUME NEW n \in 0 .. MaxItems
      PROVE  {t \in Producers : position[t] = Pos(n) /\ pc[t] \in {"push_write", "push_advance", "push_replace"}}
             = {t \in Threads : pc[t] \in Holding /\ At(t) = n}
  <2>1. ASSUME NEW t \in Threads, pc[t] \in Holding
        PROVE  t \in Producers /\ (position[t] = Pos(n) <=> At(t) = n)
    <3>1. pc[t] \in Placed /\ pc[t] \in PushLabels
      BY <2>1 DEF Holding, Placed, Writing, PushLabels
    <3>2. At(t) \in 0 .. MaxItems /\ position[t] = Pos(At(t))
      BY <3>1, Places
    <3>3. position[t] = Pos(n) => At(t) = n
      BY NthPos DEF At
    <3> QED
      BY <3>1, <3>2, <3>3, <1>0 DEF Methods, Inside
  <2> QED
    BY <2>1 DEF Holding, Threads
<1>3. ASSUME NEW t \in Threads, NEW u \in Threads, pc[t] \in Holding, pc[u] \in Holding, At(t) = At(u)
      PROVE  t = u
  <2>1. /\ pc[t] = "push_advance" => At(t) = W
        /\ pc[u] = "push_advance" => At(u) = W
        /\ pc[t] # "push_advance" => pc[t] \in Writing /\ At(t) < W
        /\ pc[u] # "push_advance" => pc[u] \in Writing /\ At(u) < W
    BY <1>0, <1>3 DEF Where, Stands, Writing, Holding
  <2> QED
    BY <2>1, <1>0, <1>3 DEF Alone
<1>4. ASSUME NEW t \in Threads, pc[t] \in Holding
      PROVE  Held(At(t)) = item[t]
  <2>1. At(t) \in 0 .. MaxItems
    BY <1>4, Places DEF Placed, Writing, Holding
  <2>2. PICK n \in 0 .. MaxItems : n = At(t)
    BY <2>1
  <2>3. {u \in Threads : pc[u] \in Holding /\ At(u) = n} = {t}
    BY <2>2, <1>3, <1>4
  <2>4. {u \in Producers : position[u] = Pos(n) /\ pc[u] \in {"push_write", "push_advance", "push_replace"}} = {t}
    BY <2>3, <1>2
  <2>5. ItemAt(Pos(n)) = item[CHOOSE u \in {t} : TRUE]
    BY <2>4 DEF ItemAt
  <2>6. (CHOOSE u \in {t} : TRUE) = t
    OBVIOUS
  <2> QED
    BY <2>2, <2>5, <2>6 DEF Held
<1>5. ASSUME NEW n \in 0 .. MaxItems, ~HasHolder(n)
      PROVE  Held(n) = value[Ix(n)]
  <2>1. {u \in Threads : pc[u] \in Holding /\ At(u) = n} = {}
    BY <1>5 DEF HasHolder
  <2>2. {u \in Producers : position[u] = Pos(n) /\ pc[u] \in {"push_write", "push_advance", "push_replace"}} = {}
    BY <2>1, <1>2
  <2>3. Index(Pos(n)) = Ix(n)
    BY PosIndex
  <2> QED
    BY <2>2, <2>3 DEF Held, ItemAt
<1>6. ASSUME NEW n \in 0 .. MaxItems
      PROVE  Held(n) \in Values
  <2>1. CASE HasHolder(n)
    BY <2>1, <1>0, <1>4 DEF HasHolder, Types, Values
  <2>2. CASE ~HasHolder(n)
    BY <2>2, <1>0, <1>5, PosIndex DEF Types, Values
  <2> QED
    BY <2>1, <2>2
<1>7. PICK m \in Nat : m = W - R + Extra
  BY <1>0, <1>1
<1>8. NoAdvancer \/ W < MaxItems
  <2> SUFFICES ASSUME NEW t \in Threads, pc[t] = "push_advance" PROVE W < MaxItems
    BY DEF NoAdvancer
  <2>1. t \in Coming
    BY DEF Coming
  <2> QED
    BY <2>1, <1>0, BudgetLeft
<1>9. \A k \in 1 .. m : R + k - 1 \in 0 .. MaxItems /\ Later(read, k - 1) = Pos(R + k - 1)
  <2> SUFFICES ASSUME NEW k \in 1 .. m PROVE R + k - 1 \in 0 .. MaxItems /\ Later(read, k - 1) = Pos(R + k - 1)
    OBVIOUS
  <2>1. R + k - 1 \in 0 .. MaxItems
    BY <1>0, <1>1, <1>7, <1>8
  <2>2. Later(Pos(R), k - 1) = Pos(R + (k - 1))
    BY <1>0, PosLater
  <2> QED
    BY <2>1, <2>2, <1>0 DEF Cursors
<1>10. QueueOfRing = [k \in 1 .. m |-> Held(R + k - 1)]
  <2>1. Ahead = W - R
    BY AheadIs
  <2> QED
    BY <2>1, <1>7, <1>9 DEF QueueOfRing, Length, Extra, Held
<1>11. QueueOfRing \in [1 .. m -> Values]
  BY <1>6, <1>9, <1>10
<1>12. QueueOfRing \in Seq(Values)
  BY <1>11, SeqDef
<1>13. Len(QueueOfRing) = m
  <2>1. Len(QueueOfRing) \in Nat /\ DOMAIN QueueOfRing = 1 .. Len(QueueOfRing)
    BY <1>12, LenProperties
  <2>2. DOMAIN QueueOfRing = 1 .. m
    BY <1>11
  <2>3. PICK l \in Nat : l = Len(QueueOfRing) /\ 1 .. l = 1 .. m
    BY <2>1, <2>2
  <2>4. l = m
    BY <2>3
  <2> QED
    BY <2>3, <2>4
<1> QED
  BY <1>1, <1>4, <1>5, <1>7, <1>10, <1>12, <1>13 DEF Shown

LEMMA IsShownNext == IInv' => Shown'
  BY IsShown, PTL

\* An item stays where it is.
LEMMA HeldKept ==
    ASSUME Shown, Shown', NEW n \in 0 .. MaxItems,
           \A t \in Threads : (pc'[t] \in Holding /\ At(t)' = n) <=> (pc[t] \in Holding /\ At(t) = n),
           \A t \in Threads : pc[t] \in Holding /\ At(t) = n => item'[t] = item[t],
           ~HasHolder(n) => value'[Ix(n)] = value[Ix(n)]
    PROVE  Held(n)' = Held(n)
<1>1. HasHolder(n)' <=> HasHolder(n)
  BY DEF HasHolder
<1>2. CASE HasHolder(n)
  <2>1. PICK t \in Threads : pc[t] \in Holding /\ At(t) = n
    BY <1>2 DEF HasHolder
  <2>2. Held(n) = item[t]
    BY <2>1 DEF Shown
  <2>3. pc'[t] \in Holding /\ At(t)' = n
    BY <2>1
  <2>4. Held(n)' = item'[t]
    BY <2>3 DEF Shown
  <2> QED
    BY <2>1, <2>2, <2>4
<1>3. CASE ~HasHolder(n)
  <2>1. Held(n) = value[Ix(n)]
    BY <1>3 DEF Shown
  <2>2. Held(n)' = value'[Ix(n)]
    BY <1>1, <1>3 DEF Shown
  <2> QED
    BY <2>1, <2>2, <1>3
<1> QED
  BY <1>2, <1>3

\* What steps do to the queue.
LEMMA QueueKept ==
    ASSUME Shown, Shown', NEW r \in Int, NEW m \in Nat, r = R, r = R', m = W - R + Extra, m = W' - R' + Extra',
           \A n \in r .. r + m - 1 : Held(n)' = Held(n)
    PROVE  QueueOfRing' = QueueOfRing
<1>1. /\ QueueOfRing \in Seq(Values) /\ Len(QueueOfRing) = m
      /\ \A k \in 1 .. m : QueueOfRing[k] = Held(r + k - 1)
  BY DEF Shown
<1>2. /\ QueueOfRing' \in Seq(Values) /\ Len(QueueOfRing') = m
      /\ \A k \in 1 .. m : QueueOfRing'[k] = Held(r + k - 1)'
  BY DEF Shown, Values, Items
<1>3. \A k \in 1 .. m : QueueOfRing'[k] = QueueOfRing[k]
  BY <1>1, <1>2
<1> QED
  BY <1>1, <1>2, <1>3, SeqEqual

LEMMA QueueGrows ==
    ASSUME Shown, Shown', NEW r \in Int, NEW m \in Nat, r = R, r = R', m = W - R + Extra, m + 1 = W' - R' + Extra',
           \A n \in r .. r + m - 1 : Held(n)' = Held(n)
    PROVE  QueueOfRing' = Append(QueueOfRing, Held(r + m)') /\ Len(QueueOfRing) = m
<1>1. /\ QueueOfRing \in Seq(Values) /\ Len(QueueOfRing) = m
      /\ \A k \in 1 .. m : QueueOfRing[k] = Held(r + k - 1)
  BY DEF Shown
<1>2. /\ QueueOfRing' \in Seq(Values) /\ Len(QueueOfRing') = m + 1
      /\ \A k \in 1 .. m + 1 : QueueOfRing'[k] = Held(r + k - 1)'
  BY DEF Shown, Values, Items
<1>3. PICK x : x = Held(r + m)'
  OBVIOUS
<1>4. QueueOfRing'[m + 1] = x
  <2>1. m + 1 \in 1 .. m + 1 /\ r + (m + 1) - 1 = r + m
    OBVIOUS
  <2> QED
    BY <2>1, <1>2, <1>3
<1>5. x \in Values
  BY <1>2, <1>4, ElementOfSeq
<1>6. PICK q \in Seq(Values) : q = QueueOfRing /\ Len(q) = m
  BY <1>1
<1>7. /\ Append(q, x) \in Seq(Values) /\ Len(Append(q, x)) = m + 1
      /\ \A k \in 1 .. m : Append(q, x)[k] = q[k]
      /\ Append(q, x)[m + 1] = x
  BY <1>5, <1>6, AppendProperties
<1>8. \A k \in 1 .. m : QueueOfRing'[k] = q[k]
  BY <1>1, <1>2, <1>6
<1>9. \A k \in 1 .. m + 1 : QueueOfRing'[k] = Append(q, x)[k]
  BY <1>4, <1>7, <1>8
<1>10. QueueOfRing' = Append(q, x)
  BY <1>2, <1>7, <1>9, SeqEqual
<1> QED
  BY <1>1, <1>3, <1>6, <1>10

LEMMA QueueShrinks ==
    ASSUME Shown, Shown', NEW r \in Int, NEW m \in Nat, r = R, r + 1 = R', m + 1 = W - R + Extra, m = W' - R' + Extra',
           \A n \in r + 1 .. r + m : Held(n)' = Held(n)
    PROVE  QueueOfRing # <<>> /\ QueueOfRing' = Tail(QueueOfRing) /\ Head(QueueOfRing) = Held(r)
<1>1. /\ QueueOfRing \in Seq(Values) /\ Len(QueueOfRing) = m + 1
      /\ \A k \in 1 .. m + 1 : QueueOfRing[k] = Held(r + k - 1)
  BY DEF Shown
<1>2. /\ QueueOfRing' \in Seq(Values) /\ Len(QueueOfRing') = m
      /\ \A k \in 1 .. m : QueueOfRing'[k] = Held((r + 1) + k - 1)'
  BY DEF Shown, Values, Items
<1>3. QueueOfRing # <<>>
  BY <1>1, EmptySeq
<1>4. /\ Tail(QueueOfRing) \in Seq(Values) /\ Len(Tail(QueueOfRing)) = m
      /\ \A k \in 1 .. m : Tail(QueueOfRing)[k] = QueueOfRing[k + 1]
  BY <1>1, <1>3, HeadTailProperties
<1>5. \A k \in 1 .. m : QueueOfRing'[k] = Tail(QueueOfRing)[k]
  <2> SUFFICES ASSUME NEW k \in 1 .. m PROVE QueueOfRing'[k] = Tail(QueueOfRing)[k]
    OBVIOUS
  <2>1. (r + 1) + k - 1 = r + (k + 1) - 1 /\ (r + 1) + k - 1 \in r + 1 .. r + m /\ k + 1 \in 1 .. m + 1
    OBVIOUS
  <2> QED
    BY <2>1, <1>1, <1>2, <1>4
<1>6. Head(QueueOfRing) = QueueOfRing[1]
  OBVIOUS
<1>7. QueueOfRing[1] = Held(r)
  <2>1. 1 \in 1 .. m + 1 /\ r + 1 - 1 = r
    OBVIOUS
  <2> QED
    BY <2>1, <1>1
<1> QED
  BY <1>2, <1>3, <1>4, <1>5, <1>6, <1>7, SeqEqual

LEMMA QueueShifts ==
    ASSUME Shown, Shown', NEW r \in Int, NEW m \in Nat, r = R, r + 1 = R', m + 1 = W - R + Extra, m + 1 = W' - R' + Extra',
           \A n \in r + 1 .. r + m : Held(n)' = Held(n)
    PROVE  /\ QueueOfRing' = Append(Tail(QueueOfRing), Held(r + m + 1)')
           /\ Head(QueueOfRing) = Held(r) /\ Len(QueueOfRing) = m + 1
<1>1. /\ QueueOfRing \in Seq(Values) /\ Len(QueueOfRing) = m + 1
      /\ \A k \in 1 .. m + 1 : QueueOfRing[k] = Held(r + k - 1)
  BY DEF Shown
<1>2. /\ QueueOfRing' \in Seq(Values) /\ Len(QueueOfRing') = m + 1
      /\ \A k \in 1 .. m + 1 : QueueOfRing'[k] = Held((r + 1) + k - 1)'
  BY DEF Shown, Values, Items
<1>3. QueueOfRing # <<>>
  BY <1>1, EmptySeq
<1>4. /\ Tail(QueueOfRing) \in Seq(Values) /\ Len(Tail(QueueOfRing)) = m
      /\ \A k \in 1 .. m : Tail(QueueOfRing)[k] = QueueOfRing[k + 1]
  BY <1>1, <1>3, HeadTailProperties
<1>5. \A k \in 1 .. m : QueueOfRing'[k] = Tail(QueueOfRing)[k]
  <2> SUFFICES ASSUME NEW k \in 1 .. m PROVE QueueOfRing'[k] = Tail(QueueOfRing)[k]
    OBVIOUS
  <2>1. (r + 1) + k - 1 = r + (k + 1) - 1 /\ (r + 1) + k - 1 \in r + 1 .. r + m /\ k + 1 \in 1 .. m + 1 /\ k \in 1 .. m + 1
    OBVIOUS
  <2> QED
    BY <2>1, <1>1, <1>2, <1>4
<1>6. Head(QueueOfRing) = QueueOfRing[1]
  OBVIOUS
<1>7. QueueOfRing[1] = Held(r)
  <2>1. 1 \in 1 .. m + 1 /\ r + 1 - 1 = r
    OBVIOUS
  <2> QED
    BY <2>1, <1>1
<1>8. PICK x : x = Held(r + m + 1)'
  OBVIOUS
<1>9. QueueOfRing'[m + 1] = x
  <2>1. m + 1 \in 1 .. m + 1 /\ (r + 1) + (m + 1) - 1 = r + m + 1
    OBVIOUS
  <2> QED
    BY <2>1, <1>2, <1>8
<1>10. x \in Values
  BY <1>2, <1>9, ElementOfSeq
<1>11. PICK q \in Seq(Values) : q = Tail(QueueOfRing)
  BY <1>4
<1>12. /\ Append(q, x) \in Seq(Values) /\ Len(Append(q, x)) = m + 1
       /\ \A k \in 1 .. m : Append(q, x)[k] = q[k]
       /\ Append(q, x)[m + 1] = x
  BY <1>4, <1>10, <1>11, AppendProperties
<1>13. \A k \in 1 .. m + 1 : QueueOfRing'[k] = Append(q, x)[k]
  BY <1>5, <1>9, <1>11, <1>12
<1>14. QueueOfRing' = Append(q, x)
  BY <1>2, <1>12, <1>13, SeqEqual
<1> QED
  BY <1>1, <1>6, <1>7, <1>8, <1>11, <1>14

\* The calls, by label.
CallForm(t) ==
    /\ op[t] \in {"none", "len"} => CallOfThread(t) = [op |-> "none", item |-> NoItem, done |-> FALSE]
    /\ op[t] \notin {"none", "len"} =>
        /\ pc[t] = "push_write" => CallOfThread(t) = [op |-> op[t], item |-> NoItem, done |-> TRUE]
        /\ pc[t] \in {"push_advance", "push_replace", "pop_take"} =>
              CallOfThread(t) = [op |-> op[t], item |-> value[Slot(t)], done |-> TRUE]
        /\ pc[t] \in {"push_publish", "pop_release", "return"} =>
              CallOfThread(t) = [op |-> op[t], item |-> item[t], done |-> TRUE]
        /\ pc[t] \in Trying \cup {"pop_load", "pop_stamp", "pop_claim", "pop_empty"} =>
              CallOfThread(t) = [op |-> op[t], item |-> item[t], done |-> FALSE]

CallForms == \A t \in Threads : CallForm(t)

LEMMA CallFormsHold == CallForms
<1> SUFFICES ASSUME NEW t \in Threads PROVE CallForm(t)
  BY DEF CallForms
<1>1. CASE op[t] \in {"none", "len"}
  BY <1>1 DEF CallForm, CallOfThread
<1>2. CASE op[t] \notin {"none", "len"}
  BY <1>2 DEF CallForm, CallOfThread, Trying
<1> QED
  BY <1>1, <1>2

LEMMA CallFormsNext == CallForms'
  BY CallFormsHold, PTL

LEMMA CallKept ==
    ASSUME NEW u \in Threads, pc'[u] = pc[u], op'[u] = op[u], item'[u] = item[u],
           pc[u] \in {"push_advance", "push_replace", "pop_take"} =>
               position'[u] = position[u] /\ value'[Slot(u)] = value[Slot(u)]
    PROVE  CallOfThread(u)' = CallOfThread(u)
<1>1. pc[u] \in {"push_advance", "push_replace", "pop_take"} => value'[Slot(u)'] = value[Slot(u)]
  BY DEF Slot
<1> QED
  BY <1>1 DEF CallOfThread

LEMMA Stutters ==
    ASSUME QueueOfRing' = QueueOfRing, \A u \in Threads : CallOfThread(u)' = CallOfThread(u)
    PROVE  UNCHANGED Queue!vars
  BY DEF Queue!vars, Threads

\* t's call takes effect.
LEMMA Answers ==
    ASSUME NEW t \in Producers \cup Consumers, NEW i,
           \A u \in Threads : u # t => CallOfThread(u)' = CallOfThread(u),
           CallOfThread(t)' = [op |-> CallOfThread(t).op, item |-> i, done |-> TRUE]
    PROVE  Queue!Answer(t, i)
  BY DEF Queue!Answer, Threads

\* A step that leaves the values and the cursors alone.
LEMMA QuietQueue ==
    ASSUME IInv, IInv', NEW t \in Threads, NEW l, pc' = [pc EXCEPT ![t] = l],
           pc[t] \notin Holding, l \notin Holding, value' = value, read' = read, write' = write,
           \A u \in Threads : u # t => position'[u] = position[u] /\ item'[u] = item[u]
    PROVE  QueueOfRing' = QueueOfRing
<1>0. R \in Int /\ W \in Int /\ R <= W /\ R \in 0 .. MaxItems /\ W \in 0 .. MaxItems /\ MaxItems \in Nat
      /\ pc \in [Threads -> Labels]
  BY Window DEF IInv, Types
<1>1. Shown /\ Shown'
  BY IsShown, IsShownNext
<1>2. R' = R /\ W' = W
  BY DEF R, W
<1>3. pc'[t] = l /\ \A u \in Threads : u # t => pc'[u] = pc[u] /\ At(u)' = At(u)
  BY <1>0 DEF At
<1>4. NoAdvancer' <=> NoAdvancer
  BY <1>3 DEF NoAdvancer, Holding
<1>5. Extra' = Extra /\ Extra \in {0, 1}
  BY <1>1, <1>4 DEF Shown
<1>6. ASSUME NEW n \in 0 .. MaxItems PROVE Held(n)' = Held(n)
  BY <1>1, <1>3, HeldKept
<1>7. NoAdvancer \/ W < MaxItems
  <2> SUFFICES ASSUME NEW u \in Threads, pc[u] = "push_advance" PROVE W < MaxItems
    BY DEF NoAdvancer
  <2>1. u \in Coming
    BY DEF Coming
  <2> QED
    BY <2>1, <1>0, BudgetLeft
<1>8. PICK r \in Int, m \in Nat : r = R /\ m = W - R + Extra
  BY <1>0, <1>5
<1>9. \A n \in r .. r + m - 1 : n \in 0 .. MaxItems
  BY <1>0, <1>1, <1>5, <1>7, <1>8 DEF Shown
<1>10. \A n \in r .. r + m - 1 : Held(n)' = Held(n)
  BY <1>6, <1>9
<1> QED
  BY <1>1, <1>2, <1>5, <1>8, <1>10, QueueKept

\* Two threads that are at the values of slots are at different slots.
LEMMA SlotsApart ==
    ASSUME IInv, NEW t \in Threads, NEW u \in Threads, u # t, pc[t] \in Writing \cup Taking,
           pc[u] \in {"push_advance", "push_replace", "pop_take"}
    PROVE  Slot(u) # Slot(t)
<1>0. /\ R \in Int /\ W \in Int /\ R <= W /\ W <= R + Capacity /\ Capacity \in Nat /\ Capacity > 0
      /\ Where /\ Alone
  BY Window DEF IInv
<1>1. At(t) \in Int /\ Slot(t) = Ix(At(t)) /\ At(u) \in Int /\ Slot(u) = Ix(At(u))
  BY Places DEF Placed, Writing, Taking
<1>2. /\ W - Capacity <= At(t) /\ At(t) < W
      /\ pc[t] \in Writing => R <= At(t)
      /\ pc[t] \in Taking => At(t) < R
  BY <1>0, <1>1 DEF Where, Stands
<1>3. CASE pc[u] = "push_advance"
  <2>1. At(u) = W /\ Given(W - Capacity)
    BY <1>0, <1>3 DEF Where, Stands
  <2>2. At(t) # W - Capacity
    BY <2>1 DEF Given, NoWriter, NoTaker
  <2>3. Ix(At(t)) # Ix(W - Capacity)
    BY <2>2, <1>0, <1>1, <1>2, IxDiffer
  <2> QED
    BY <2>1, <2>3, <1>0, <1>1, IxLap
<1>4. CASE pc[u] \in {"push_replace", "pop_take"}
  <2>1. /\ W - Capacity <= At(u) /\ At(u) < W
        /\ pc[u] = "push_replace" => R <= At(u)
        /\ pc[u] = "pop_take" => At(u) < R
    BY <1>0, <1>1, <1>4 DEF Where, Stands, Writing, Taking
  <2>2. At(u) # At(t)
    BY <2>1, <1>0, <1>1, <1>2, <1>4 DEF Alone, Writing, Taking
  <2> QED
    BY <2>1, <2>2, <1>0, <1>1, <1>2, IxDiffer
<1> QED
  BY <1>3, <1>4

LEMMA QueuePushClaim ==
    ASSUME IInv, IInv', NEW t \in Threads, Step(t), PushClaim(t)
    PROVE  t \in Producers /\ Queue!Append1(t)
<1>0. /\ R \in Int /\ W \in Int /\ R <= W /\ R \in 0 .. MaxItems /\ W \in 0 .. MaxItems /\ MaxItems \in Nat
      /\ Capacity \in Nat /\ Capacity > 0 /\ Types /\ Methods /\ Where
  BY Window DEF IInv
<1>1. Shown /\ Shown' /\ CallForm(t) /\ CallForm(t)'
  BY IsShown, IsShownNext, CallFormsHold, CallFormsNext DEF CallForms
<1>2. At(t) = W /\ pc[t] = "push_claim"
  <2>1. pc[t] = "push_claim" /\ write = position[t]
    BY DEF PushClaim
  <2> QED
    BY <2>1 DEF W, At
<1>3. Given(W - Capacity) /\ NoAdvancer
  BY <1>0, <1>2 DEF Where, Stands
<1>4. W + 1 \in 0 .. MaxItems
  <2>1. t \in Coming
    BY <1>2 DEF Coming, Trying
  <2> QED
    BY <2>1, <1>0, BudgetLeft
<1>5. /\ value' = value /\ read' = read /\ write' = Pos(W + 1) /\ item' = item /\ op' = op
      /\ pc' = [pc EXCEPT ![t] = "push_write"] /\ position' = position
  <2>1. write' = NextPosition(Pos(W))
    BY <1>2 DEF PushClaim, IInv, Cursors
  <2> QED
    BY <2>1, <1>0, PosNext DEF PushClaim, Goto
<1>6. R' = R /\ W' = W + 1
  BY <1>4, <1>5, NthPos DEF R, W
<1>7. pc'[t] = "push_write" /\ \A u \in Threads : (u # t => pc'[u] = pc[u]) /\ At(u)' = At(u)
  BY <1>0, <1>5 DEF At, Types
<1>8. NoAdvancer' /\ Extra = 0 /\ Extra' = 0
  BY <1>1, <1>3, <1>7 DEF NoAdvancer, Shown
<1>9. ASSUME NEW n \in 0 .. MaxItems, n # W PROVE Held(n)' = Held(n)
  <2>1. \A u \in Threads : (pc'[u] \in Holding /\ At(u)' = n) <=> (pc[u] \in Holding /\ At(u) = n)
    BY <1>2, <1>7, <1>9 DEF Holding
  <2> QED
    BY <2>1, <1>1, <1>5, HeldKept
<1>10. PICK r \in Int, m \in Nat, w \in Int : r = R /\ m = W - R + Extra /\ w = W /\ w = r + m
  BY <1>0, <1>8
<1>11. Held(w)' = item[t]
  <2>1. At(t)' = w /\ pc'[t] \in Holding
    BY <1>2, <1>7, <1>10 DEF Holding
  <2>2. Held(w)' = item'[t]
    BY <2>1, <1>1 DEF Shown
  <2> QED
    BY <2>2, <1>5
<1>12. \A n \in r .. r + m - 1 : Held(n)' = Held(n)
  BY <1>0, <1>9, <1>10
<1>13. r = R' /\ m + 1 = W' - R' + Extra'
  BY <1>0, <1>6, <1>8, <1>10
<1>14. QueueOfRing' = Append(QueueOfRing, Held(r + m)') /\ Len(QueueOfRing) = m
  BY <1>1, <1>10, <1>12, <1>13, QueueGrows
<1>15. QueueOfRing' = Append(QueueOfRing, item[t]) /\ Len(QueueOfRing) < Capacity
  <2>1. m < Capacity
    BY <1>0, <1>3, <1>8, <1>10 DEF Given
  <2>2. QueueOfRing' = Append(QueueOfRing, Held(w)')
    BY <1>10, <1>14
  <2> QED
    BY <2>1, <2>2, <1>11, <1>14
<1>16. t \in Producers /\ op[t] \in {"push", "push_overwrite"} /\ op'[t] = op[t]
  BY <1>0, <1>2, <1>5 DEF Methods, Inside, PushLabels
<1>17. CallOfThread(t) = [op |-> op[t], item |-> item[t], done |-> FALSE]
  BY <1>1, <1>2, <1>16 DEF CallForm, Trying
<1>18. CallOfThread(t)' = [op |-> op[t], item |-> NoItem, done |-> TRUE]
  BY <1>1, <1>7, <1>16 DEF CallForm
<1>19. \A u \in Threads : u # t => CallOfThread(u)' = CallOfThread(u)
  BY <1>0, <1>5, OthersStay, CallKept
<1>20. Queue!Answer(t, NoItem)
  <2>1. CallOfThread(t)' = [op |-> CallOfThread(t).op, item |-> NoItem, done |-> TRUE]
    BY <1>17, <1>18
  <2>2. t \in Producers \cup Consumers
    BY <1>16
  <2> QED
    BY <2>1, <2>2, <1>19, Answers
<1>21. Queue!Pending(t, {"push", "push_overwrite"})
  BY <1>16, <1>17 DEF Queue!Pending
<1> QED
  BY <1>15, <1>16, <1>17, <1>20, <1>21 DEF Queue!Append1

LEMMA QueueEvict ==
    ASSUME IInv, IInv', NEW t \in Threads, Step(t), PushEvict(t), read = Oldest(t)
    PROVE  t \in Producers /\ Queue!Displace(t)
<1>0. /\ R \in Int /\ W \in Int /\ R <= W /\ R \in 0 .. MaxItems /\ W \in 0 .. MaxItems /\ MaxItems \in Nat
      /\ Capacity \in Nat /\ Capacity > 0 /\ Types /\ Methods /\ Where
  BY Window DEF IInv
<1>1. Shown /\ Shown' /\ CallForm(t) /\ CallForm(t)'
  BY IsShown, IsShownNext, CallFormsHold, CallFormsNext DEF CallForms
<1>2. pc[t] = "push_evict"
  BY DEF PushEvict
<1>3. /\ At(t) = W /\ R = W - Capacity /\ position[t] = Pos(W) /\ Oldest(t) = Pos(R)
      /\ NoWriter(R) /\ NoAdvancer
  BY <1>2, FullRing
<1>4. R + 1 \in 0 .. MaxItems
  BY <1>0, <1>3
<1>5. /\ value' = value /\ read' = Pos(R + 1) /\ write' = write /\ item' = item /\ op' = op
      /\ pc' = [pc EXCEPT ![t] = "push_advance"] /\ position' = position
  BY <1>0, <1>3, PosNext DEF PushEvict, Goto
<1>6. R' = R + 1 /\ W' = W
  BY <1>4, <1>5, NthPos DEF R, W
<1>7. pc'[t] = "push_advance" /\ \A u \in Threads : (u # t => pc'[u] = pc[u]) /\ At(u)' = At(u)
  BY <1>0, <1>5 DEF At, Types
<1>8. Extra = 0 /\ Extra' = 1
  <2>1. ~NoAdvancer'
    BY <1>7 DEF NoAdvancer
  <2> QED
    BY <2>1, <1>1, <1>3 DEF Shown
<1>9. ASSUME NEW n \in 0 .. MaxItems, n # W PROVE Held(n)' = Held(n)
  <2>1. \A u \in Threads : (pc'[u] \in Holding /\ At(u)' = n) <=> (pc[u] \in Holding /\ At(u) = n)
    BY <1>2, <1>3, <1>7, <1>9 DEF Holding
  <2> QED
    BY <2>1, <1>1, <1>5, HeldKept
<1>10. PICK r \in Int, m \in Nat, w \in Int : r = R /\ m + 1 = W - R + Extra /\ w = W /\ w = r + m + 1
  <2>1. Capacity - 1 \in Nat /\ (Capacity - 1) + 1 = W - R + Extra /\ W = R + (Capacity - 1) + 1
    BY <1>0, <1>3, <1>8
  <2> QED
    BY <2>1, <1>0
<1>11. Held(w)' = item[t]
  <2>1. At(t)' = w /\ pc'[t] \in Holding
    BY <1>3, <1>7, <1>10 DEF Holding
  <2>2. Held(w)' = item'[t]
    BY <2>1, <1>1 DEF Shown
  <2> QED
    BY <2>2, <1>5
<1>12. \A n \in r + 1 .. r + m : Held(n)' = Held(n)
  BY <1>0, <1>9, <1>10
<1>13. r + 1 = R' /\ m + 1 = W' - R' + Extra'
  BY <1>0, <1>6, <1>8, <1>10
<1>14. /\ QueueOfRing' = Append(Tail(QueueOfRing), Held(r + m + 1)')
       /\ Head(QueueOfRing) = Held(r) /\ Len(QueueOfRing) = m + 1
  BY <1>1, <1>10, <1>12, <1>13, QueueShifts
<1>15. QueueOfRing' = Append(Tail(QueueOfRing), item[t]) /\ Len(QueueOfRing) = Capacity
  <2>1. m + 1 = Capacity
    BY <1>0, <1>3, <1>8, <1>10
  <2>2. QueueOfRing' = Append(Tail(QueueOfRing), Held(w)')
    BY <1>10, <1>14
  <2> QED
    BY <2>1, <2>2, <1>11, <1>14
<1>16. Head(QueueOfRing) = value[Slot(t)]
  <2>1. ~HasHolder(R)
    BY <1>3 DEF HasHolder, Holding, NoWriter, NoAdvancer, Writing
  <2>2. Held(r) = value[Ix(R)]
    BY <2>1, <1>0, <1>1, <1>10 DEF Shown
  <2>3. Slot(t) = Ix(W)
    BY <1>0, <1>3, PosIndex DEF Slot
  <2>4. Ix(R) = Ix(W)
    BY <1>0, <1>3, IxLap
  <2> QED
    BY <2>2, <2>3, <2>4, <1>14
<1>17. t \in Producers /\ op[t] = "push_overwrite" /\ op'[t] = op[t]
  BY <1>0, <1>2, <1>5 DEF Methods, Inside, PushLabels
<1>18. CallOfThread(t) = [op |-> op[t], item |-> item[t], done |-> FALSE]
  BY <1>1, <1>2, <1>17 DEF CallForm, Trying
<1>19. CallOfThread(t)' = [op |-> op[t], item |-> value[Slot(t)], done |-> TRUE]
  <2>1. Slot(t)' = Slot(t)
    BY <1>5 DEF Slot
  <2> QED
    BY <2>1, <1>1, <1>5, <1>7, <1>17 DEF CallForm
<1>20. \A u \in Threads : u # t => CallOfThread(u)' = CallOfThread(u)
  BY <1>0, <1>5, OthersStay, CallKept
<1>21. Queue!Answer(t, value[Slot(t)])
  <2>1. PICK x : x = value[Slot(t)]
    OBVIOUS
  <2>2. CallOfThread(t)' = [op |-> CallOfThread(t).op, item |-> x, done |-> TRUE]
    BY <2>1, <1>18, <1>19
  <2>3. t \in Producers \cup Consumers
    BY <1>17
  <2>4. Queue!Answer(t, x)
    BY <2>2, <2>3, <1>20, Answers
  <2> QED
    BY <2>1, <2>4
<1>22. Queue!Pending(t, {"push_overwrite"})
  BY <1>17, <1>18 DEF Queue!Pending
<1> QED
  BY <1>15, <1>16, <1>17, <1>18, <1>21, <1>22 DEF Queue!Displace

LEMMA QueuePopClaim ==
    ASSUME IInv, IInv', NEW t \in Threads, Step(t), PopClaim(t)
    PROVE  t \in Consumers /\ Queue!Take(t)
<1>0. /\ R \in Int /\ W \in Int /\ R <= W /\ R \in 0 .. MaxItems /\ W \in 0 .. MaxItems /\ MaxItems \in Nat
      /\ Capacity \in Nat /\ Capacity > 0 /\ Types /\ Methods /\ Where /\ Cursors
  BY Window DEF IInv
<1>1. Shown /\ Shown' /\ CallForm(t) /\ CallForm(t)'
  BY IsShown, IsShownNext, CallFormsHold, CallFormsNext DEF CallForms
<1>2. pc[t] = "pop_claim" /\ read = position[t] /\ At(t) = R /\ position[t] = Pos(R)
  <2>1. pc[t] = "pop_claim" /\ read = position[t]
    BY DEF PopClaim
  <2> QED
    BY <2>1, <1>0 DEF R, At, Cursors
<1>3. R < W /\ NoWriter(R)
  BY <1>0, <1>2 DEF Where, Stands
<1>4. R + 1 \in 0 .. MaxItems
  BY <1>0, <1>3
<1>5. /\ value' = value /\ read' = Pos(R + 1) /\ write' = write /\ item' = item /\ op' = op
      /\ pc' = [pc EXCEPT ![t] = "pop_take"] /\ position' = position
  BY <1>0, <1>2, PosNext DEF PopClaim, Goto
<1>6. R' = R + 1 /\ W' = W
  BY <1>4, <1>5, NthPos DEF R, W
<1>7. pc'[t] = "pop_take" /\ \A u \in Threads : (u # t => pc'[u] = pc[u]) /\ At(u)' = At(u)
  BY <1>0, <1>5 DEF At, Types
<1>8. Extra' = Extra /\ Extra \in {0, 1} /\ (NoAdvancer <=> Extra = 0)
  <2>1. NoAdvancer' <=> NoAdvancer
    BY <1>2, <1>7 DEF NoAdvancer
  <2> QED
    BY <2>1, <1>1 DEF Shown
<1>9. ASSUME NEW n \in 0 .. MaxItems PROVE Held(n)' = Held(n)
  <2>1. \A u \in Threads : (pc'[u] \in Holding /\ At(u)' = n) <=> (pc[u] \in Holding /\ At(u) = n)
    BY <1>2, <1>7 DEF Holding
  <2> QED
    BY <2>1, <1>1, <1>5, HeldKept
<1>10. NoAdvancer \/ W < MaxItems
  <2> SUFFICES ASSUME NEW u \in Threads, pc[u] = "push_advance" PROVE W < MaxItems
    BY DEF NoAdvancer
  <2>1. u \in Coming
    BY DEF Coming
  <2> QED
    BY <2>1, <1>0, BudgetLeft
<1>11. PICK r \in Int, m \in Nat : r = R /\ m + 1 = W - R + Extra
  <2>1. W - R + Extra - 1 \in Nat /\ (W - R + Extra - 1) + 1 = W - R + Extra
    BY <1>0, <1>3, <1>8
  <2> QED
    BY <2>1, <1>0
<1>12. \A n \in r + 1 .. r + m : n \in 0 .. MaxItems
  BY <1>0, <1>8, <1>10, <1>11
<1>13. \A n \in r + 1 .. r + m : Held(n)' = Held(n)
  BY <1>9, <1>12
<1>14. r + 1 = R' /\ m = W' - R' + Extra'
  BY <1>0, <1>6, <1>8, <1>11
<1>15. QueueOfRing # <<>> /\ QueueOfRing' = Tail(QueueOfRing) /\ Head(QueueOfRing) = Held(r)
  BY <1>1, <1>11, <1>13, <1>14, QueueShrinks
<1>16. Head(QueueOfRing) = value[Slot(t)]
  <2>1. ~HasHolder(R)
    <3> SUFFICES ASSUME NEW u \in Threads, pc[u] \in Holding, At(u) = R PROVE FALSE
      BY DEF HasHolder
    <3>1. pc[u] # "push_advance"
      BY <1>0, <1>3 DEF Where, Stands
    <3> QED
      BY <3>1, <1>3 DEF NoWriter, Writing, Holding
  <2>2. Held(r) = value[Ix(R)]
    BY <2>1, <1>0, <1>1, <1>11 DEF Shown
  <2>3. Slot(t) = Ix(R)
    BY <1>0, <1>2, PosIndex DEF Slot
  <2> QED
    BY <2>2, <2>3, <1>15
<1>17. t \in Consumers /\ op[t] = "pop" /\ op'[t] = op[t]
  BY <1>0, <1>2, <1>5 DEF Methods, Inside, PopLabels
<1>18. CallOfThread(t) = [op |-> op[t], item |-> item[t], done |-> FALSE]
  BY <1>1, <1>2, <1>17 DEF CallForm, Trying
<1>19. CallOfThread(t)' = [op |-> op[t], item |-> value[Slot(t)], done |-> TRUE]
  <2>1. Slot(t)' = Slot(t)
    BY <1>5 DEF Slot
  <2> QED
    BY <2>1, <1>1, <1>5, <1>7, <1>17 DEF CallForm
<1>20. \A u \in Threads : u # t => CallOfThread(u)' = CallOfThread(u)
  BY <1>0, <1>5, OthersStay, CallKept
<1>21. Queue!Answer(t, value[Slot(t)])
  <2>1. PICK x : x = value[Slot(t)]
    OBVIOUS
  <2>2. CallOfThread(t)' = [op |-> CallOfThread(t).op, item |-> x, done |-> TRUE]
    BY <2>1, <1>18, <1>19
  <2>3. t \in Producers \cup Consumers
    BY <1>17
  <2>4. Queue!Answer(t, x)
    BY <2>2, <2>3, <1>20, Answers
  <2> QED
    BY <2>1, <2>4
<1>22. Queue!Pending(t, {"pop"})
  BY <1>17, <1>18 DEF Queue!Pending
<1> QED
  BY <1>15, <1>16, <1>17, <1>21, <1>22 DEF Queue!Take

\* The write cursor follows: the item was in the queue already.
LEMMA QueueAdvance ==
    ASSUME IInv, IInv', NEW t \in Threads, Step(t), PushAdvance(t)
    PROVE  UNCHANGED Queue!vars
<1>0. /\ R \in Int /\ W \in Int /\ R <= W /\ R \in 0 .. MaxItems /\ W \in 0 .. MaxItems /\ MaxItems \in Nat
      /\ Types /\ Methods /\ Where /\ Alone
  BY Window DEF IInv
<1>1. Shown /\ Shown' /\ CallForm(t) /\ CallForm(t)'
  BY IsShown, IsShownNext, CallFormsHold, CallFormsNext DEF CallForms
<1>2. pc[t] = "push_advance" /\ At(t) = W /\ position[t] = Pos(W)
  <2>1. pc[t] = "push_advance"
    BY DEF PushAdvance
  <2> QED
    BY <2>1, Places, <1>0 DEF Where, Stands, Placed
<1>3. W + 1 \in 0 .. MaxItems
  <2>1. t \in Coming
    BY <1>2 DEF Coming, Trying
  <2> QED
    BY <2>1, <1>0, BudgetLeft
<1>4. /\ value' = value /\ read' = read /\ write' = Pos(W + 1) /\ item' = item /\ op' = op
      /\ pc' = [pc EXCEPT ![t] = "push_replace"] /\ position' = position
  BY <1>0, <1>2, PosNext DEF PushAdvance, Goto
<1>5. R' = R /\ W' = W + 1
  BY <1>3, <1>4, NthPos DEF R, W
<1>6. pc'[t] = "push_replace" /\ \A u \in Threads : (u # t => pc'[u] = pc[u]) /\ At(u)' = At(u)
  BY <1>0, <1>4 DEF At, Types
<1>7. Extra = 1 /\ Extra' = 0
  <2>1. ~NoAdvancer
    BY <1>2 DEF NoAdvancer
  <2>2. NoAdvancer'
    BY <1>0, <1>2, <1>6 DEF NoAdvancer, Alone
  <2> QED
    BY <2>1, <2>2, <1>1 DEF Shown
<1>8. ASSUME NEW n \in 0 .. MaxItems PROVE Held(n)' = Held(n)
  <2>1. \A u \in Threads : (pc'[u] \in Holding /\ At(u)' = n) <=> (pc[u] \in Holding /\ At(u) = n)
    BY <1>2, <1>6 DEF Holding
  <2> QED
    BY <2>1, <1>1, <1>4, HeldKept
<1>9. PICK r \in Int, m \in Nat : r = R /\ m = W - R + Extra
  BY <1>0, <1>7
<1>10. \A n \in r .. r + m - 1 : Held(n)' = Held(n)
  BY <1>0, <1>7, <1>8, <1>9
<1>11. r = R' /\ m = W' - R' + Extra'
  BY <1>0, <1>5, <1>7, <1>9
<1>12. QueueOfRing' = QueueOfRing
  BY <1>1, <1>9, <1>10, <1>11, QueueKept
<1>13. CallOfThread(t)' = CallOfThread(t)
  <2>1. op[t] = "push_overwrite" /\ op'[t] = op[t] /\ Slot(t)' = Slot(t)
    BY <1>0, <1>2, <1>4 DEF Methods, Inside, Slot
  <2> QED
    BY <2>1, <1>1, <1>2, <1>4, <1>6 DEF CallForm
<1>14. \A u \in Threads : u # t => CallOfThread(u)' = CallOfThread(u)
  BY <1>0, <1>4, OthersStay, CallKept
<1> QED
  BY <1>12, <1>13, <1>14, Stutters

\* The value goes from the thread to the slot, or from the slot to the thread.
LEMMA QueueAccess ==
    ASSUME IInv, IInv', NEW t \in Threads, Step(t), PushWrite(t) \/ PushReplace(t) \/ PopTake(t)
    PROVE  UNCHANGED Queue!vars
<1>0. /\ R \in Int /\ W \in Int /\ R <= W /\ W <= R + Capacity /\ R \in 0 .. MaxItems /\ W \in 0 .. MaxItems
      /\ MaxItems \in Nat /\ Capacity \in Nat /\ Capacity > 0
      /\ Types /\ Methods /\ Where /\ Alone
  BY Window DEF IInv
<1>1. Shown /\ Shown' /\ CallForm(t) /\ CallForm(t)'
  BY IsShown, IsShownNext, CallFormsHold, CallFormsNext DEF CallForms
<1>2. PICK l \in {"push_publish", "pop_release"}, v \in Items \cup {NoItem} :
        /\ pc[t] \in {"push_write", "push_replace", "pop_take"} /\ pc' = [pc EXCEPT ![t] = l]
        /\ value' = [value EXCEPT ![Slot(t)] = v]
        /\ pc[t] # "pop_take" => l = "push_publish" /\ v = item[t]
        /\ pc[t] = "pop_take" => l = "pop_release"
        /\ pc[t] = "push_write" => item' = [item EXCEPT ![t] = NoItem]
        /\ pc[t] # "push_write" => item' = [item EXCEPT ![t] = value[Slot(t)]]
        /\ read' = read /\ write' = write /\ op' = op /\ position' = position
  BY <1>0 DEF PushWrite, PushReplace, PopTake, Goto, Types
<1>3. pc[t] \in Writing \cup Taking /\ pc[t] \in Placed
  BY <1>2 DEF Writing, Taking, Placed
<1>4. /\ At(t) \in Int /\ Slot(t) = Ix(At(t)) /\ Ix(At(t)) \in Slots /\ W - Capacity <= At(t) /\ At(t) < W
      /\ At(t) \in 0 .. MaxItems
      /\ pc[t] = "pop_take" => At(t) < R
  BY <1>0, <1>2, <1>3, Places DEF Where, Stands, Writing, Taking
<1>5. R' = R /\ W' = W
  BY <1>2 DEF R, W
<1>6. pc'[t] = l /\ \A u \in Threads : (u # t => pc'[u] = pc[u] /\ item'[u] = item[u]) /\ At(u)' = At(u)
  BY <1>0, <1>2 DEF At, Types
<1>7. Extra' = Extra /\ Extra \in {0, 1} /\ (NoAdvancer <=> Extra = 0)
  <2>1. NoAdvancer' <=> NoAdvancer
    BY <1>2, <1>6 DEF NoAdvancer
  <2> QED
    BY <2>1, <1>1 DEF Shown
<1>8. ASSUME NEW n \in R .. W - 1, n # At(t) PROVE Held(n)' = Held(n)
  <2>0. n \in 0 .. MaxItems
    BY <1>0
  <2>1. \A u \in Threads : (pc'[u] \in Holding /\ At(u)' = n) <=> (pc[u] \in Holding /\ At(u) = n)
    BY <1>2, <1>6, <1>8 DEF Holding
  <2>2. \A u \in Threads : pc[u] \in Holding /\ At(u) = n => item'[u] = item[u]
    BY <1>6, <1>8
  <2>3. Ix(n) # Ix(At(t))
    BY <1>0, <1>4, <1>8, IxDiffer
  <2>4. value'[Ix(n)] = value[Ix(n)]
    BY <2>0, <2>3, <1>0, <1>2, <1>4, PosIndex DEF Types
  <2> QED
    BY <2>0, <2>1, <2>2, <2>4, <1>1, HeldKept
<1>9. ASSUME ~NoAdvancer PROVE Held(W)' = Held(W)
  <2>1. PICK u \in Threads : pc[u] = "push_advance" /\ At(u) = W /\ u # t
    BY <1>0, <1>2, <1>9 DEF NoAdvancer, Where, Stands
  <2>2. PICK w \in 0 .. MaxItems : w = W
    BY <1>0
  <2>3. \A x \in Threads : (pc'[x] \in Holding /\ At(x)' = w) <=> (pc[x] \in Holding /\ At(x) = w)
    BY <2>2, <1>0, <1>2, <1>4, <1>6 DEF Holding
  <2>4. \A x \in Threads : pc[x] \in Holding /\ At(x) = w => item'[x] = item[x]
    BY <2>2, <1>0, <1>4, <1>6
  <2>5. HasHolder(w)
    BY <2>1, <2>2 DEF HasHolder, Holding
  <2>6. Held(w)' = Held(w)
    BY <2>3, <2>4, <2>5, <1>1, HeldKept
  <2> QED
    BY <2>2, <2>6, <1>5
<1>10. ASSUME pc[t] # "pop_take" PROVE Held(At(t))' = Held(At(t))
  <2>1. PICK n \in 0 .. MaxItems : n = At(t)
    BY <1>4
  <2>2. Held(n) = item[t]
    BY <2>1, <1>1, <1>2, <1>10 DEF Shown, Holding
  <2>3. ~HasHolder(n)'
    <3> SUFFICES ASSUME NEW u \in Threads, pc'[u] \in Holding, At(u)' = n PROVE FALSE
      BY DEF HasHolder
    <3>1. u # t /\ pc[u] \in Holding /\ At(u) = At(t)
      BY <2>1, <1>2, <1>6 DEF Holding
    <3>2. pc[u] # "push_advance"
      BY <3>1, <1>0, <1>4 DEF Where, Stands
    <3> QED
      BY <3>1, <3>2, <1>0, <1>2, <1>10 DEF Alone, Writing, Holding
  <2>4. Held(n)' = value'[Ix(n)]
    BY <2>3, <1>1 DEF Shown
  <2>5. value'[Ix(n)] = item[t]
    BY <2>1, <1>0, <1>2, <1>4, <1>10 DEF Types
  <2>6. Held(n)' = Held(n)
    BY <2>2, <2>4, <2>5
  <2> QED
    BY <2>1, <2>6, <1>6
<1>11. PICK r \in Int, m \in Nat, w \in Int, a \in Int : r = R /\ m = W - R + Extra /\ w = W /\ a = At(t)
  <2>1. W - R + Extra \in Nat
    BY <1>0, <1>7
  <2> QED
    BY <2>1, <1>0, <1>4
<1>12. ASSUME NEW n \in r .. r + m - 1 PROVE Held(n)' = Held(n)
  <2>1. CASE n = a
    <3>1. pc[t] # "pop_take"
      BY <2>1, <1>0, <1>4, <1>11
    <3>2. Held(At(t))' = Held(At(t)) /\ At(t)' = At(t)
      BY <3>1, <1>6, <1>10
    <3> QED
      BY <3>2, <2>1, <1>11
  <2>2. CASE n = w
    <3>1. ~NoAdvancer
      BY <2>2, <1>0, <1>7, <1>11
    <3>2. Held(W)' = Held(W)
      BY <3>1, <1>9
    <3> QED
      BY <3>2, <2>2, <1>5, <1>11
  <2>3. CASE n # a /\ n # w
    <3>1. n \in R .. W - 1
      BY <2>3, <1>0, <1>7, <1>11
    <3> QED
      BY <3>1, <2>3, <1>8, <1>11
  <2> QED
    BY <2>1, <2>2, <2>3
<1>13. QueueOfRing' = QueueOfRing
  BY <1>1, <1>5, <1>7, <1>11, <1>12, QueueKept
<1>14. CallOfThread(t)' = CallOfThread(t)
  <2>1. op[t] \notin {"none", "len"} /\ op'[t] = op[t]
    BY <1>0, <1>2 DEF Methods, Inside, PushLabels, PopLabels
  <2>2. /\ pc[t] = "push_write" => item'[t] = NoItem
        /\ pc[t] # "push_write" => item'[t] = value[Slot(t)]
    BY <1>0, <1>2 DEF Types
  <2> QED
    BY <2>1, <2>2, <1>1, <1>2, <1>6 DEF CallForm
<1>15. ASSUME NEW u \in Threads, u # t PROVE CallOfThread(u)' = CallOfThread(u)
  <2>1. /\ pc'[u] = pc[u] /\ op'[u] = op[u] /\ position'[u] = position[u] /\ item'[u] = item[u]
    BY <1>0, <1>15, OthersStay
  <2>2. ASSUME pc[u] \in {"push_advance", "push_replace", "pop_take"}
        PROVE  value'[Slot(u)] = value[Slot(u)]
    <3>1. Slot(u) # Slot(t)
      BY <1>3, <1>15, <2>2, SlotsApart
    <3>2. Slot(u) \in Slots
      BY <2>2, Places DEF Placed, Writing, Taking
    <3> QED
      BY <3>1, <3>2, <1>0, <1>2 DEF Types
  <2> QED
    BY <2>1, <2>2, CallKept
<1> QED
  BY <1>13, <1>14, <1>15, Stutters

\* push finds the ring full.
LEMMA QueuePushFull ==
    ASSUME IInv, IInv', NEW t \in Threads, Step(t), PushFull(t)
    PROVE  UNCHANGED Queue!vars \/ (t \in Producers /\ Queue!Refuse(t))
<1>0. /\ R \in Int /\ W \in Int /\ Capacity \in Nat /\ Types /\ Methods
  BY Window DEF IInv
<1>1. Shown /\ CallForm(t) /\ CallForm(t)'
  BY IsShown, CallFormsHold, CallFormsNext DEF CallForms
<1>2. PICK l \in {"push_load", "return", "push_evict"} :
        /\ pc[t] = "push_full" /\ pc' = [pc EXCEPT ![t] = l]
        /\ value' = value /\ read' = read /\ write' = write /\ op' = op /\ position' = position /\ item' = item
        /\ l = "return" => read = Oldest(t) /\ op[t] = "push"
  BY DEF PushFull, Goto, ring
<1>3. pc[t] \notin Holding /\ l \notin Holding /\ pc'[t] = l
  BY <1>0, <1>2 DEF Holding, Types
<1>4. QueueOfRing' = QueueOfRing
  BY <1>2, <1>3, QuietQueue
<1>5. \A u \in Threads : u # t => CallOfThread(u)' = CallOfThread(u)
  BY <1>0, <1>2, OthersStay, CallKept
<1>6. t \in Producers /\ op[t] \in {"push", "push_overwrite"} /\ op'[t] = op[t]
  BY <1>0, <1>2 DEF Methods, Inside, PushLabels
<1>7. CallOfThread(t) = [op |-> op[t], item |-> item[t], done |-> FALSE]
  BY <1>1, <1>2, <1>6 DEF CallForm, Trying
<1>8. CASE l # "return"
  <2>1. CallOfThread(t)' = CallOfThread(t)
    <3>1. CallOfThread(t)' = [op |-> op'[t], item |-> item'[t], done |-> FALSE]
      BY <1>1, <1>2, <1>3, <1>6, <1>8 DEF CallForm, Trying
    <3> QED
      BY <3>1, <1>2, <1>6, <1>7
  <2> QED
    BY <2>1, <1>4, <1>5, Stutters
<1>9. CASE l = "return"
  <2>1. R = W - Capacity /\ NoAdvancer
    BY <1>2, <1>9, FullRing
  <2>2. Len(QueueOfRing) = Capacity
    BY <2>1, <1>0, <1>1 DEF Shown
  <2>3. CallOfThread(t)' = [op |-> CallOfThread(t).op, item |-> item[t], done |-> TRUE]
    BY <1>1, <1>2, <1>3, <1>6, <1>7, <1>9 DEF CallForm
  <2>4. PICK x : x = item[t]
    OBVIOUS
  <2>5. t \in Producers \cup Consumers
    BY <1>6
  <2>6. Queue!Answer(t, x)
    BY <2>3, <2>4, <2>5, <1>5, Answers
  <2>7. Queue!Pending(t, {"push"})
    BY <2>5, <1>2, <1>7, <1>9 DEF Queue!Pending
  <2> QED
    BY <2>2, <2>4, <2>5, <2>6, <2>7, <1>4, <1>6, <1>7 DEF Queue!Refuse
<1> QED
  BY <1>8, <1>9

\* pop finds the ring empty.
LEMMA QueuePopEmpty ==
    ASSUME IInv, IInv', NEW t \in Threads, Step(t), PopEmpty(t)
    PROVE  UNCHANGED Queue!vars \/ (t \in Consumers /\ Queue!FindEmpty(t))
<1>0. /\ R \in Int /\ W \in Int /\ R <= W /\ Capacity \in Nat /\ Types /\ Methods /\ Where
  BY Window DEF IInv
<1>1. Shown /\ CallForm(t) /\ CallForm(t)'
  BY IsShown, CallFormsHold, CallFormsNext DEF CallForms
<1>2. PICK l \in {"pop_load", "return"} :
        /\ pc[t] = "pop_empty" /\ pc' = [pc EXCEPT ![t] = l]
        /\ value' = value /\ read' = read /\ write' = write /\ op' = op /\ position' = position /\ item' = item
        /\ l = "return" => write = position[t]
  BY DEF PopEmpty, Goto, ring
<1>3. pc[t] \notin Holding /\ l \notin Holding /\ pc'[t] = l
  BY <1>0, <1>2 DEF Holding, Types
<1>4. QueueOfRing' = QueueOfRing
  BY <1>2, <1>3, QuietQueue
<1>5. \A u \in Threads : u # t => CallOfThread(u)' = CallOfThread(u)
  BY <1>0, <1>2, OthersStay, CallKept
<1>6. t \in Consumers /\ op[t] = "pop" /\ op'[t] = op[t] /\ item[t] = NoItem
  BY <1>0, <1>2 DEF Methods, Inside, PopLabels
<1>7. CallOfThread(t) = [op |-> op[t], item |-> item[t], done |-> FALSE]
  BY <1>1, <1>2, <1>6 DEF CallForm, Trying
<1>8. CASE l # "return"
  <2>1. CallOfThread(t)' = CallOfThread(t)
    <3>1. CallOfThread(t)' = [op |-> op'[t], item |-> item'[t], done |-> FALSE]
      BY <1>1, <1>2, <1>3, <1>6, <1>8 DEF CallForm, Trying
    <3> QED
      BY <3>1, <1>2, <1>6, <1>7
  <2> QED
    BY <2>1, <1>4, <1>5, Stutters
<1>9. CASE l = "return"
  <2>1. At(t) = W
    BY <1>2, <1>9 DEF At, W
  <2>2. R = W /\ NoAdvancer
    BY <2>1, <1>0, <1>2 DEF Where, Stands
  <2>3. QueueOfRing = <<>>
    <3>1. QueueOfRing \in Seq(Values) /\ Len(QueueOfRing) = 0
      BY <2>2, <1>0, <1>1 DEF Shown
    <3> QED
      BY <3>1, EmptySeq
  <2>4. CallOfThread(t)' = [op |-> CallOfThread(t).op, item |-> NoItem, done |-> TRUE]
    BY <1>1, <1>2, <1>3, <1>6, <1>7, <1>9 DEF CallForm
  <2>5. t \in Producers \cup Consumers
    BY <1>6
  <2>6. Queue!Answer(t, NoItem)
    BY <2>4, <2>5, <1>5, Answers
  <2>7. Queue!Pending(t, {"pop"})
    BY <2>5, <1>6, <1>7 DEF Queue!Pending
  <2> QED
    BY <2>3, <2>6, <2>7, <1>4, <1>6 DEF Queue!FindEmpty
<1> QED
  BY <1>8, <1>9

\* The steps that the queue does not see.
LEMMA QueueQuiet ==
    ASSUME IInv, IInv', NEW t \in Threads, Step(t),
           \/ PushLoad(t) \/ PushStamp(t) \/ PushClaimFails(t) \/ PushPublish(t)
           \/ (PushEvict(t) /\ read # Oldest(t))
           \/ PopLoad(t) \/ PopStamp(t) \/ PopClaimFails(t) \/ PopRelease(t)
           \/ LenRead(t) \/ LenWrite(t) \/ LenCheck(t)
    PROVE  UNCHANGED Queue!vars
<1>0. Types /\ Methods
  BY DEF IInv
<1>1. CallForm(t) /\ CallForm(t)'
  BY CallFormsHold, CallFormsNext DEF CallForms
<1>2. /\ value' = value /\ read' = read /\ write' = write /\ op' = op /\ item' = item
      /\ pc' = [pc EXCEPT ![t] = pc'[t]]
  BY <1>0 DEF PushLoad, PushStamp, PushClaimFails, PushPublish, PushEvict, PopLoad, PopStamp, PopClaimFails,
     PopRelease, LenRead, LenWrite, LenCheck, Goto, ring, Types
<1>3. \/ op[t] = "len" /\ pc[t] \notin Holding /\ pc'[t] \notin Holding
      \/ /\ op[t] \in {"push", "push_overwrite", "pop"}
         /\ pc[t] \in Trying \cup {"pop_load", "pop_stamp", "pop_claim", "pop_empty"}
         /\ pc'[t] \in Trying \cup {"pop_load", "pop_stamp", "pop_claim", "pop_empty"}
      \/ /\ op[t] \in {"push", "push_overwrite", "pop"}
         /\ pc[t] \in {"push_publish", "pop_release"} /\ pc'[t] = "return"
  <2>0. Inside(t)
    BY <1>0 DEF Methods
  <2>1. CASE PushLoad(t) \/ PushStamp(t) \/ PushClaimFails(t) \/ PushPublish(t) \/ (PushEvict(t) /\ read # Oldest(t))
    BY <2>0, <2>1, <1>0 DEF PushLoad, PushStamp, PushClaimFails, PushPublish, PushEvict, Goto, Types, Trying,
       Inside, PushLabels
  <2>2. CASE PopLoad(t) \/ PopStamp(t) \/ PopClaimFails(t) \/ PopRelease(t)
    BY <2>0, <2>2, <1>0 DEF PopLoad, PopStamp, PopClaimFails, PopRelease, Goto, Types, Inside, PopLabels
  <2>3. CASE LenRead(t) \/ LenWrite(t) \/ LenCheck(t)
    BY <2>0, <2>3, <1>0 DEF LenRead, LenWrite, LenCheck, Goto, Types, Inside, LenLabels, Holding
  <2> QED
    BY <2>1, <2>2, <2>3
<1>4. pc[t] \notin Holding /\ pc'[t] \notin Holding
  BY <1>3 DEF Holding, Trying
<1>5. \A u \in Threads : u # t => position'[u] = position[u] /\ item'[u] = item[u]
  BY <1>0, OthersStay
<1>6. PICK l : l = pc'[t]
  OBVIOUS
<1>7. QueueOfRing' = QueueOfRing
  BY <1>2, <1>4, <1>5, <1>6, QuietQueue
<1>8. \A u \in Threads : u # t => CallOfThread(u)' = CallOfThread(u)
  BY <1>0, <1>2, OthersStay, CallKept
<1>9. CallOfThread(t)' = CallOfThread(t)
  BY <1>1, <1>2, <1>3 DEF CallForm
<1> QED
  BY <1>7, <1>8, <1>9, Stutters

LEMMA QueueReturn ==
    ASSUME IInv, IInv', NEW t \in Threads, Step(t), Return(t)
    PROVE  UNCHANGED Queue!vars \/ (t \in Producers \cup Consumers /\ Queue!Return(t))
<1>0. Types /\ Methods
  BY DEF IInv
<1>1. CallForm(t) /\ CallForm(t)'
  BY CallFormsHold, CallFormsNext DEF CallForms
<1>2. /\ pc[t] = "return" /\ pc' = [pc EXCEPT ![t] = "idle"] /\ op'[t] = "none"
      /\ value' = value /\ read' = read /\ write' = write
  BY <1>0 DEF Return, Goto, ring, Types
<1>3. pc[t] \notin Holding /\ "idle" \notin Holding
  BY <1>2 DEF Holding
<1>4. \A u \in Threads : u # t => position'[u] = position[u] /\ item'[u] = item[u]
  BY <1>0, OthersStay
<1>5. QueueOfRing' = QueueOfRing
  BY <1>2, <1>3, <1>4, QuietQueue
<1>6. \A u \in Threads : u # t => CallOfThread(u)' = CallOfThread(u)
  BY <1>0, <1>2, OthersStay, CallKept
<1>7. CallOfThread(t)' = [op |-> "none", item |-> NoItem, done |-> FALSE]
  BY <1>1, <1>2 DEF CallForm
<1>8. CASE op[t] \in {"none", "len"}
  <2>1. CallOfThread(t)' = CallOfThread(t)
    BY <1>1, <1>7, <1>8 DEF CallForm
  <2> QED
    BY <2>1, <1>5, <1>6, Stutters
<1>9. CASE op[t] \notin {"none", "len"}
  <2>1. t \in Producers \cup Consumers
    BY <1>0, <1>9 DEF Types, Methods, Inside
  <2>2. CallOfThread(t).done
    BY <1>1, <1>2, <1>9 DEF CallForm
  <2> QED
    BY <2>1, <2>2, <1>5, <1>6, <1>7 DEF Queue!Return, Queue!Idle, Threads
<1> QED
  BY <1>8, <1>9

LEMMA QueueInvoke ==
    ASSUME IInv, IInv', Invoke
    PROVE  [Queue!Next]_(Queue!vars)
<1>0. Types /\ Methods
  BY DEF IInv
<1>1. PICK t \in Threads, o \in {"push", "push_overwrite", "pop", "len"}, l \in {"push_load", "pop_load", "len_read"} :
        /\ pc[t] = "idle" /\ pc' = [pc EXCEPT ![t] = l] /\ op' = [op EXCEPT ![t] = o]
        /\ value' = value /\ read' = read /\ write' = write /\ position' = position
        /\ \A u \in Threads : u # t => item'[u] = item[u]
        /\ o \in {"push", "push_overwrite"} => t \in Producers /\ l = "push_load" /\ item'[t] \in Items
        /\ o = "pop" => t \in Consumers /\ l = "pop_load" /\ item'[t] = item[t]
  <2>1. ASSUME NEW t \in Producers, NEW o \in {"push", "push_overwrite"}, CallPush(t, o)
        PROVE  /\ t \in Threads /\ pc[t] = "idle" /\ pc' = [pc EXCEPT ![t] = "push_load"] /\ op' = [op EXCEPT ![t] = o]
               /\ value' = value /\ read' = read /\ write' = write /\ position' = position
               /\ \A u \in Threads : u # t => item'[u] = item[u]
               /\ item'[t] \in Items
    BY <2>1, <1>0, Sizes DEF CallPush, Goto, ring, Types, Threads, Items
  <2>2. CASE \E t \in Producers, o \in {"push", "push_overwrite"} : CallPush(t, o)
    BY <2>1, <2>2
  <2>3. CASE \E t \in Consumers : Call(t, "pop", "pop_load")
    BY <2>3 DEF Call, Goto, ring, Threads
  <2>4. CASE \E t \in Observers : Call(t, "len", "len_read")
    BY <2>4 DEF Call, Goto, ring, Threads
  <2> QED
    BY <2>2, <2>3, <2>4 DEF Invoke
<1>2. CallForm(t) /\ CallForm(t)'
  BY CallFormsHold, CallFormsNext DEF CallForms
<1>3. pc[t] \notin Holding /\ l \notin Holding
  BY <1>1 DEF Holding
<1>4. QueueOfRing' = QueueOfRing
  BY <1>1, <1>3, QuietQueue
<1>5. ASSUME NEW u \in Threads, u # t PROVE CallOfThread(u)' = CallOfThread(u)
  <2>1. pc'[u] = pc[u] /\ op'[u] = op[u] /\ item'[u] = item[u]
    BY <1>0, <1>1, <1>5 DEF Types
  <2> QED
    BY <2>1, <1>1, CallKept
<1>6. op[t] = "none" /\ item[t] = NoItem /\ op'[t] = o /\ pc'[t] = l
  BY <1>0, <1>1 DEF Types, Methods, Inside
<1>7. CallOfThread(t) = [op |-> "none", item |-> NoItem, done |-> FALSE]
  BY <1>2, <1>6 DEF CallForm
<1>8. CASE o = "len"
  <2>1. CallOfThread(t)' = CallOfThread(t)
    BY <1>2, <1>6, <1>7, <1>8 DEF CallForm
  <2>2. UNCHANGED Queue!vars
    BY <2>1, <1>4, <1>5, Stutters
  <2> QED
    BY <2>2
<1>9. CASE o # "len"
  <2>1. PICK x : x = item'[t]
    OBVIOUS
  <2>2. CallOfThread(t)' = [op |-> o, item |-> x, done |-> FALSE]
    BY <2>1, <1>1, <1>2, <1>6, <1>9 DEF CallForm, Trying
  <2>3. t \in Producers \cup Consumers
    BY <1>1, <1>9
  <2>4. Queue!Invoke(t, Queue!Called(o, x))
    BY <2>2, <2>3, <1>4, <1>5, <1>7 DEF Queue!Invoke, Queue!Called, Queue!Idle, Threads
  <2>5. CASE o = "pop"
    BY <2>1, <2>4, <2>5, <1>1, <1>6 DEF Queue!Next
  <2>6. CASE o \in {"push", "push_overwrite"}
    <3>1. t \in Producers /\ x \in Items
      BY <2>1, <2>6, <1>1
    <3> QED
      BY <3>1, <2>4, <2>6 DEF Queue!Next
  <2> QED
    BY <2>5, <2>6, <1>9
<1> QED
  BY <1>8, <1>9

LEMMA QueueStep == IInv /\ IInv' /\ [Next]_vars => [Queue!Next]_(Queue!vars)
<1> SUFFICES ASSUME IInv, IInv', [Next]_vars PROVE [Queue!Next]_(Queue!vars)
  OBVIOUS
<1>1. CASE Invoke
  BY <1>1, QueueInvoke
<1>2. ASSUME NEW t \in Threads, Step(t) PROVE [Queue!Next]_(Queue!vars)
  <2>1. CASE PushClaim(t)
    BY <1>2, <2>1, QueuePushClaim DEF Queue!Next
  <2>2. CASE PushEvict(t) /\ read = Oldest(t)
    BY <1>2, <2>2, QueueEvict DEF Queue!Next
  <2>3. CASE PopClaim(t)
    BY <1>2, <2>3, QueuePopClaim DEF Queue!Next
  <2>4. CASE PushFull(t)
    BY <1>2, <2>4, QueuePushFull DEF Queue!Next
  <2>5. CASE PopEmpty(t)
    BY <1>2, <2>5, QueuePopEmpty DEF Queue!Next
  <2>6. CASE PushAdvance(t)
    BY <1>2, <2>6, QueueAdvance
  <2>7. CASE PushWrite(t) \/ PushReplace(t) \/ PopTake(t)
    BY <1>2, <2>7, QueueAccess
  <2>8. CASE Return(t)
    BY <1>2, <2>8, QueueReturn DEF Queue!Next
  <2>9. CASE \/ PushLoad(t) \/ PushStamp(t) \/ PushClaimFails(t) \/ PushPublish(t)
             \/ (PushEvict(t) /\ read # Oldest(t))
             \/ PopLoad(t) \/ PopStamp(t) \/ PopClaimFails(t) \/ PopRelease(t)
             \/ LenRead(t) \/ LenWrite(t) \/ LenCheck(t)
    BY <1>2, <2>9, QueueQuiet
  <2> QED
    BY <1>2, <2>1, <2>2, <2>3, <2>4, <2>5, <2>6, <2>7, <2>8, <2>9 DEF Step
<1>3. CASE UNCHANGED vars
  <2>1. /\ stamp' = stamp /\ value' = value /\ read' = read /\ write' = write /\ pc' = pc /\ op' = op
        /\ position' = position /\ item' = item
    BY <1>3 DEF vars, ring, local
  <2>2. QueueOfRing' = QueueOfRing
    BY <2>1 DEF QueueOfRing, Length, Ahead, Evicting, ItemAt
  <2>3. \A u \in Threads : CallOfThread(u)' = CallOfThread(u)
    BY <2>1, CallKept
  <2> QED
    BY <2>2, <2>3, Stutters
<1> QED
  BY <1>1, <1>2, <1>3 DEF Next

\* Concurrent calls of push, push_overwrite and pop on one ring are a sequence
\* of calls on a bounded queue, each taking effect at one instant of it: items
\* come out once and in the order in which they went in, a push fails or
\* displaces the oldest item only when the queue is full, and a pop finds
\* nothing only when it is empty.
THEOREM RingIsAQueue == Safety => ImplementsQueue
<1>1. Init => Queue!Init
  <2> SUFFICES ASSUME Init PROVE Queue!Init
    OBVIOUS
  <2>1. IInv
    BY InitIInv
  <2>2. Shown /\ CallForms
    BY <2>1, IsShown, CallFormsHold
  <2>3. R = W /\ NoAdvancer
    BY DEF Init, R, W, NoAdvancer
  <2>4. QueueOfRing = <<>>
    <3>1. QueueOfRing \in Seq(Values) /\ Len(QueueOfRing) = 0
      BY <2>1, <2>2, <2>3, Window DEF Shown
    <3> QED
      BY <3>1, EmptySeq
  <2>5. \A t \in Threads : CallOfThread(t) = [op |-> "none", item |-> NoItem, done |-> FALSE]
    BY <2>2 DEF Init, CallForms, CallForm
  <2> QED
    BY <2>4, <2>5 DEF Queue!Init, Queue!Idle, Threads
<1>2. IInv /\ IInv' /\ [Next]_vars => [Queue!Next]_(Queue!vars)
  BY QueueStep
<1> QED
  BY <1>1, <1>2, Invariance, PTL DEF Safety, ImplementsQueue, Queue!Spec

=============================================================================
