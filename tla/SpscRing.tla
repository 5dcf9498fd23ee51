--------------------------------- MODULE SpscRing ---------------------------------
(***************************************************************************)
(* The ring buffer of src/spsc.rs (Ring): slots with a stamp each, a read  *)
(* and a write cursor, and the methods push, pop and len.                  *)
(*                                                                         *)
(* One action per atomic operation and per access of a slot's value.       *)
(* Every method takes &self, so several threads may push, pop and count    *)
(* at once through a shared SpscProducer or SpscConsumer.  Memory is       *)
(* sequentially consistent: both cursors are accessed with SeqCst only, a  *)
(* value is written before the Release store of its stamp and read after   *)
(* the Acquire load that saw it.                                           *)
(***************************************************************************)
EXTENDS Integers, Sequences, FiniteSets

CONSTANTS
    Producers,  \* threads that call push or push_overwrite
    Consumers,  \* threads that call pop
    Observers,  \* threads that call buffered_count
    NoItem,     \* a slot without a value, and None
    Capacity,   \* slots.len()
    Width,      \* bits of a usize
    Start,      \* both cursors of a ring that has gone round Start / Lap times
    MaxItems    \* bound: the number of items that are ever pushed

Threads == Producers \cup Consumers \cup Observers
Items == 1 .. MaxItems

Word == 2 ^ Width
Wrap(n) == n % Word

\* capacity.next_power_of_two() * 2
Lap == 2 * (CHOOSE p \in {2 ^ k : k \in 0 .. Width} : Capacity <= p /\ p < 2 * Capacity)

\* The positions of a word are whole laps.  They must not come round while a
\* thread holds an old one, nor may the positions a lap before or after it.
ASSUME RingAssumption ==
    /\ Capacity \in Nat \ {0} /\ Width \in Nat /\ MaxItems \in Nat \ {0}
    /\ Lap \in Nat /\ Lap % 2 = 0 /\ Lap >= 2 * Capacity
    /\ Word \in Nat \ {0} /\ Word % Lap = 0
    /\ Start \in 0 .. Word - 1 /\ Start % Lap = 0
    /\ MaxItems + Capacity <= (Word \div Lap) * Capacity
    /\ NoItem \notin Items

VARIABLES
    stamp, value,   \* slots[i].stamp and slots[i].value, by index
    read, write,    \* the cursors
    pc,             \* pc[t]: where t is in a method
    op,             \* op[t]: the method
    position,       \* position[t]: the local of that name (len: the local read)
    snapshot,       \* snapshot[t]: len's local write, then the count it returns
    item,           \* item[t]: the item given to push, then what the method returns
    made,           \* number of items pushed so far
    sizes           \* history: what the ring held at the instants since t called len

ring == <<stamp, value, read, write>>
local == <<pc, op, position, snapshot, item>>
vars == <<ring, local, made, sizes>>

-----------------------------------------------------------------------------
(* Positions                                                               *)

Index(p) == (p % Lap) \div 2

\* Altered form: positions start over in the same lap.
NextPositionSameLap(p) ==
    IF Index(p) + 1 = Capacity
    THEN p - (p % Lap)
    ELSE Wrap(p + 2)

\* Ring::next
NextPosition(p) ==
    IF Index(p) + 1 = Capacity
    THEN Wrap((p - (p % Lap)) + Lap)
    ELSE Wrap(p + 2)

\* The number of positions from p to q, and the n-th position after p.
Ordinal(p) == (p \div Lap) * Capacity + Index(p)
Distance(p, q) == (Ordinal(q) - Ordinal(p)) % ((Word \div Lap) * Capacity)
Later(p, n) ==
    LET o == Ordinal(p) + n
    IN  Wrap((o \div Capacity) * Lap + 2 * (o % Capacity))

\* How far the write cursor is ahead of the read cursor.
Ahead == Distance(read, write)

\* The producer that has advanced the read cursor over the oldest item and not
\* yet the write cursor: its item is in the queue already.
Evicting == {t \in Producers : pc[t] = "push_advance"}

\* The number of items held: one more than the cursors show during an eviction.
Length == Ahead + Cardinality(Evicting)

\* What len computes from its two locals.
Count(r, w) ==
    IF r = w THEN 0
    ELSE IF Index(w) > Index(r) THEN Index(w) - Index(r)
    ELSE Capacity - Index(r) + Index(w)

Init ==
    /\ stamp = [i \in 0 .. Capacity - 1 |-> Start + 2 * i]
    /\ value = [i \in 0 .. Capacity - 1 |-> NoItem]
    /\ read = Start
    /\ write = Start
    /\ pc = [t \in Threads |-> "idle"]
    /\ op = [t \in Threads |-> "none"]
    /\ position = [t \in Threads |-> 0]
    /\ snapshot = [t \in Threads |-> 0]
    /\ item = [t \in Threads |-> NoItem]
    /\ made = 0
    /\ sizes = [t \in Threads |-> {}]

\* The idiom of every step of t: go to label l, keeping the locals.
Goto(t, l) == pc' = [pc EXCEPT ![t] = l]

Slot(t) == Index(position[t])
Oldest(t) == Wrap(position[t] - Lap)

-----------------------------------------------------------------------------
(* push                                                                    *)

CallPush(t, o) ==
    /\ pc[t] = "idle"
    /\ made < MaxItems
    /\ made' = made + 1
    /\ item' = [item EXCEPT ![t] = made + 1]
    /\ op' = [op EXCEPT ![t] = o]
    /\ Goto(t, "push_load")
    /\ UNCHANGED <<ring, position, snapshot>>

\* self.write.load, before the loop and at the end of each turn.
PushLoad(t) ==
    /\ pc[t] = "push_load"
    /\ position' = [position EXCEPT ![t] = write]
    /\ Goto(t, "push_stamp")
    /\ UNCHANGED <<ring, op, snapshot, item, made>>

\* slot.stamp.load: the slot is free, holds the item of the last lap, or
\* another thread is at work and this one spins.
PushStamp(t) ==
    /\ pc[t] = "push_stamp"
    /\ Goto(t, IF stamp[Slot(t)] = position[t] THEN "push_claim"
               ELSE IF stamp[Slot(t)] = Wrap(Oldest(t) + 1) THEN "push_full"
               ELSE "push_load")
    /\ UNCHANGED <<ring, op, position, snapshot, item, made>>

\* compare_exchange_weak on the write cursor
PushClaim(t) ==
    /\ pc[t] = "push_claim"
    /\ write = position[t]
    /\ write' = NextPosition(position[t])
    /\ Goto(t, "push_write")
    /\ UNCHANGED <<stamp, value, read, op, position, snapshot, item, made>>

\* It may fail without reason, and does when another push came first.
PushClaimFails(t) ==
    /\ pc[t] = "push_claim"
    /\ Goto(t, "push_load")
    /\ UNCHANGED <<ring, op, position, snapshot, item, made>>

PushWrite(t) ==
    /\ pc[t] = "push_write"
    /\ value' = [value EXCEPT ![Slot(t)] = item[t]]
    /\ item' = [item EXCEPT ![t] = NoItem]
    /\ Goto(t, "push_publish")
    /\ UNCHANGED <<stamp, read, write, op, position, snapshot, made>>

\* The Release store of position + 1, and return.
PushPublish(t) ==
    /\ pc[t] = "push_publish"
    /\ stamp' = [stamp EXCEPT ![Slot(t)] = Wrap(position[t] + 1)]
    /\ Goto(t, "return")
    /\ UNCHANGED <<value, read, write, op, position, snapshot, item, made>>

\* Altered form: full is read off the stamp alone, without the read cursor.
PushFullByStamp(t) ==
    /\ pc[t] = "push_full"
    /\ Goto(t, IF op[t] = "push" THEN "return" ELSE "push_evict")
    /\ UNCHANGED <<ring, op, position, snapshot, item, made>>

\* self.read.load == oldest: the ring is full; push gives up, push_overwrite evicts.
PushFull(t) ==
    /\ pc[t] = "push_full"
    /\ Goto(t, IF read # Oldest(t) THEN "push_load"
               ELSE IF op[t] = "push" THEN "return" ELSE "push_evict")
    /\ UNCHANGED <<ring, op, position, snapshot, item, made>>

\* compare_exchange of the read cursor: a pop may have taken the oldest item.
PushEvict(t) ==
    /\ pc[t] = "push_evict"
    /\ IF read = Oldest(t)
       THEN read' = NextPosition(Oldest(t)) /\ Goto(t, "push_advance")
       ELSE read' = read /\ Goto(t, "push_load")
    /\ UNCHANGED <<stamp, value, write, op, position, snapshot, item, made>>

PushAdvance(t) ==
    /\ pc[t] = "push_advance"
    /\ write' = NextPosition(position[t])
    /\ Goto(t, "push_replace")
    /\ UNCHANGED <<stamp, value, read, op, position, snapshot, item, made>>

PushReplace(t) ==
    /\ pc[t] = "push_replace"
    /\ item' = [item EXCEPT ![t] = value[Slot(t)]]
    /\ value' = [value EXCEPT ![Slot(t)] = item[t]]
    /\ Goto(t, "push_publish")
    /\ UNCHANGED <<stamp, read, write, op, position, snapshot, made>>

-----------------------------------------------------------------------------
(* pop                                                                     *)

Call(t, o, l) ==
    /\ pc[t] = "idle"
    /\ op' = [op EXCEPT ![t] = o]
    /\ Goto(t, l)
    /\ UNCHANGED <<ring, position, snapshot, item, made>>

PopLoad(t) ==
    /\ pc[t] = "pop_load"
    /\ position' = [position EXCEPT ![t] = read]
    /\ Goto(t, "pop_stamp")
    /\ UNCHANGED <<ring, op, snapshot, item, made>>

PopStamp(t) ==
    /\ pc[t] = "pop_stamp"
    /\ Goto(t, IF stamp[Slot(t)] = Wrap(position[t] + 1) THEN "pop_claim"
               ELSE IF stamp[Slot(t)] = position[t] THEN "pop_empty"
               ELSE "pop_load")
    /\ UNCHANGED <<ring, op, position, snapshot, item, made>>

\* Altered form: a store instead of the compare-exchange.
PopClaimByStore(t) ==
    /\ pc[t] = "pop_claim"
    /\ read' = NextPosition(position[t])
    /\ Goto(t, "pop_take")
    /\ UNCHANGED <<stamp, value, write, op, position, snapshot, item, made>>

\* compare_exchange_weak on the read cursor
PopClaim(t) ==
    /\ pc[t] = "pop_claim"
    /\ read = position[t]
    /\ read' = NextPosition(position[t])
    /\ Goto(t, "pop_take")
    /\ UNCHANGED <<stamp, value, write, op, position, snapshot, item, made>>

PopClaimFails(t) ==
    /\ pc[t] = "pop_claim"
    /\ Goto(t, "pop_load")
    /\ UNCHANGED <<ring, op, position, snapshot, item, made>>

\* assume_init_read moves the value out.
PopTake(t) ==
    /\ pc[t] = "pop_take"
    /\ item' = [item EXCEPT ![t] = value[Slot(t)]]
    /\ value' = [value EXCEPT ![Slot(t)] = NoItem]
    /\ Goto(t, "pop_release")
    /\ UNCHANGED <<stamp, read, write, op, position, snapshot, made>>

\* Altered form: the slot is released for the lap that is over.
PopReleaseSameLap(t) ==
    /\ pc[t] = "pop_release"
    /\ stamp' = [stamp EXCEPT ![Slot(t)] = position[t]]
    /\ Goto(t, "return")
    /\ UNCHANGED <<value, read, write, op, position, snapshot, item, made>>

\* The Release store of position + lap, and return.
PopRelease(t) ==
    /\ pc[t] = "pop_release"
    /\ stamp' = [stamp EXCEPT ![Slot(t)] = Wrap(position[t] + Lap)]
    /\ Goto(t, "return")
    /\ UNCHANGED <<value, read, write, op, position, snapshot, item, made>>

\* self.write.load == position: the ring is empty.
PopEmpty(t) ==
    /\ pc[t] = "pop_empty"
    /\ Goto(t, IF write = position[t] THEN "return" ELSE "pop_load")
    /\ UNCHANGED <<ring, op, position, snapshot, item, made>>

-----------------------------------------------------------------------------
(* len, and return from a method                                           *)

LenRead(t) ==
    /\ pc[t] = "len_read"
    /\ position' = [position EXCEPT ![t] = read]
    /\ Goto(t, "len_write")
    /\ UNCHANGED <<ring, op, snapshot, item, made>>

LenWrite(t) ==
    /\ pc[t] = "len_write"
    /\ snapshot' = [snapshot EXCEPT ![t] = write]
    /\ Goto(t, "len_check")
    /\ UNCHANGED <<ring, op, position, item, made>>

\* Altered form: the read cursor is not looked at again.
LenUnchecked(t) ==
    /\ pc[t] = "len_check"
    /\ snapshot' = [snapshot EXCEPT ![t] = Count(position[t], snapshot[t])]
    /\ Goto(t, "return")
    /\ UNCHANGED <<ring, op, position, item, made>>

LenCheck(t) ==
    /\ pc[t] = "len_check"
    /\ IF read = position[t]
       THEN /\ snapshot' = [snapshot EXCEPT ![t] = Count(position[t], snapshot[t])]
            /\ Goto(t, "return")
       ELSE Goto(t, "len_read") /\ UNCHANGED snapshot
    /\ UNCHANGED <<ring, op, position, item, made>>

Return(t) ==
    /\ pc[t] = "return"
    /\ Goto(t, "idle")
    /\ op' = [op EXCEPT ![t] = "none"]
    /\ position' = [position EXCEPT ![t] = 0]
    /\ snapshot' = [snapshot EXCEPT ![t] = 0]
    /\ item' = [item EXCEPT ![t] = NoItem]
    /\ UNCHANGED <<ring, made>>

\* The history is kept for the threads inside len.
Moment == [items |-> Length, evictions |-> Cardinality(Evicting)]
Observe == sizes' = [t \in Threads |-> IF op'[t] = "len" THEN sizes[t] \cup {Moment'} ELSE {}]

Step(t) ==
    /\ \/ PushLoad(t) \/ PushStamp(t) \/ PushClaim(t) \/ PushClaimFails(t) \/ PushWrite(t)
       \/ PushPublish(t) \/ PushFull(t) \/ PushEvict(t) \/ PushAdvance(t) \/ PushReplace(t)
       \/ PopLoad(t) \/ PopStamp(t) \/ PopClaim(t) \/ PopClaimFails(t) \/ PopTake(t)
       \/ PopRelease(t) \/ PopEmpty(t)
       \/ LenRead(t) \/ LenWrite(t) \/ LenCheck(t)
       \/ Return(t)
    /\ Observe

Invoke ==
    /\ \/ \E t \in Producers, o \in {"push", "push_overwrite"} : CallPush(t, o)
       \/ \E t \in Consumers : Call(t, "pop", "pop_load")
       \/ \E t \in Observers : Call(t, "len", "len_read")
    /\ Observe

Next == Invoke \/ \E t \in Threads : Step(t)

\* The operating system runs every thread inside a method again and again, and
\* a weak compare-exchange that could succeed does not fail for ever.  While
\* others go on calling, that is more than the code promises: one of them may
\* win each time.  CallsReturn is about calls that the others leave in peace,
\* where the cursors come to rest and only failures without reason are left.
ThreadFairness(t) ==
    /\ WF_vars(Step(t))
    /\ SF_vars(PushClaim(t) /\ Observe)
    /\ SF_vars(PopClaim(t) /\ Observe)

Safety == Init /\ [][Next]_vars
Spec == Safety /\ \A t \in Threads : ThreadFairness(t)

-----------------------------------------------------------------------------
(* Properties                                                              *)

PushLabels == {"push_load", "push_stamp", "push_claim", "push_write", "push_publish",
               "push_full", "push_evict", "push_advance", "push_replace"}
PopLabels == {"pop_load", "pop_stamp", "pop_claim", "pop_take", "pop_release", "pop_empty"}
LenLabels == {"len_read", "len_write", "len_check"}

\* The unsafe accesses of the slots' values are exclusive and find what they
\* assume: a write finds the slot empty (it would not drop what is there), a
\* read finds a value, and no other thread accesses that slot meanwhile.
SlotAccess ==
    \A t \in Threads :
        /\ pc[t] = "push_write" => value[Slot(t)] = NoItem
        /\ pc[t] \in {"pop_take", "push_replace"} => value[Slot(t)] # NoItem
        /\ \A u \in Threads \ {t} :
              pc[t] \in {"push_write", "pop_take", "push_replace"}
              /\ pc[u] \in {"push_write", "pop_take", "push_replace"}
              => Slot(t) # Slot(u)

\* At some instant since t called len, n is what the cursors showed: the number
\* of items held then, but for the one of an eviction between its two moves.
Showed(t, n) == \E m \in sizes[t] : m.evictions \in {0, 1} /\ n = m.items - m.evictions

\* buffered_count, although it reads the two cursors one after the other,
\* returns the length of the queue that the ring stands for at some one instant
\* of the call; or one less, and only if at that instant a push_overwrite (one
\* at most) has moved the read cursor and not yet the write cursor.  So without
\* an eviction during the call the count is exact.
CountWasTrue ==
    \A t \in Threads : pc[t] = "return" /\ op[t] = "len" => Showed(t, snapshot[t])

\* From some time on u begins no further call: it stays idle or stays inside.
StopsCalling(u) == <>[](pc[u] = "idle") \/ <>[](pc[u] # "idle")

\* Every call returns if every thread keeps running and the other threads stop
\* making new calls.  (While they go on, a compare-exchange may lose to them
\* and len may see the read cursor move, again and again.)
CallsReturn ==
    \A t \in Threads :
        (\A u \in Threads \ {t} : StopsCalling(u)) => (pc[t] # "idle" ~> pc[t] = "idle")

-----------------------------------------------------------------------------
(* The ring implements LossyQueue                                          *)

\* The item at position p: in the slot, or still with the thread that owns p.
ItemAt(p) ==
    LET writers == {t \in Producers : position[t] = p
                       /\ pc[t] \in {"push_write", "push_advance", "push_replace"}}
    IN  IF writers = {} THEN value[Index(p)] ELSE item[CHOOSE t \in writers : TRUE]

QueueOfRing == [n \in 1 .. Length |-> ItemAt(Later(read, n - 1))]

\* A call takes effect at its successful compare-exchange, or at the load that
\* shows the ring full or empty; what it returns may still lie in the slot.
CallOfThread(t) ==
    LET o == op[t] IN
    IF o \in {"none", "len"} THEN [op |-> "none", item |-> NoItem, done |-> FALSE]
    ELSE CASE pc[t] = "push_write" -> [op |-> o, item |-> NoItem, done |-> TRUE]
           [] pc[t] \in {"push_advance", "push_replace", "pop_take"} ->
                [op |-> o, item |-> value[Slot(t)], done |-> TRUE]
           [] pc[t] \in {"push_publish", "pop_release", "return"} ->
                [op |-> o, item |-> item[t], done |-> TRUE]
           [] OTHER -> [op |-> o, item |-> item[t], done |-> FALSE]

Queue == INSTANCE LossyQueue
    WITH queue <- QueueOfRing,
         call <- [t \in Producers \cup Consumers |-> CallOfThread(t)]

\* Every interleaving of calls is one of an atomic queue: items come out in the
\* order they went in, once, push fails and push_overwrite displaces only when
\* the ring is full, pop returns None only when it is empty.
ImplementsQueue == Queue!Spec

-----------------------------------------------------------------------------
(* The producers alone                                                     *)

\* Only the producers are guaranteed to run: the others may be suspended for
\* good, anywhere in a method.
ProducersRunSpec == Safety /\ \A p \in Producers : ThreadFairness(p)

\* "Attempts to push an item into the ring without blocking": p's call of push
\* returns whatever the other threads do or do not do.
PushDoesNotBlock == \A p \in Producers : op[p] = "push" ~> op[p] = "none"

=============================================================================
