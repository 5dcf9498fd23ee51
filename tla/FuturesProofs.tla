------------------------------- MODULE FuturesProofs ------------------------------
(***************************************************************************)
(* Theorems about AsyncMutex, for any tasks, and about Combinators, for    *)
(* any number of children.                                                 *)
(*                                                                         *)
(* That there is one guard follows from the flag alone.  That a free lock  *)
(* is offered needs to know whose waker the unlocking task clones: the     *)
(* entries of the map are those of the waiting futures, one for each, with *)
(* the waker of its last poll (Entries).                                   *)
(*                                                                         *)
(* That the children of a sleeping combinator are armed is an invariant of *)
(* the round: those before the slot are (Armed), and whoever stops before  *)
(* the end of the round has an output and does not sleep (Fresh).          *)
(***************************************************************************)
EXTENDS Futures, TLAPS

Labels == {"idle", "poll", "pending", "holding", "wake"}

\* The types, without the bounds that the number of futures puts on the ids.
Types ==
    /\ locked \in BOOLEAN
    /\ next_waiter \in Nat
    /\ waiters \in SUBSET (Nat \X Wakers)
    /\ pc \in [Tasks -> Labels]
    /\ waiter \in [Tasks -> Nat]
    /\ current \in [Tasks -> Wakers \cup {NoWaker}]
    /\ waking \in [Tasks -> Wakers \cup {NoWaker}]
    /\ \A t \in Tasks : pc[t] \in {"poll", "pending"} => current[t] \in Wakers

\* The task u has an entry e that is up to date, or is about to renew it.
OwnsEntry(u, e) ==
    /\ waiter[u] = e[1]
    /\ pc[u] = "poll" \/ (pc[u] = "pending" /\ current[u] = e[2])

\* Ids are taken in turn and belong to one future each, and the map holds the
\* entries of the futures that wait, and no other.
Entries ==
    /\ \A t \in Tasks : waiter[t] <= next_waiter
    /\ \A t \in Tasks : waiter[t] # NoWaiter => pc[t] \in {"poll", "pending"}
    /\ \A t \in Tasks : pc[t] = "pending" => waiter[t] # NoWaiter
    /\ \A t, u \in Tasks : waiter[t] # NoWaiter /\ waiter[t] = waiter[u] => t = u
    /\ \A t \in Tasks : pc[t] = "pending" => <<waiter[t], current[t]>> \in waiters
    /\ \A e \in waiters : e[1] # NoWaiter /\ \E u \in Tasks : OwnsEntry(u, e)

IInv == Types /\ MutualExclusion /\ Entries /\ LockIsOffered

-----------------------------------------------------------------------------

\* A new Mutex is free and nobody waits.
LEMMA InitIInv == Init => IInv
<1> SUFFICES ASSUME Init PROVE IInv
  OBVIOUS
<1>1. Types
  BY DEF Init, Types, Labels, NoWaiter
<1>2. \A t \in Tasks : pc[t] = "idle" /\ waiter[t] = NoWaiter
  BY DEF Init
<1>3. MutualExclusion
  BY <1>2 DEF Init, MutualExclusion
<1>4. Entries
  BY <1>2 DEF Init, Entries, NoWaiter
<1>5. LockIsOffered
  BY <1>2 DEF LockIsOffered
<1> QED
  BY <1>1, <1>3, <1>4, <1>5 DEF IInv

\* wake_first_waiter sends t home, or on its way with the waker of some entry.
LEMMA WakeFirst ==
    ASSUME Types, NEW t \in Tasks, NEW m \in SUBSET waiters, WakeFirstWaiter(t, m)
    PROVE  /\ pc' \in [Tasks -> Labels]
           /\ pc'[t] \in {"idle", "wake"}
           /\ \A u \in Tasks \ {t} : pc'[u] = pc[u]
           /\ waking' \in [Tasks -> Wakers \cup {NoWaker}]
           /\ m # {} => \E e \in m : waking'[t] = e[2]
<1>1. \A e \in m : e[2] \in Wakers
  BY DEF Types
<1>2. CASE m = {}
  BY <1>2 DEF WakeFirstWaiter, Goto, Types, Labels
<1>3. CASE m # {}
  <2>1. PICK e \in m : waking' = [waking EXCEPT ![t] = e[2]]
    BY <1>3 DEF WakeFirstWaiter
  <2>2. pc' = [pc EXCEPT ![t] = "wake"]
    BY <1>3 DEF WakeFirstWaiter, Goto
  <2> QED
    BY <1>1, <2>1, <2>2 DEF Types, Labels
<1> QED
  BY <1>2, <1>3

\* Every step keeps the types.
LEMMA TypesStep == Types /\ [Next]_vars => Types'
<1> SUFFICES ASSUME Types, [Next]_vars PROVE Types'
  OBVIOUS
<1> USE DEF Types, Labels, Goto, NoWaiter
<1>1. ASSUME NEW t \in Tasks, TryLock(t) PROVE Types'
  BY <1>1 DEF TryLock
<1>2. ASSUME NEW t \in Tasks, Unlock(t) PROVE Types'
  <2>1. WakeFirstWaiter(t, waiters)
    BY <1>2 DEF Unlock
  <2> QED
    BY <1>2, <2>1, WakeFirst DEF Unlock
<1>3. ASSUME NEW t \in Tasks, NEW w \in Wakers, BeginPoll(t, w) PROVE Types'
  BY <1>3 DEF BeginPoll, State
<1>4. ASSUME NEW t \in Tasks, PollAgain(t) PROVE Types'
  BY <1>4 DEF PollAgain, BeginPoll, State
<1>5. ASSUME NEW t \in Tasks, PollLocks(t) PROVE Types'
  BY <1>5 DEF PollLocks, Remaining
<1>6. ASSUME NEW t \in Tasks, PollWaits(t) PROVE Types'
  BY <1>6 DEF PollWaits, Remaining
<1>7. ASSUME NEW t \in Tasks, DropFuture(t) PROVE Types'
  <2>1. Remaining(t) \in SUBSET waiters
    BY DEF Remaining
  <2>2. CASE locked
    BY <1>7, <2>1, <2>2 DEF DropFuture
  <2>3. CASE ~locked
    <3>1. WakeFirstWaiter(t, Remaining(t))
      BY <1>7, <2>3 DEF DropFuture
    <3> QED
      BY <1>7, <2>1, <3>1, WakeFirst DEF DropFuture
  <2> QED
    BY <2>2, <2>3
<1>8. ASSUME NEW t \in Tasks, Wake(t) PROVE Types'
  BY <1>8 DEF Wake, State
<1>9. CASE UNCHANGED vars
  BY <1>9 DEF vars, State
<1> QED
  BY <1>1, <1>2, <1>3, <1>4, <1>5, <1>6, <1>7, <1>8, <1>9
     DEF Next, Continue, Lock, PollUnasked

\* The flag follows the guards: who finds it clear is the only one to set it.
LEMMA ExclusionStep == Types /\ MutualExclusion /\ [Next]_vars => MutualExclusion'
<1> SUFFICES ASSUME Types, MutualExclusion, [Next]_vars PROVE MutualExclusion'
  OBVIOUS
<1> USE DEF MutualExclusion, Goto
<1>1. ASSUME NEW t \in Tasks, TryLock(t) PROVE MutualExclusion'
  <2>1. CASE locked
    BY <1>1, <2>1 DEF TryLock, Types
  <2>2. CASE ~locked
    BY <1>1, <2>2 DEF TryLock, Types
  <2> QED
    BY <2>1, <2>2
<1>2. ASSUME NEW t \in Tasks, Unlock(t) PROVE MutualExclusion'
  <2>1. WakeFirstWaiter(t, waiters)
    BY <1>2 DEF Unlock
  <2>2. pc'[t] # "holding" /\ \A u \in Tasks \ {t} : pc'[u] = pc[u]
    BY <2>1, WakeFirst
  <2>3. \A u \in Tasks : pc'[u] # "holding"
    BY <1>2, <2>2 DEF Unlock
  <2>4. locked' = FALSE
    BY <1>2 DEF Unlock
  <2> QED
    BY <2>3, <2>4
<1>3. ASSUME NEW t \in Tasks, NEW w \in Wakers, pc[t] # "holding", BeginPoll(t, w)
      PROVE  MutualExclusion'
  BY <1>3 DEF BeginPoll, State, Types
<1>4. ASSUME NEW t \in Tasks, PollAgain(t) PROVE MutualExclusion'
  BY <1>4 DEF PollAgain, BeginPoll, State, Types
<1>5. ASSUME NEW t \in Tasks, PollLocks(t) PROVE MutualExclusion'
  BY <1>5 DEF PollLocks, Types
<1>6. ASSUME NEW t \in Tasks, PollWaits(t) PROVE MutualExclusion'
  BY <1>6 DEF PollWaits, Types
<1>7. ASSUME NEW t \in Tasks, DropFuture(t) PROVE MutualExclusion'
  <2>1. pc'[t] # "holding" /\ \A u \in Tasks \ {t} : pc'[u] = pc[u]
    <3>1. CASE locked
      BY <1>7, <3>1 DEF DropFuture, Types
    <3>2. CASE ~locked
      <4>1. Remaining(t) \in SUBSET waiters /\ WakeFirstWaiter(t, Remaining(t))
        BY <1>7, <3>2 DEF DropFuture, Remaining
      <4> QED
        BY <4>1, WakeFirst
    <3> QED
      BY <3>1, <3>2
  <2>2. pc[t] # "holding" /\ locked' = locked
    BY <1>7 DEF DropFuture
  <2> QED
    BY <2>1, <2>2
<1>8. ASSUME NEW t \in Tasks, Wake(t) PROVE MutualExclusion'
  BY <1>8 DEF Wake, State, Types
<1>9. CASE UNCHANGED vars
  BY <1>9 DEF vars, State
<1> QED
  BY <1>1, <1>2, <1>3, <1>4, <1>5, <1>6, <1>7, <1>8, <1>9
     DEF Next, Continue, Lock, PollUnasked

\* A task without a future leaves the entries alone, whatever it does.
LEMMA EntriesOfOthers ==
    ASSUME Types, Types', Entries, NEW t \in Tasks,
           pc[t] \notin {"poll", "pending"}, pc'[t] \notin {"poll", "pending"},
           \A u \in Tasks \ {t} : pc'[u] = pc[u],
           UNCHANGED <<waiters, waiter, current, next_waiter>>
    PROVE  Entries'
  BY DEF Entries, OwnsEntry

\* A future that leaves, with the lock or without, takes its entry along.
LEMMA EntriesWithout ==
    ASSUME Types, Types', Entries, NEW t \in Tasks,
           pc[t] \in {"poll", "pending"}, pc'[t] \notin {"poll", "pending"},
           \A u \in Tasks \ {t} : pc'[u] = pc[u],
           waiters' = Remaining(t), waiter' = [waiter EXCEPT ![t] = NoWaiter],
           UNCHANGED <<current, next_waiter>>
    PROVE  Entries'
<1>1. waiter'[t] = NoWaiter /\ \A u \in Tasks \ {t} : waiter'[u] = waiter[u]
  BY DEF Types
<1>2. \A u \in Tasks : waiter'[u] <= next_waiter'
  BY <1>1 DEF Entries, Types, NoWaiter
<1>3. \A u \in Tasks : waiter'[u] # NoWaiter => pc'[u] \in {"poll", "pending"}
  BY <1>1 DEF Entries
<1>4. \A u \in Tasks : pc'[u] = "pending" => waiter'[u] # NoWaiter
  BY <1>1 DEF Entries
<1>5. \A u, v \in Tasks : waiter'[u] # NoWaiter /\ waiter'[u] = waiter'[v] => u = v
  BY <1>1 DEF Entries
<1>6. \A u \in Tasks : pc'[u] = "pending" => <<waiter'[u], current'[u]>> \in waiters'
  <2> SUFFICES ASSUME NEW u \in Tasks, pc'[u] = "pending"
               PROVE  <<waiter'[u], current'[u]>> \in waiters'
    OBVIOUS
  <2>1. u # t /\ pc[u] = "pending"
    OBVIOUS
  <2>2. <<waiter[u], current[u]>> \in waiters /\ waiter[u] # waiter[t]
    BY <2>1 DEF Entries
  <2> QED
    BY <1>1, <2>1, <2>2 DEF Remaining
<1>7. \A e \in waiters' : e[1] # NoWaiter /\ \E u \in Tasks : OwnsEntry(u, e)'
  <2> SUFFICES ASSUME NEW e \in waiters'
               PROVE  e[1] # NoWaiter /\ \E u \in Tasks : OwnsEntry(u, e)'
    OBVIOUS
  <2>1. e \in waiters /\ e[1] # waiter[t]
    BY DEF Remaining
  <2>2. PICK u \in Tasks : OwnsEntry(u, e)
    BY <2>1 DEF Entries
  <2>3. u # t
    BY <2>1, <2>2 DEF OwnsEntry
  <2>4. OwnsEntry(u, e)'
    BY <1>1, <2>2, <2>3 DEF OwnsEntry
  <2> QED
    BY <2>1, <2>4 DEF Entries
<1> QED
  BY <1>2, <1>3, <1>4, <1>5, <1>6, <1>7 DEF Entries

\* A poll that begins makes the old waker of the entry a thing of the past.
LEMMA EntriesBeginPoll ==
    ASSUME Types, Types', Entries, NEW t \in Tasks, NEW w \in Wakers,
           pc[t] \in {"idle", "pending"}, BeginPoll(t, w)
    PROVE  Entries'
<1>1. /\ pc'[t] = "poll" /\ \A u \in Tasks \ {t} : pc'[u] = pc[u] /\ current'[u] = current[u]
      /\ UNCHANGED <<waiters, waiter, next_waiter>>
  BY DEF BeginPoll, State, Goto, Types
<1>2. \A e \in waiters' : \E u \in Tasks : OwnsEntry(u, e)'
  <2> SUFFICES ASSUME NEW e \in waiters PROVE \E u \in Tasks : OwnsEntry(u, e)'
    BY <1>1
  <2>1. PICK u \in Tasks : OwnsEntry(u, e)
    BY DEF Entries
  <2>2. CASE u = t
    BY <1>1, <2>1, <2>2 DEF OwnsEntry
  <2>3. CASE u # t
    BY <1>1, <2>1, <2>3 DEF OwnsEntry
  <2> QED
    BY <2>2, <2>3
<1> QED
  BY <1>1, <1>2 DEF Entries

\* A future that has to wait has the only entry with its id, which is an old
\* one or larger than all others.
LEMMA EntriesWaits ==
    ASSUME Types, Types', Entries, NEW t \in Tasks, PollWaits(t)
    PROVE  Entries'
<1> DEFINE id == waiter'[t]
<1>1. /\ pc[t] = "poll" /\ pc'[t] = "pending" /\ current' = current
      /\ \A u \in Tasks \ {t} : pc'[u] = pc[u] /\ waiter'[u] = waiter[u]
      /\ waiters' = Remaining(t) \cup {<<id, current[t]>>}
  BY DEF PollWaits, Goto, Types
<1>2. /\ waiter[t] = NoWaiter => id = next_waiter + 1 /\ next_waiter' = next_waiter + 1
      /\ waiter[t] # NoWaiter => id = waiter[t] /\ next_waiter' = next_waiter
  BY DEF PollWaits, Types
<1>3. id # NoWaiter /\ id <= next_waiter' /\ next_waiter <= next_waiter'
  BY <1>2 DEF Types, Entries, NoWaiter
<1>4. \A u \in Tasks \ {t} : waiter[u] <= next_waiter /\ waiter[u] # id
  <2> TAKE u \in Tasks \ {t}
  <2>1. waiter[u] \in Nat /\ waiter[u] <= next_waiter /\ next_waiter \in Nat
    BY DEF Types, Entries
  <2>2. CASE waiter[t] = NoWaiter
    BY <1>2, <2>1, <2>2
  <2>3. CASE waiter[t] # NoWaiter
    BY <1>2, <2>1, <2>3 DEF Entries
  <2> QED
    BY <2>2, <2>3
<1>5. \A u \in Tasks : waiter'[u] <= next_waiter'
  BY <1>1, <1>3, <1>4 DEF Types
<1>6. \A u \in Tasks : waiter'[u] # NoWaiter => pc'[u] \in {"poll", "pending"}
  BY <1>1 DEF Entries
<1>7. \A u \in Tasks : pc'[u] = "pending" => waiter'[u] # NoWaiter
  BY <1>1, <1>3 DEF Entries
<1>8. \A u, v \in Tasks : waiter'[u] # NoWaiter /\ waiter'[u] = waiter'[v] => u = v
  BY <1>1, <1>4 DEF Entries
<1>9. \A u \in Tasks : pc'[u] = "pending" => <<waiter'[u], current'[u]>> \in waiters'
  <2> SUFFICES ASSUME NEW u \in Tasks, pc'[u] = "pending", u # t
               PROVE  <<waiter'[u], current'[u]>> \in waiters'
    BY <1>1
  <2>1. pc[u] = "pending" /\ waiter'[u] = waiter[u]
    BY <1>1
  <2>2. <<waiter[u], current[u]>> \in waiters /\ waiter[u] # waiter[t]
    BY <2>1 DEF Entries
  <2> QED
    BY <1>1, <2>1, <2>2 DEF Remaining
<1>10. \A e \in waiters' : e[1] # NoWaiter /\ \E u \in Tasks : OwnsEntry(u, e)'
  <2> SUFFICES ASSUME NEW e \in waiters'
               PROVE  e[1] # NoWaiter /\ \E u \in Tasks : OwnsEntry(u, e)'
    OBVIOUS
  <2>1. CASE e = <<id, current[t]>>
    <3>1. e[1] = id /\ e[2] = current'[t]
      BY <1>1, <2>1
    <3>2. OwnsEntry(t, e)'
      BY <1>1, <3>1 DEF OwnsEntry
    <3> QED
      BY <1>3, <3>1, <3>2
  <2>2. CASE e \in Remaining(t)
    <3>1. e \in waiters /\ e[1] # waiter[t]
      BY <2>2 DEF Remaining
    <3>2. PICK u \in Tasks : OwnsEntry(u, e)
      BY <3>1 DEF Entries
    <3>3. u # t
      BY <3>1, <3>2 DEF OwnsEntry
    <3>4. OwnsEntry(u, e)'
      BY <1>1, <3>2, <3>3 DEF OwnsEntry
    <3> QED
      BY <3>1, <3>4 DEF Entries
  <2> QED
    BY <1>1, <2>1, <2>2
<1> QED
  BY <1>5, <1>6, <1>7, <1>8, <1>9, <1>10 DEF Entries

\* A future that is dropped leaves, and wakes somebody or nobody.
LEMMA DropLeaves ==
    ASSUME Types, NEW t \in Tasks, DropFuture(t)
    PROVE  pc'[t] \in {"idle", "wake"} /\ \A u \in Tasks \ {t} : pc'[u] = pc[u]
<1>1. CASE locked
  BY <1>1 DEF DropFuture, Goto, Types
<1>2. CASE ~locked
  <2>1. Remaining(t) \in SUBSET waiters /\ WakeFirstWaiter(t, Remaining(t))
    BY <1>2 DEF DropFuture, Remaining
  <2> QED
    BY <2>1, WakeFirst
<1> QED
  BY <1>1, <1>2

\* Every step keeps the map in line with the futures.
LEMMA EntriesStep == Types /\ Types' /\ Entries /\ [Next]_vars => Entries'
<1> SUFFICES ASSUME Types, Types', Entries, [Next]_vars PROVE Entries'
  OBVIOUS
<1>1. ASSUME NEW t \in Tasks, TryLock(t) PROVE Entries'
  BY <1>1, EntriesOfOthers DEF TryLock, Goto, Types
<1>2. ASSUME NEW t \in Tasks, Unlock(t) PROVE Entries'
  <2>1. WakeFirstWaiter(t, waiters)
    BY <1>2 DEF Unlock
  <2>2. pc'[t] \in {"idle", "wake"} /\ \A u \in Tasks \ {t} : pc'[u] = pc[u]
    BY <2>1, WakeFirst
  <2> QED
    BY <1>2, <2>2, EntriesOfOthers DEF Unlock
<1>3. ASSUME NEW t \in Tasks, NEW w \in Wakers, pc[t] \in {"idle", "pending"}, BeginPoll(t, w)
      PROVE  Entries'
  BY <1>3, EntriesBeginPoll
<1>4. ASSUME NEW t \in Tasks, PollAgain(t) PROVE Entries'
  <2>1. pc[t] = "pending" /\ current[t] \in Wakers /\ BeginPoll(t, current[t])
    BY <1>4 DEF PollAgain, Types
  <2> QED
    BY <2>1, EntriesBeginPoll
<1>5. ASSUME NEW t \in Tasks, PollLocks(t) PROVE Entries'
  <2>1. pc'[t] = "holding" /\ \A u \in Tasks \ {t} : pc'[u] = pc[u]
    BY <1>5 DEF PollLocks, Goto, Types
  <2> QED
    BY <1>5, <2>1, EntriesWithout DEF PollLocks
<1>6. ASSUME NEW t \in Tasks, PollWaits(t) PROVE Entries'
  BY <1>6, EntriesWaits
<1>7. ASSUME NEW t \in Tasks, DropFuture(t) PROVE Entries'
  <2>1. pc'[t] \in {"idle", "wake"} /\ \A u \in Tasks \ {t} : pc'[u] = pc[u]
    BY <1>7, DropLeaves
  <2> QED
    BY <1>7, <2>1, EntriesWithout DEF DropFuture
<1>8. ASSUME NEW t \in Tasks, Wake(t) PROVE Entries'
  BY <1>8, EntriesOfOthers DEF Wake, State, Goto, Types
<1>9. CASE UNCHANGED vars
  BY <1>9 DEF vars, State, Entries, OwnsEntry
<1> QED
  BY <1>1, <1>2, <1>3, <1>4, <1>5, <1>6, <1>7, <1>8, <1>9
     DEF Next, Continue, Lock, PollUnasked

\* The waker that is cloned belongs to a future that waits and will look.
LEMMA WakeFirstOffers ==
    ASSUME Types, Entries, NEW t \in Tasks, NEW m \in SUBSET waiters, m # {},
           \A e \in m : e[1] # waiter[t],
           WakeFirstWaiter(t, m), current' = current
    PROVE  LockIsOffered'
<1>1. \A u \in Tasks \ {t} : pc'[u] = pc[u]
  BY WakeFirst
<1>2. PICK e \in m : waking'[t] = e[2]
  BY WakeFirst
<1>3. PICK u \in Tasks : OwnsEntry(u, e)
  BY DEF Entries
<1>4. u # t
  BY <1>3 DEF OwnsEntry
<1>5. pc'[u] = "poll" \/ (pc'[u] = "pending" /\ waking'[t] = current'[u])
  BY <1>1, <1>2, <1>3, <1>4 DEF OwnsEntry
<1> QED
  BY <1>5 DEF LockIsOffered

\* Every step leaves a free lock on offer.
LEMMA OfferedStep ==
    Types /\ Entries /\ Entries' /\ LockIsOffered /\ [Next]_vars => LockIsOffered'
<1> SUFFICES ASSUME Types, Entries, Entries', LockIsOffered, [Next]_vars PROVE LockIsOffered'
  OBVIOUS
<1>1. ASSUME NEW t \in Tasks, Unlock(t) PROVE LockIsOffered'
  <2>1. WakeFirstWaiter(t, waiters) /\ current' = current /\ waiters' = waiters
    BY <1>1 DEF Unlock
  <2>2. waiter[t] = NoWaiter
    BY <1>1 DEF Unlock, Entries
  <2>3. \A e \in waiters : e[1] # waiter[t]
    BY <2>2 DEF Entries
  <2>4. CASE waiters = {}
    <3>1. \A u \in Tasks : pc'[u] # "pending"
      BY <2>1, <2>4 DEF Entries
    <3> QED
      BY <3>1 DEF LockIsOffered
  <2>5. CASE waiters # {}
    BY <2>1, <2>3, <2>5, WakeFirstOffers
  <2> QED
    BY <2>4, <2>5
<1>2. ASSUME NEW t \in Tasks, DropFuture(t) PROVE LockIsOffered'
  <2>1. CASE locked
    BY <1>2, <2>1 DEF DropFuture, LockIsOffered
  <2>2. CASE ~locked
    <3>1. /\ WakeFirstWaiter(t, Remaining(t)) /\ current' = current
          /\ waiters' = Remaining(t)
      BY <1>2, <2>2 DEF DropFuture
    <3>2. Remaining(t) \in SUBSET waiters /\ \A e \in Remaining(t) : e[1] # waiter[t]
      BY DEF Remaining
    <3>3. CASE Remaining(t) = {}
      <4>1. \A u \in Tasks : pc'[u] # "pending"
        BY <3>1, <3>3 DEF Entries
      <4> QED
        BY <4>1 DEF LockIsOffered
    <3>4. CASE Remaining(t) # {}
      BY <3>1, <3>2, <3>4, WakeFirstOffers
    <3> QED
      BY <3>3, <3>4
  <2> QED
    BY <2>1, <2>2
<1>3. ASSUME NEW t \in Tasks, NEW w, BeginPoll(t, w) PROVE LockIsOffered'
  <2>1. pc'[t] = "poll"
    BY <1>3 DEF BeginPoll, Goto, Types
  <2> QED
    BY <2>1 DEF LockIsOffered
<1>4. ASSUME NEW t \in Tasks, TryLock(t) \/ PollLocks(t) \/ PollWaits(t) PROVE LockIsOffered'
  <2>1. locked'
    BY <1>4 DEF TryLock, PollLocks, PollWaits
  <2> QED
    BY <2>1 DEF LockIsOffered
<1>5. ASSUME NEW t \in Tasks, Wake(t) PROVE LockIsOffered'
  <2>1. /\ pc[t] = "wake" /\ pc'[t] = "idle" /\ \A u \in Tasks \ {t} : pc'[u] = pc[u]
        /\ UNCHANGED <<locked, current>>
        /\ notified' = notified \cup {waking[t]}
        /\ \A u \in Tasks \ {t} : waking'[u] = waking[u]
    BY <1>5 DEF Wake, State, Goto, Types
  <2> SUFFICES ASSUME ~locked, NEW v \in Tasks, pc'[v] = "pending"
               PROVE  LockIsOffered'
    BY <2>1 DEF LockIsOffered
  <2>2. pc[v] = "pending"
    BY <2>1
  <2>3. PICK u \in Tasks :
          \/ pc[u] = "poll"
          \/ /\ pc[u] = "pending"
             /\ current[u] \in notified \/ \E x \in Tasks : waking[x] = current[u]
    BY <2>2 DEF LockIsOffered
  <2>4. u # t /\ pc'[u] = pc[u] /\ current'[u] = current[u]
    BY <2>1, <2>3
  <2>5. \/ pc'[u] = "poll"
        \/ /\ pc'[u] = "pending"
           /\ current'[u] \in notified' \/ \E x \in Tasks : waking'[x] = current'[u]
    BY <2>1, <2>3, <2>4
  <2> QED
    BY <2>5 DEF LockIsOffered
<1>6. CASE UNCHANGED vars
  BY <1>6 DEF vars, State, LockIsOffered
<1> QED
  BY <1>1, <1>2, <1>3, <1>4, <1>5, <1>6 DEF Next, Continue, Lock, PollUnasked, PollAgain

-----------------------------------------------------------------------------

\* The four parts hold together in every state.
LEMMA Invariance == Spec => []IInv
<1>1. IInv /\ [Next]_vars => IInv'
  BY TypesStep, ExclusionStep, EntriesStep, OfferedStep DEF IInv
<1> QED
  BY <1>1, InitIInv, PTL DEF Spec

\* Whatever the tasks do, of lock, try_lock, unlocking and dropping a future,
\* there is one MutexGuard at most, and the flag says whether there is one.
THEOREM OneGuard == Spec => []MutualExclusion
<1>1. IInv => MutualExclusion
  BY DEF IInv
<1> QED
  BY <1>1, Invariance, PTL

\* The wakeup that Drop for MutexGuard sends is never lost: as long as the lock
\* is free and somebody waits, one who waits has been told or is about to be,
\* also when the one that was told first has been dropped.
THEOREM FreeLockIsOffered == Spec => []LockIsOffered
<1>1. IInv => LockIsOffered
  BY DEF IInv
<1> QED
  BY <1>1, Invariance, PTL

\* The map of waiters holds the futures that wait, each once and with the waker
\* of its last poll, so cancelled futures leave nothing behind.
THEOREM MapIsInLine == Spec => []Entries
<1>1. IInv => Entries
  BY DEF IInv
<1> QED
  BY <1>1, Invariance, PTL

-----------------------------------------------------------------------------
(* The combinators                                                         *)

States == {"idle", "poll", "pending", "ready", "dropped"}
One == {"next", "now_or_never"}

CTypes ==
    /\ combinator \in {"none", "join_all", "select"} \cup One
    /\ size \in 0 .. MaxChildren
    /\ state \in States
    /\ polls \in Nat /\ slot \in Nat
    /\ output \in [C!Children -> BOOLEAN]
    /\ finished \in [C!Children -> BOOLEAN]
    /\ DOMAIN stored = C!Children /\ stored = [c \in C!Children |-> stored[c]]
    /\ DOMAIN firing = C!Children /\ firing = [c \in C!Children |-> firing[c]]
    /\ \A c \in C!Children : firing[c] # C!Unset => finished[c]
    /\ combinator = "none" => state = "idle"
    /\ combinator \in One => size = 1
    /\ state = "pending" => combinator # "now_or_never"

\* Only join_all polls again, or sleeps, when a child has given its output.
Fresh ==
    /\ state = "idle" => \A c \in C!Children : ~output[c]
    /\ combinator # "join_all" /\ (state = "pending" \/ (state = "poll" /\ slot \in C!Mine)) =>
           \A c \in C!Mine : ~output[c]

\* The children that the round has passed are armed, unless it was cut short
\* by an output.
Armed ==
    /\ state = "poll" /\ combinator # "now_or_never"
    /\ combinator = "join_all" \/ \A c \in C!Mine : ~output[c]
    => \A c \in C!Mine : c < slot => output[c] \/ stored[c] = polls \/ C!Woken

CInv == CTypes /\ Fresh /\ Armed /\ C!ChildrenAreArmed

LEMMA InitCInv == C!Init => CInv
<1> SUFFICES ASSUME C!Init PROVE CInv
  OBVIOUS
<1>1. output \in [C!Children -> BOOLEAN] /\ finished \in [C!Children -> BOOLEAN]
  BY Zenon DEF C!Init
<1> QED
  BY <1>1, FuturesAssumption
     DEF C!Init, CInv, CTypes, States, One, Fresh, Armed, C!ChildrenAreArmed, C!Mine, C!Children

\* What a poll of the child in the slot does, when it has given no output yet.
LEMMA ChildPolled ==
    ASSUME CTypes, C!PollsSlot, ~output[slot], C!PollChild(slot)
    PROVE  /\ slot \in C!Children /\ UNCHANGED state
           /\ output' \in [C!Children -> BOOLEAN]
           /\ \A c \in C!Children \ {slot} : output'[c] = output[c] /\ stored'[c] = stored[c]
           /\ output'[slot] = finished[slot]
           /\ ~finished[slot] => stored'[slot] = C!Waker
           /\ DOMAIN stored' = C!Children /\ stored' = [c \in C!Children |-> stored'[c]]
<1>1. slot \in C!Children
  BY FuturesAssumption DEF C!PollsSlot, C!Mine, C!Children, CTypes
<1>2. /\ output' = [output EXCEPT ![slot] = finished[slot]]
      /\ stored' = [stored EXCEPT ![slot] = IF finished[slot] THEN @ ELSE C!Waker]
      /\ UNCHANGED state
  BY DEF C!PollChild
<1>3. output' \in [C!Children -> BOOLEAN]
  BY <1>1, <1>2 DEF CTypes
<1> QED
  BY <1>1, <1>2, <1>3 DEF CTypes

LEMMA CInvStep == CInv /\ [C!Next]_combinators => CInv'
<1> SUFFICES ASSUME CInv, [C!Next]_combinators PROVE CInv'
  OBVIOUS
<1> USE FuturesAssumption
    DEF CInv, CTypes, States, One, Fresh, Armed, C!ChildrenAreArmed, C!Mine, C!Children, C!Woken, C!children
<1>1. ASSUME NEW name \in {"join_all", "select"} \cup One, NEW n \in 0 .. MaxChildren, name \in One => n = 1, C!New(name, n)
      PROVE  CInv'
  BY <1>1 DEF C!New
<1>2. ASSUME C!BeginPoll, combinator # "none", state \in {"idle", "pending"} PROVE CInv'
  BY <1>2 DEF C!BeginPoll
<1>3. ASSUME C!PollsSlot, output[slot], combinator = "join_all", UNCHANGED <<state, output, stored>>, C!Advance(FALSE)
      PROVE  CInv'
  <2>1. /\ slot' = slot + 1 /\ state = "poll" /\ slot \in C!Mine
        /\ UNCHANGED <<combinator, size, polls, state, output, finished, stored, firing, invoked>>
    BY <1>3 DEF C!PollsSlot, C!Advance
  <2>2. \A c \in C!Mine : c < slot' => c < slot \/ c = slot
    BY <2>1
  <2>3. Armed'
    BY <1>3, <2>1, <2>2
  <2>4. CTypes'
    BY <2>1
  <2>5. Fresh'
    BY <1>3, <2>1
  <2> QED
    BY <2>1, <2>3, <2>4, <2>5
<1>4. ASSUME C!PollsSlot, ~output[slot], C!PollChild(slot), C!Advance(FALSE), combinator \in {"join_all", "select"},
             combinator = "select" => ~output'[slot]
      PROVE  CInv'
  <2>1. /\ slot' = slot + 1 /\ state = "poll" /\ slot \in C!Mine
        /\ UNCHANGED <<combinator, size, polls, finished, firing, invoked>>
    BY <1>4 DEF C!PollsSlot, C!Advance
  <2>2. \A c \in C!Mine : c < slot' => c < slot \/ c = slot
    BY <2>1
  <2>3. /\ UNCHANGED state
        /\ \A c \in C!Children \ {slot} : output'[c] = output[c] /\ stored'[c] = stored[c]
        /\ output'[slot] \/ stored'[slot] = polls
    BY <1>4, ChildPolled DEF C!Waker
  <2>4. CTypes'
    BY <1>4, <2>1, <2>3, ChildPolled
  <2>5. Fresh'
    BY <1>4, <2>1, <2>3
  <2>6. Armed'
    <3> SUFFICES ASSUME combinator = "join_all" \/ \A c \in C!Mine : ~output'[c],
                        NEW c \in C!Mine, c < slot'
                 PROVE  output'[c] \/ stored'[c] = polls \/ C!Woken
      BY <2>1
    <3>1. CASE c = slot
      BY <2>3, <3>1
    <3>2. CASE c # slot
      <4>1. combinator = "join_all" \/ \A d \in C!Mine : ~output[d]
        BY <1>4, <2>1
      <4>2. output[c] \/ stored[c] = polls \/ C!Woken
        BY <1>4, <2>1, <2>2, <3>2, <4>1
      <4>3. c \in C!Children \ {slot}
        BY <3>2
      <4> QED
        BY <2>3, <4>2, <4>3
    <3> QED
      BY <3>1, <3>2
  <2> QED
    BY <2>1, <2>3, <2>4, <2>5, <2>6
<1>5. ASSUME C!PollsSlot, ~output[slot], C!PollChild(slot), C!Advance(TRUE), combinator = "select", output'[slot]
      PROVE  CInv'
  <2>1. /\ slot' = size + 1 /\ state = "poll" /\ slot \in C!Mine
        /\ UNCHANGED <<combinator, size, polls, finished, firing, invoked>>
    BY <1>5 DEF C!PollsSlot, C!Advance
  <2>2. CTypes' /\ UNCHANGED state
    <3>1. /\ UNCHANGED state /\ output' \in [C!Children -> BOOLEAN]
          /\ DOMAIN stored' = C!Children /\ stored' = [c \in C!Children |-> stored'[c]]
      BY <1>5, ChildPolled
    <3> QED
      BY <2>1, <3>1
  <2>3. slot' \notin C!Mine'
    BY <2>1
  <2> QED
    BY <1>5, <2>1, <2>2, <2>3
<1>6. ASSUME C!PollOnly PROVE CInv'
  <2>1. C!PollsSlot /\ ~output[slot] /\ C!PollChild(slot) /\ slot = 1 /\ size = 1 /\ combinator \in One
    BY <1>6 DEF C!PollOnly, C!PollsSlot
  <2> QED
    BY <1>6, <2>1, ChildPolled DEF C!PollOnly, C!PollsSlot, C!Advance, C!Waker
<1>7. ASSUME C!EndPoll PROVE CInv'
  <2>1. /\ state = "poll" /\ slot > size
        /\ UNCHANGED <<combinator, size, polls, slot, output, finished, stored, firing, invoked>>
        /\ state' \in {"ready", "dropped", "pending"}
        /\ state' = "pending" => ~C!IsReady /\ combinator # "now_or_never"
    BY <1>7 DEF C!EndPoll
  <2>2. ~C!IsReady /\ combinator # "join_all" => \A c \in C!Mine : ~output[c]
    BY DEF C!IsReady
  <2>3. \A c \in C!Mine : c < slot
    BY <2>1
  <2>4. CTypes' /\ Fresh' /\ Armed'
    BY <2>1, <2>2
  <2> QED
    BY <2>1, <2>2, <2>3, <2>4
<1>8. ASSUME C!Drop PROVE CInv'
  BY <1>8 DEF C!Drop
<1>9. ASSUME NEW c \in C!Children, C!Finish(c) PROVE CInv'
  <2>1. /\ c \in C!Mine /\ UNCHANGED <<combinator, size, state, polls, slot, output, invoked>>
        /\ finished' = [finished EXCEPT ![c] = TRUE]
        /\ firing' = [firing EXCEPT ![c] = stored[c]]
        /\ stored' = [stored EXCEPT ![c] = C!Unset]
        /\ ~finished[c]
    BY <1>9 DEF C!Finish
  <2>2. finished' \in [C!Children -> BOOLEAN]
    BY <2>1
  <2>3. CTypes'
    BY <2>1, <2>2
  <2>4. \A d \in C!Mine : stored[d] = polls \/ C!Woken => stored'[d] = polls \/ C!Woken'
    <3>1. firing[c] # polls
      BY <1>9, <2>1 DEF C!Unset
    <3>2. ASSUME NEW e \in C!Mine, firing[e] = polls PROVE firing'[e] = polls
      BY <2>1, <3>1, <3>2
    <3>3. C!Woken => C!Woken'
      BY <2>1, <3>2
    <3>4. stored[c] = polls => C!Woken'
      BY <1>9, <2>1
    <3>5. \A d \in C!Mine \ {c} : stored'[d] = stored[d]
      BY <2>1
    <3> QED
      BY <3>3, <3>4, <3>5
  <2>5. Fresh' /\ Armed'
    BY <2>1, <2>4
  <2> QED
    BY <2>1, <2>3, <2>4, <2>5
<1>10. ASSUME NEW c \in C!Children, C!Invoke(c) PROVE CInv'
  <2>1. /\ UNCHANGED <<combinator, size, state, polls, slot, output, finished, stored>>
        /\ firing' = [firing EXCEPT ![c] = C!Unset]
        /\ invoked' = invoked \cup {firing[c]}
    BY <1>10 DEF C!Invoke
  <2>2. CTypes' /\ Fresh'
    BY <2>1
  <2>3. C!Woken => C!Woken'
    BY <2>1
  <2>4. Armed'
    BY <2>1, <2>3
  <2> QED
    BY <2>1, <2>2, <2>3, <2>4
<1>11. CASE UNCHANGED combinators
  BY <1>11 DEF combinators
<1>12. ASSUME C!JoinAllStep PROVE CInv'
  BY <1>3, <1>4, <1>12 DEF C!JoinAllStep
<1>13. ASSUME C!SelectStep PROVE CInv'
  <2>1. C!PollsSlot /\ ~output[slot] /\ C!PollChild(slot) /\ C!Advance(output'[slot]) /\ combinator = "select"
    BY <1>13 DEF C!SelectStep, C!PollsSlot
  <2>2. C!Advance(FALSE) \/ output'[slot]
    BY <2>1 DEF C!Advance
  <2>3. C!Advance(TRUE) \/ ~output'[slot]
    BY <2>1 DEF C!Advance
  <2> QED
    BY <1>4, <1>5, <2>1, <2>2, <2>3
<1>14. ASSUME C!FirstPoll \/ C!PollAgain \/ C!PollUnasked PROVE CInv'
  BY <1>2, <1>14 DEF C!FirstPoll, C!PollAgain, C!PollUnasked
<1>15. ASSUME C!select \/ C!join_all \/ C!next \/ C!now_or_never PROVE CInv'
  BY <1>1, <1>15 DEF C!select, C!join_all, C!next, C!now_or_never
<1> QED
  BY <1>6, <1>7, <1>8, <1>9, <1>10, <1>11, <1>12, <1>13, <1>14, <1>15
     DEF C!Next, C!Continue, C!Over, C!combinators, combinators

\* However the children of select, join_all or next complete and however often
\* the task is polled, with whichever wakers: none is polled after Ready, and
\* while the task sleeps each of them has its last waker or the task is woken.
THEOREM ChildrenStayArmed == FuturesSpec => []ChildrenAreArmed
<1>1. FuturesInit => CInv
  BY InitCInv DEF FuturesInit
<1>2. CInv /\ [FuturesNext]_futureVars => CInv'
  BY CInvStep DEF FuturesNext, futureVars
<1>3. CInv => ChildrenAreArmed
  BY DEF CInv, ChildrenAreArmed
<1> QED
  BY <1>1, <1>2, <1>3, PTL DEF FuturesSpec

=============================================================================
