---------------------------- MODULE AtomicWakerProofs ----------------------------
(***************************************************************************)
(* Theorems about AtomicWaker, for any threads and any tasks.              *)
(*                                                                         *)
(* The argument: the two bits say where the owner of the cell is.  The     *)
(* thread in register or in take is alone there (Owner), REGISTERING is    *)
(* set exactly while it is in register, and WAITING says there is none     *)
(* (Word).  Around that, the cell holds what the owner put there (Cell),   *)
(* and a wake that arrives meanwhile leaves WAKING behind for the owner to *)
(* find.                                                                   *)
(***************************************************************************)
EXTENDS AtomicWaker, TLAPS

Owning == InRegister \cup InTake

\* The word, as a function of where its owner is.
Word ==
    /\ \A t \in Threads :
        /\ pc[t] \in {"reg_store", "reg_release"} => REGISTERING \in state
        /\ pc[t] \in {"reg_take", "reg_swap"} => state = {REGISTERING, WAKING}
        /\ pc[t] \in InTake => state = {WAKING}
    /\ state # WAITING => \E t \in Threads : pc[t] \in Owning

\* The cell and the wakers in hand.
Cell ==
    /\ \A t \in Threads :
        /\ pc[t] \in {"reg_release", "reg_take"} => waker = held[t]
        /\ pc[t] \in InRegister \cup {"notify"} => held[t] # NoTask
        /\ pc[t] \in InRegister \cup {"wake_swap"} => armed = NoTask
    /\ armed # NoTask => waker = armed

Basic == TypeOK /\ CellExclusion /\ Word /\ Cell

IInv == Basic /\ NoLostWake

USE DEF InRegister, InTake, WAITING, REGISTERING, WAKING

\* A new AtomicWaker satisfies the invariant.
LEMMA InitIInv == Init => IInv
  BY NoTaskAssumption DEF Init, IInv, Basic, TypeOK, CellExclusion, Word, Cell, NoLostWake, Owning

\* The word has four values.
LEMMA FourWords ==
    ASSUME TypeOK
    PROVE  state \in {{}, {REGISTERING}, {WAKING}, {REGISTERING, WAKING}}
<1>1. \A b \in state : b = REGISTERING \/ b = WAKING
  BY DEF TypeOK
<1>2. CASE REGISTERING \in state /\ WAKING \in state
  <2>1. state = {REGISTERING, WAKING}
    BY <1>1, <1>2
  <2> QED
    BY <2>1
<1>3. CASE REGISTERING \in state /\ WAKING \notin state
  <2>1. state = {REGISTERING}
    BY <1>1, <1>3
  <2> QED
    BY <2>1
<1>4. CASE REGISTERING \notin state /\ WAKING \in state
  <2>1. state = {WAKING}
    BY <1>1, <1>4
  <2> QED
    BY <2>1
<1>5. CASE REGISTERING \notin state /\ WAKING \notin state
  <2>1. state = {}
    BY <1>1, <1>5
  <2> QED
    BY <2>1
<1> QED
  BY <1>2, <1>3, <1>4, <1>5

\* What a wake owes is a set of tasks.
LEMMA RegisteredType == Basic => Registered \subseteq Tasks
  BY NoTaskAssumption DEF Basic, TypeOK, Cell, Registered

\* Every step keeps the owner of the cell unique and the word in agreement.
LEMMA BasicStep == Basic /\ [Next]_vars => Basic'
<1> SUFFICES ASSUME Basic, [Next]_vars PROVE Basic'
  OBVIOUS
<1> USE NoTaskAssumption DEF Basic, TypeOK, CellExclusion, Word, Cell, Owning
<1>1. ASSUME NEW t \in Threads, NEW w \in Tasks, pc[t] = "idle", RegisterLock(t, w) PROVE Basic'
  BY <1>1 DEF RegisterLock
<1>2. ASSUME NEW t \in Threads, NEW w \in Tasks, pc[t] = "idle", RegisterWhileWaking(t, w) PROVE Basic'
  BY <1>2 DEF RegisterWhileWaking
<1>3. ASSUME NEW t \in Threads, RegisterStore(t) PROVE Basic'
  BY <1>3 DEF RegisterStore
<1>4. ASSUME NEW t \in Threads, RegisterRelease(t) PROVE Basic'
  <2>1. CASE state = {REGISTERING}
    BY <1>4, <2>1 DEF RegisterRelease
  <2>2. CASE state # {REGISTERING}
    <3>1. state = {REGISTERING, WAKING}
      BY <1>4, <2>2, FourWords DEF RegisterRelease
    <3>2. /\ pc' = [pc EXCEPT ![t] = "reg_take"]
          /\ UNCHANGED <<state, waker, held, notified, armed, owed>>
      BY <1>4, <2>2 DEF RegisterRelease
    <3> QED
      BY <1>4, <3>1, <3>2 DEF RegisterRelease
  <2> QED
    BY <2>1, <2>2
<1>5. ASSUME NEW t \in Threads, RegisterTake(t) PROVE Basic'
  BY <1>5 DEF RegisterTake
<1>6. ASSUME NEW t \in Threads, RegisterSwap(t) PROVE Basic'
  BY <1>6 DEF RegisterSwap
<1>7. ASSUME NEW t \in Threads, Wake(t) PROVE Basic'
  <2>1. /\ pc[t] = "idle"
        /\ state' = state \cup {WAKING}
        /\ pc' = [pc EXCEPT ![t] = IF state = WAITING THEN "wake_take" ELSE "idle"]
        /\ UNCHANGED <<waker, held, notified, armed>>
    BY <1>7 DEF Wake
  <2>2. owed' \in SUBSET Tasks
    BY <1>7, RegisteredType DEF Wake
  <2>3. CASE state = WAITING
    BY <2>1, <2>2, <2>3
  <2>4. CASE state # WAITING
    <3>1. pc' = pc
      BY <2>1, <2>4
    <3>2. state \in {{REGISTERING}, {WAKING}, {REGISTERING, WAKING}}
      BY <2>4, FourWords
    <3>3. state' = IF state = {WAKING} THEN {WAKING} ELSE {REGISTERING, WAKING}
      BY <2>1, <3>2
    <3> QED
      BY <2>1, <2>2, <2>4, <3>1, <3>2, <3>3
  <2> QED
    BY <2>3, <2>4
<1>8. ASSUME NEW t \in Threads, WakeTake(t) PROVE Basic'
  BY <1>8 DEF WakeTake
<1>9. ASSUME NEW t \in Threads, WakeSwap(t) PROVE Basic'
  BY <1>9 DEF WakeSwap
<1>10. ASSUME NEW t \in Threads, Notify(t) PROVE Basic'
  BY <1>10 DEF Notify
<1>11. ASSUME NEW w \in Tasks, RunTask(w) PROVE Basic'
  BY <1>11 DEF RunTask
<1>12. CASE UNCHANGED vars
  BY <1>12 DEF vars
<1> QED
  BY <1>1, <1>2, <1>3, <1>4, <1>5, <1>6, <1>7, <1>8, <1>9, <1>10, <1>11, <1>12 DEF Next, Step, Register, RegisterWhileRegistering

\* Every step hands an owed notification on or delivers it.
LEMMA NoLostWakeStep == IInv /\ [Next]_vars => NoLostWake'
<1> SUFFICES ASSUME IInv, [Next]_vars, NEW v \in owed' PROVE (\E u \in Threads : Carries(u, v))'
  BY DEF NoLostWake
<1> USE NoTaskAssumption DEF IInv, Basic, TypeOK, CellExclusion, Word, Cell, Owning, NoLostWake, Carries
<1>1. ASSUME NEW t \in Threads, NEW w \in Tasks, pc[t] = "idle", RegisterLock(t, w) PROVE (\E u \in Threads : Carries(u, v))'
  BY <1>1 DEF RegisterLock
<1>2. ASSUME NEW t \in Threads, NEW w \in Tasks, pc[t] = "idle", RegisterWhileWaking(t, w) PROVE (\E u \in Threads : Carries(u, v))'
  BY <1>2 DEF RegisterWhileWaking
<1>3. ASSUME NEW t \in Threads, RegisterStore(t) PROVE (\E u \in Threads : Carries(u, v))'
  BY <1>3 DEF RegisterStore
<1>4. ASSUME NEW t \in Threads, RegisterRelease(t) PROVE (\E u \in Threads : Carries(u, v))'
  BY <1>4 DEF RegisterRelease
<1>5. ASSUME NEW t \in Threads, RegisterTake(t) PROVE (\E u \in Threads : Carries(u, v))'
  BY <1>5 DEF RegisterTake
<1>6. ASSUME NEW t \in Threads, RegisterSwap(t) PROVE (\E u \in Threads : Carries(u, v))'
  BY <1>6 DEF RegisterSwap
<1>7. ASSUME NEW t \in Threads, Wake(t) PROVE (\E u \in Threads : Carries(u, v))'
  <2>1. /\ pc[t] = "idle"
        /\ state' = state \cup {WAKING}
        /\ owed' = owed \cup Registered
        /\ pc' = [pc EXCEPT ![t] = IF state = WAITING THEN "wake_take" ELSE "idle"]
        /\ UNCHANGED <<waker, held>>
    BY <1>7 DEF Wake
  <2>2. CASE v \in owed
    BY <2>1, <2>2
  <2>3. CASE v \in Registered /\ REGISTERING \in state
    <3>1. PICK u \in Threads : pc[u] \in InRegister /\ held[u] = v
      BY <2>3 DEF Registered
    <3>2. Carries(u, v)'
      BY <2>1, <3>1
    <3> QED
      BY <3>2
  <2>4. CASE v \in Registered /\ REGISTERING \notin state
    <3>1. v = armed /\ armed # NoTask /\ waker = v
      BY <2>4 DEF Registered
    <3>2. CASE state = WAITING
      BY <2>1, <3>1, <3>2
    <3>3. CASE state # WAITING
      <4>1. PICK u \in Threads : pc[u] \in Owning
        BY <3>3
      <4>2. pc[u] = "wake_take"
        BY <2>4, <3>1, <4>1
      <4>3. Carries(u, v)'
        BY <2>1, <3>1, <4>2
      <4> QED
        BY <4>3
    <3> QED
      BY <3>2, <3>3
  <2> QED
    BY <2>1, <2>2, <2>3, <2>4
<1>8. ASSUME NEW t \in Threads, WakeTake(t) PROVE (\E u \in Threads : Carries(u, v))'
  BY <1>8 DEF WakeTake
<1>9. ASSUME NEW t \in Threads, WakeSwap(t) PROVE (\E u \in Threads : Carries(u, v))'
  BY <1>9 DEF WakeSwap
<1>10. ASSUME NEW t \in Threads, Notify(t) PROVE (\E u \in Threads : Carries(u, v))'
  BY <1>10 DEF Notify
<1>11. ASSUME NEW w \in Tasks, RunTask(w) PROVE (\E u \in Threads : Carries(u, v))'
  BY <1>11 DEF RunTask
<1>12. CASE UNCHANGED vars
  BY <1>12 DEF vars
<1> QED
  BY <1>1, <1>2, <1>3, <1>4, <1>5, <1>6, <1>7, <1>8, <1>9, <1>10, <1>11, <1>12 DEF Next, Step, Register, RegisterWhileRegistering

\* IInv is an inductive invariant of the specification.
LEMMA IInvStep == IInv /\ [Next]_vars => IInv'
  BY BasicStep, NoLostWakeStep DEF IInv

LEMMA Invariance == Spec => []IInv
  BY InitIInv, IInvStep, PTL DEF Spec

\* The word, the cell and the threads inside register and wake keep their types.
THEOREM TypeCorrect == Spec => []TypeOK
<1>1. IInv => TypeOK
  BY DEF IInv, Basic
<1> QED
  BY Invariance, <1>1, PTL

\* register and take never access the cell at the same time, however many
\* threads call them.
THEOREM CellIsExclusive == Spec => []CellExclusion
<1>1. IInv => CellExclusion
  BY DEF IInv, Basic
<1> QED
  BY Invariance, <1>1, PTL

\* The unwrap at the end of register finds a waker, and the debug assertions
\* of register and take hold.
THEOREM AssertionsAreRight == Spec => []AssertionsHold
<1>1. IInv => AssertionsHold
  <2> SUFFICES ASSUME IInv, NEW t \in Threads
               PROVE  /\ pc[t] = "reg_take" => state = {REGISTERING, WAKING} /\ waker # NoTask
                      /\ pc[t] = "reg_release" =>
                            state \in {{REGISTERING}, {REGISTERING, WAKING}}
                      /\ pc[t] = "wake_swap" => state = {WAKING}
    BY DEF AssertionsHold
  <2>1. pc[t] = "reg_release" => state \in {{REGISTERING}, {REGISTERING, WAKING}}
    BY FourWords DEF IInv, Basic, Word
  <2> QED
    BY <2>1 DEF IInv, Basic, Word, Cell
<1> QED
  BY Invariance, <1>1, PTL

\* A task whose register came before a wake is notified or about to be, for
\* every interleaving of any number of calls of register and wake.
THEOREM NoWakeIsLost == Spec => []NoLostWake
<1>1. IInv => NoLostWake
  BY DEF IInv
<1> QED
  BY Invariance, <1>1, PTL

-----------------------------------------------------------------------------
(* Lemmas for a module that uses an AtomicWaker as its documentation asks: *)
(* one thread registers, any number of them wake.                          *)

SoleRegistrar(c) == \A t \in Threads : pc[t] \in InRegister => t = c

\* The waker of w was invoked or will be by a thread that is on its way.
Reached(w) == w \in notified \/ \E t \in Threads : Carries(t, w)

\* The registration of w by c stands or is being made.
Standing(c, w) == armed = w \/ (pc[c] \in {"reg_store", "reg_release"} /\ held[c] = w)

Covered(c, w) == Reached(w) \/ Standing(c, w)

\* A task that runs takes its notification away and touches nothing else.
LEMMA NotifiedShrinks ==
    ASSUME IInv, notified' \subseteq notified, UNCHANGED <<state, waker, pc, held, armed, owed>>
    PROVE  IInv'
  BY DEF IInv, Basic, TypeOK, CellExclusion, Word, Cell, Owning, NoLostWake, Carries

\* While nobody calls it, an AtomicWaker keeps what it promised.
LEMMA Untouched ==
    ASSUME IInv, UNCHANGED vars
    PROVE  /\ IInv' /\ UNCHANGED pc
           /\ \A w : Reached(w)' <=> Reached(w)
           /\ \A c, w : Covered(c, w)' <=> Covered(c, w)
<1>1. IInv' /\ UNCHANGED pc
  BY NotifiedShrinks DEF vars
<1>2. \A w : Reached(w)' <=> Reached(w)
  BY DEF vars, Reached, Carries
<1>3. \A c, w : Standing(c, w)' <=> Standing(c, w)
  BY DEF vars, Standing
<1> QED
  BY <1>1, <1>2, <1>3 DEF Covered

\* A step inside register or wake moves one thread, and none into register.
LEMMA StepIsLocal ==
    ASSUME IInv, NEW t \in Threads, Step(t) \/ Wake(t)
    PROVE  /\ Step(t) => pc[t] # "idle"
           /\ \A u \in Threads : u # t => pc'[u] = pc[u]
           /\ \A u \in Threads : pc[u] \notin InRegister => pc'[u] \notin InRegister
<1> USE DEF IInv, Basic, TypeOK
<1>1. CASE Wake(t)
  BY <1>1 DEF Wake, Step, RegisterStore, RegisterRelease, RegisterTake, RegisterSwap, WakeTake, WakeSwap, Notify
<1>2. CASE Step(t)
  BY <1>2 DEF Step, RegisterStore, RegisterRelease, RegisterTake, RegisterSwap, WakeTake, WakeSwap, Notify
<1> QED
  BY <1>1, <1>2

\* Nobody else begins to register.
LEMMA SoleRegistrarStep ==
    ASSUME IInv, NEW c \in Threads, SoleRegistrar(c), NEW t \in Threads,
           Step(t) \/ Wake(t) \/ (t = c /\ \E w \in Tasks : Register(t, w))
    PROVE  SoleRegistrar(c)'
  BY DEF IInv, Basic, TypeOK, SoleRegistrar, Register, RegisterLock, RegisterWhileWaking, RegisterWhileRegistering,
         Wake, Step, RegisterStore, RegisterRelease, RegisterTake, RegisterSwap, WakeTake, WakeSwap, Notify, vars

\* A notification on its way arrives or stays on its way.
LEMMA ReachedStep ==
    ASSUME IInv, NEW w \in Tasks, Reached(w), NEW t \in Threads,
           Step(t) \/ Wake(t) \/ \E v \in Tasks : Register(t, v)
    PROVE  Reached(w)'
<1> USE NoTaskAssumption DEF IInv, Basic, TypeOK, CellExclusion, Word, Cell, Owning, Carries, Reached
<1>1. ASSUME NEW v \in Tasks, pc[t] = "idle", RegisterLock(t, v) PROVE Reached(w)'
  BY <1>1 DEF RegisterLock
<1>2. ASSUME NEW v \in Tasks, pc[t] = "idle", RegisterWhileWaking(t, v) PROVE Reached(w)'
  BY <1>2 DEF RegisterWhileWaking
<1>3. ASSUME RegisterStore(t) PROVE Reached(w)'
  BY <1>3 DEF RegisterStore
<1>4. ASSUME RegisterRelease(t) PROVE Reached(w)'
  BY <1>4 DEF RegisterRelease
<1>5. ASSUME RegisterTake(t) PROVE Reached(w)'
  BY <1>5 DEF RegisterTake
<1>6. ASSUME RegisterSwap(t) PROVE Reached(w)'
  BY <1>6 DEF RegisterSwap
<1>7. ASSUME Wake(t) PROVE Reached(w)'
  BY <1>7 DEF Wake
<1>8. ASSUME WakeTake(t) PROVE Reached(w)'
  BY <1>8 DEF WakeTake
<1>9. ASSUME WakeSwap(t) PROVE Reached(w)'
  BY <1>9 DEF WakeSwap
<1>10. ASSUME Notify(t) PROVE Reached(w)'
  BY <1>10 DEF Notify
<1>11. CASE UNCHANGED vars
  BY <1>11 DEF vars
<1> QED
  BY <1>1, <1>2, <1>3, <1>4, <1>5, <1>6, <1>7, <1>8, <1>9, <1>10, <1>11 DEF Step, Register, RegisterWhileRegistering

\* A wake that starts while w is covered reaches it.
LEMMA WakeReaches ==
    ASSUME IInv, NEW c \in Threads, NEW w \in Tasks, Covered(c, w), NEW t \in Threads, Wake(t)
    PROVE  Reached(w)'
<1>1. CASE Reached(w)
  BY <1>1, ReachedStep
<1>2. CASE Standing(c, w)
  <2>1. w \in Registered
    <3> USE NoTaskAssumption DEF IInv, Basic, TypeOK, Word, Cell, Owning, Registered
    <3>1. CASE armed = w
      <4>1. REGISTERING \notin state
        BY <3>1
      <4> QED
        BY <3>1, <4>1
    <3>2. CASE pc[c] \in {"reg_store", "reg_release"} /\ held[c] = w
      BY <3>2
    <3> QED
      BY <1>2, <3>1, <3>2 DEF Standing
  <2>2. w \in owed'
    BY <2>1 DEF Wake
  <2>3. Next
    BY DEF Next
  <2>4. NoLostWake'
    BY <2>3, NoLostWakeStep
  <2> QED
    BY <2>2, <2>4 DEF NoLostWake, Reached
<1> QED
  BY <1>1, <1>2 DEF Covered

\* A registration stands until a wake takes it along.
LEMMA CoveredStep ==
    ASSUME IInv, NEW c \in Threads, SoleRegistrar(c), NEW w \in Tasks, Covered(c, w),
           NEW t \in Threads, Step(t) \/ Wake(t)
    PROVE  Covered(c, w)'
<1>1. CASE Reached(w)
  BY <1>1, ReachedStep DEF Covered
<1>2. CASE Wake(t)
  BY <1>2, WakeReaches DEF Covered
<1>3. CASE Standing(c, w) /\ Step(t)
  <2> USE <1>3, NoTaskAssumption DEF IInv, Basic, TypeOK, CellExclusion, Word, Cell, Owning, Carries,
            SoleRegistrar, Reached, Standing, Covered
  <2>1. ASSUME RegisterStore(t) PROVE Covered(c, w)'
    BY <2>1 DEF RegisterStore
  <2>2. ASSUME RegisterRelease(t) PROVE Covered(c, w)'
    <3>1. t = c /\ held[c] = w /\ pc[c] = "reg_release"
      BY <2>2 DEF RegisterRelease
    <3>2. CASE state = {REGISTERING}
      BY <2>2, <3>1, <3>2 DEF RegisterRelease
    <3>3. CASE state # {REGISTERING}
      <4>1. WAKING \in state
        BY <3>1, <3>3, FourWords
      <4>2. pc'[c] = "reg_take" /\ held' = held /\ state' = state
        BY <2>2, <3>1, <3>3 DEF RegisterRelease
      <4> QED
        BY <3>1, <4>1, <4>2
    <3> QED
      BY <3>2, <3>3
  <2>3. ASSUME RegisterTake(t) PROVE Covered(c, w)'
    BY <2>3 DEF RegisterTake
  <2>4. ASSUME RegisterSwap(t) PROVE Covered(c, w)'
    BY <2>4 DEF RegisterSwap
  <2>5. ASSUME WakeTake(t) PROVE Covered(c, w)'
    BY <2>5 DEF WakeTake
  <2>6. ASSUME WakeSwap(t) PROVE Covered(c, w)'
    BY <2>6 DEF WakeSwap
  <2>7. ASSUME Notify(t) PROVE Covered(c, w)'
    BY <2>7 DEF Notify
  <2> QED
    BY <2>1, <2>2, <2>3, <2>4, <2>5, <2>6, <2>7 DEF Step
<1> QED
  BY <1>1, <1>2, <1>3 DEF Covered

\* A register by the one who registers is not dropped: it covers its task.
LEMMA RegisterCovers ==
    ASSUME IInv, NEW c \in Threads, SoleRegistrar(c), NEW w \in Tasks, Register(c, w)
    PROVE  Covered(c, w)'
<1> USE NoTaskAssumption DEF IInv, Basic, TypeOK, Word, Owning, SoleRegistrar, Covered, Standing, Reached, Carries
<1>1. CASE RegisterLock(c, w)
  BY <1>1 DEF RegisterLock
<1>2. CASE RegisterWhileWaking(c, w)
  BY <1>2 DEF RegisterWhileWaking
<1>3. CASE REGISTERING \in state
  BY <1>3 DEF Register
<1> QED
  BY <1>1, <1>2, <1>3 DEF Register, RegisterWhileRegistering

=============================================================================
