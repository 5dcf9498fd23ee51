------------------------------- MODULE AtomicWaker -------------------------------
(***************************************************************************)
(* src/atomic_waker/mod.rs: one cell that holds the waker of the task to   *)
(* be woken, guarded by a word of two bits.  register and wake may run on  *)
(* any thread at any time.                                                 *)
(*                                                                         *)
(* One action per atomic operation on the word (state) or per access of    *)
(* the cell (waker): these are the points between which another thread can *)
(* run.  Invoking a waker (Waker::wake, wake_by_ref) schedules its task;   *)
(* that is external code, and may itself be delayed, so it is a step too.  *)
(*                                                                         *)
(* A module that uses an AtomicWaker instantiates this one, substitutes    *)
(* its own variables and calls Register, Wake and Step.                    *)
(***************************************************************************)
EXTENDS Naturals

CONSTANTS
    Threads,    \* whoever calls register and wake
    Tasks,      \* the tasks wakers belong to; two wakers of a task will_wake each other
    NoTask      \* the empty cell, Option::None

ASSUME NoTaskAssumption == NoTask \notin Tasks

VARIABLES
    state,      \* AtomicWaker.state: the set of bits that are 1
    waker,      \* AtomicWaker.waker: a task or NoTask
    pc,         \* pc[t]: where t is in register or wake
    held,       \* held[t]: the waker t received as argument or took from the cell
    notified,   \* the tasks that a waker has scheduled and that have not run since
    armed,      \* history: the task of the last register that has returned without
                \* being replaced by a later register or taken by a wake
    owed        \* history: the tasks for which a wake has started after their
                \* register, and whose waker has not been invoked since

vars == <<state, waker, pc, held, notified, armed, owed>>

WAITING == {}
REGISTERING == "REGISTERING"
WAKING == "WAKING"

InRegister == {"reg_store", "reg_release", "reg_take", "reg_swap"}
InTake == {"wake_take", "wake_swap"}

Init ==
    /\ state = WAITING
    /\ waker = NoTask
    /\ pc = [t \in Threads |-> "idle"]
    /\ held = [t \in Threads |-> NoTask]
    /\ notified = {}
    /\ armed = NoTask
    /\ owed = {}

-----------------------------------------------------------------------------
(* register                                                                *)

\* The compare-exchange WAITING -> REGISTERING succeeds: t owns the cell.
RegisterLock(t, w) ==
    /\ state = WAITING
    /\ state' = {REGISTERING}
    /\ pc' = [pc EXCEPT ![t] = "reg_store"]
    /\ held' = [held EXCEPT ![t] = w]
    /\ armed' = NoTask
    /\ UNCHANGED <<waker, notified, owed>>

\* A wake is in progress: the caller's own waker is invoked at once.
RegisterWhileWaking(t, w) ==
    /\ state = {WAKING}
    /\ pc' = [pc EXCEPT ![t] = "notify"]
    /\ held' = [held EXCEPT ![t] = w]
    /\ UNCHANGED <<state, waker, notified, armed, owed>>

\* Another register owns the cell: this registration is dropped.
RegisterWhileRegistering(t, w) ==
    /\ REGISTERING \in state
    /\ UNCHANGED vars

Register(t, w) ==
    /\ pc[t] = "idle"
    /\ \/ RegisterLock(t, w)
       \/ RegisterWhileWaking(t, w)
       \/ RegisterWhileRegistering(t, w)

\* Altered form (a will_wake that is true of every old waker): the old one stays.
RegisterStoreKeepsOld(t) ==
    /\ pc[t] = "reg_store"
    /\ waker' = IF waker = NoTask THEN held[t] ELSE waker
    /\ pc' = [pc EXCEPT ![t] = "reg_release"]
    /\ UNCHANGED <<state, held, notified, armed, owed>>

\* The clone is skipped when the old waker wakes the same task.
RegisterStore(t) ==
    /\ pc[t] = "reg_store"
    /\ waker' = held[t]
    /\ pc' = [pc EXCEPT ![t] = "reg_release"]
    /\ UNCHANGED <<state, held, notified, armed, owed>>

\* Altered form: a plain store of WAITING, which forgets a concurrent wake.
RegisterReleaseByStore(t) ==
    /\ pc[t] = "reg_release"
    /\ state' = WAITING
    /\ armed' = held[t]
    /\ pc' = [pc EXCEPT ![t] = "idle"]
    /\ held' = [held EXCEPT ![t] = NoTask]
    /\ UNCHANGED <<waker, notified, owed>>

\* The compare-exchange REGISTERING -> WAITING: it fails when a wake has set WAKING.
RegisterRelease(t) ==
    /\ pc[t] = "reg_release"
    /\ IF state = {REGISTERING}
       THEN /\ state' = WAITING
            /\ armed' = held[t]
            /\ pc' = [pc EXCEPT ![t] = "idle"]
            /\ held' = [held EXCEPT ![t] = NoTask]
       ELSE /\ pc' = [pc EXCEPT ![t] = "reg_take"]
            /\ UNCHANGED <<state, held, armed>>
    /\ UNCHANGED <<waker, notified, owed>>

RegisterTake(t) ==
    /\ pc[t] = "reg_take"
    /\ held' = [held EXCEPT ![t] = waker]
    /\ waker' = NoTask
    /\ pc' = [pc EXCEPT ![t] = "reg_swap"]
    /\ UNCHANGED <<state, notified, armed, owed>>

RegisterSwap(t) ==
    /\ pc[t] = "reg_swap"
    /\ state' = WAITING
    /\ pc' = [pc EXCEPT ![t] = "notify"]
    /\ UNCHANGED <<waker, held, notified, armed, owed>>

-----------------------------------------------------------------------------
(* wake: take, then invoke what was taken                                  *)

\* The task a wake that starts now must reach: one that is registering, or
\* the one whose registration stands.
Registered ==
    IF REGISTERING \in state
    THEN {held[t] : t \in {u \in Threads : pc[u] \in InRegister}}
    ELSE {armed} \ {NoTask}

\* Altered form: the REGISTERING bit of the old word is not looked at.
WakeIgnoresRegistering(t) ==
    /\ pc[t] = "idle"
    /\ state' = state \cup {WAKING}
    /\ owed' = owed \cup Registered
    /\ pc' = [pc EXCEPT ![t] = IF WAKING \notin state THEN "wake_take" ELSE "idle"]
    /\ UNCHANGED <<waker, held, notified, armed>>

\* fetch_or(WAKING): only the caller that finds WAITING goes on to the cell.
Wake(t) ==
    /\ pc[t] = "idle"
    /\ state' = state \cup {WAKING}
    /\ owed' = owed \cup Registered
    /\ pc' = [pc EXCEPT ![t] = IF state = WAITING THEN "wake_take" ELSE "idle"]
    /\ UNCHANGED <<waker, held, notified, armed>>

WakeTake(t) ==
    /\ pc[t] = "wake_take"
    /\ held' = [held EXCEPT ![t] = waker]
    /\ waker' = NoTask
    /\ armed' = NoTask
    /\ pc' = [pc EXCEPT ![t] = "wake_swap"]
    /\ UNCHANGED <<state, notified, owed>>

WakeSwap(t) ==
    /\ pc[t] = "wake_swap"
    /\ state' = WAITING
    /\ pc' = [pc EXCEPT ![t] = IF held[t] = NoTask THEN "idle" ELSE "notify"]
    /\ UNCHANGED <<waker, held, notified, armed, owed>>

-----------------------------------------------------------------------------
(* Waker::wake and Waker::wake_by_ref, and the executor                    *)

Notify(t) ==
    /\ pc[t] = "notify"
    /\ notified' = notified \cup {held[t]}
    /\ owed' = owed \ {held[t]}
    /\ held' = [held EXCEPT ![t] = NoTask]
    /\ pc' = [pc EXCEPT ![t] = "idle"]
    /\ UNCHANGED <<state, waker, armed>>

\* The executor runs a scheduled task.
RunTask(w) ==
    /\ w \in notified
    /\ notified' = notified \ {w}
    /\ UNCHANGED <<state, waker, pc, held, armed, owed>>

Step(t) ==
    \/ RegisterStore(t) \/ RegisterRelease(t) \/ RegisterTake(t) \/ RegisterSwap(t)
    \/ WakeTake(t) \/ WakeSwap(t)
    \/ Notify(t)

Next ==
    \/ \E t \in Threads : (\E w \in Tasks : Register(t, w)) \/ Wake(t) \/ Step(t)
    \/ \E w \in Tasks : RunTask(w)

\* A thread inside register or wake runs on: neither ever waits for another.
Fairness == \A t \in Threads : WF_vars(Step(t))

Spec == Init /\ [][Next]_vars /\ Fairness

-----------------------------------------------------------------------------
(* Properties                                                              *)

\* Type invariant of the word, the cell and the threads inside register and wake.
TypeOK ==
    /\ state \in SUBSET {REGISTERING, WAKING}
    /\ waker \in Tasks \cup {NoTask}
    /\ pc \in [Threads -> {"idle", "notify"} \cup InRegister \cup InTake]
    /\ held \in [Threads -> Tasks \cup {NoTask}]
    /\ notified \in SUBSET Tasks
    /\ armed \in Tasks \cup {NoTask}
    /\ owed \in SUBSET Tasks

\* The unsafe accesses of the cell never overlap: of all the threads between
\* acquiring and releasing the cell, in register or in take, there is one.
CellExclusion ==
    \A t, u \in Threads :
        /\ pc[t] \in InRegister \cup InTake
        /\ pc[u] \in InRegister \cup InTake
        => t = u

\* The assumptions the code asserts: a register whose release fails finds
\* both bits set, takes a waker that is there, and take gives back the word
\* exactly as it left it (debug_assert_eq, unwrap and debug_assert).
AssertionsHold ==
    \A t \in Threads :
        /\ pc[t] = "reg_take" => state = {REGISTERING, WAKING} /\ waker # NoTask
        /\ pc[t] = "reg_release" => state \in {{REGISTERING}, {REGISTERING, WAKING}}
        /\ pc[t] = "wake_swap" => state = {WAKING}

\* A thread that will, by its own remaining steps, invoke the waker of w.
Carries(t, w) ==
    \/ pc[t] \in {"reg_store", "reg_release", "reg_take"} /\ held[t] = w /\ WAKING \in state
    \/ pc[t] \in {"reg_swap", "wake_swap", "notify"} /\ held[t] = w
    \/ pc[t] = "wake_take" /\ waker = w

\* No wake is lost: a task that registered before a wake started has been
\* notified since, or some thread is on its way to notify it.
NoLostWake == \A w \in owed : \E t \in Threads : Carries(t, w)

\* "Any calls to wake that happen after a call to register will notify the
\* register caller's task": the notification comes, whatever the interleaving.
WakeArrives == \A w \in Tasks : w \in owed ~> w \in notified

=============================================================================
