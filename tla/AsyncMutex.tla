-------------------------------- MODULE AsyncMutex --------------------------------
(***************************************************************************)
(* src/future/mutex.rs: an asynchronous lock, a flag and an ordered map of *)
(* wakers behind a std mutex.  Unlocking does not hand the lock over: it   *)
(* wakes the first waiter, which stays in the map until it has the lock,   *)
(* and anybody may take the lock before it.                                *)
(*                                                                         *)
(* A critical section of the std mutex is one action; the waker that was   *)
(* cloned in it is invoked in a step of its own.                           *)
(***************************************************************************)
EXTENDS Naturals, FiniteSets

CONSTANTS
    Tasks,
    NoWaker,
    MaxFutures,     \* bound: the number of MutexLockFutures ever polled
    MaxWakers       \* bound: a task polls with this many different wakers

ASSUME AsyncMutexAssumption ==
    /\ MaxFutures \in Nat /\ MaxWakers \in Nat \ {0}
    /\ NoWaker \notin Tasks \X (1 .. MaxWakers)

Wakers == Tasks \X (1 .. MaxWakers)
NoWaiter == 0       \* MutexLockFuture.waiter is None; ids start at 1

VARIABLES
    locked, next_waiter,    \* State
    waiters,        \* State.waiters: the pairs <<id, waker>>
    pc,             \* pc[t]: what t is doing
    waiter,         \* waiter[t]: MutexLockFuture.waiter
    current,        \* current[t]: the waker of t's last poll
    waking,         \* waking[t]: the waker t has cloned and will invoke
    notified,       \* the wakers invoked since their task was polled with them
    futures         \* number of futures polled so far

State == <<locked, next_waiter, waiters>>
vars == <<State, pc, waiter, current, waking, notified, futures>>

Init ==
    /\ locked = FALSE
    /\ next_waiter = 0
    /\ waiters = {}
    /\ pc = [t \in Tasks |-> "idle"]
    /\ waiter = [t \in Tasks |-> NoWaiter]
    /\ current = [t \in Tasks |-> NoWaker]
    /\ waking = [t \in Tasks |-> NoWaker]
    /\ notified = {}
    /\ futures = 0

Goto(t, l) == pc' = [pc EXCEPT ![t] = l]

\* Mutex::wake_first_waiter with the map m: clone, unlock, and then wake.
WakeFirstWaiter(t, m) ==
    IF m = {}
    THEN Goto(t, "idle") /\ UNCHANGED waking
    ELSE /\ Goto(t, "wake")
         /\ \E e \in m : /\ \A f \in m : e[1] <= f[1]
                         /\ waking' = [waking EXCEPT ![t] = e[2]]

Wake(t) ==
    /\ pc[t] = "wake"
    /\ notified' = notified \cup {waking[t]}
    /\ waking' = [waking EXCEPT ![t] = NoWaker]
    /\ Goto(t, "idle")
    /\ UNCHANGED <<State, waiter, current, futures>>

-----------------------------------------------------------------------------

\* Altered form: what mem::replace returned is not looked at.
TryLockUnchecked(t) ==
    /\ pc[t] = "idle"
    /\ locked' = TRUE
    /\ Goto(t, "holding")
    /\ UNCHANGED <<next_waiter, waiters, waiter, current, waking, notified, futures>>

TryLock(t) ==
    /\ pc[t] = "idle"
    /\ locked' = TRUE
    /\ Goto(t, IF locked THEN "idle" ELSE "holding")
    /\ UNCHANGED <<next_waiter, waiters, waiter, current, waking, notified, futures>>

\* Drop for MutexGuard
Unlock(t) ==
    /\ pc[t] = "holding"
    /\ locked' = FALSE
    /\ WakeFirstWaiter(t, waiters)
    /\ UNCHANGED <<next_waiter, waiters, waiter, current, notified, futures>>

BeginPoll(t, w) ==
    /\ w[1] = t
    /\ current' = [current EXCEPT ![t] = w]
    /\ notified' = notified \ {w}
    /\ Goto(t, "poll")
    /\ UNCHANGED <<State, waiter, waking>>

\* lock().await: a new future, polled for the first time.
Lock(t) ==
    /\ pc[t] = "idle" /\ futures < MaxFutures
    /\ futures' = futures + 1
    /\ \E w \in Wakers : BeginPoll(t, w)

\* The executor polls a task whose waker was invoked.
PollAgain(t) ==
    /\ pc[t] = "pending" /\ current[t] \in notified
    /\ futures' = futures
    /\ BeginPoll(t, current[t])

\* The task polls for another reason, or with another waker.
PollUnasked(t) ==
    /\ pc[t] = "pending"
    /\ futures' = futures
    /\ \E w \in Wakers : BeginPoll(t, w)

\* The entry of t's future leaves the map.
Remaining(t) == {e \in waiters : e[1] # waiter[t]}

\* poll: the lock is free
PollLocks(t) ==
    /\ pc[t] = "poll" /\ ~locked
    /\ locked' = TRUE
    /\ waiters' = Remaining(t)
    /\ waiter' = [waiter EXCEPT ![t] = NoWaiter]
    /\ Goto(t, "holding")
    /\ UNCHANGED <<next_waiter, current, waking, notified, futures>>

\* Altered form: an entry keeps the waker it was made with.
PollWaitsOnce(t) ==
    /\ pc[t] = "poll" /\ locked
    /\ next_waiter' = IF waiter[t] = NoWaiter THEN next_waiter + 1 ELSE next_waiter
    /\ waiter' = [waiter EXCEPT ![t] = IF @ = NoWaiter THEN next_waiter' ELSE @]
    /\ waiters' = IF waiter[t] = NoWaiter THEN waiters \cup {<<next_waiter', current[t]>>} ELSE waiters
    /\ Goto(t, "pending")
    /\ UNCHANGED <<locked, current, waking, notified, futures>>

\* poll: it is not; the first time the future gets an id and with it its place.
PollWaits(t) ==
    /\ pc[t] = "poll" /\ locked
    /\ next_waiter' = IF waiter[t] = NoWaiter THEN next_waiter + 1 ELSE next_waiter
    /\ waiter' = [waiter EXCEPT ![t] = IF @ = NoWaiter THEN next_waiter' ELSE @]
    /\ waiters' = Remaining(t) \cup {<<waiter'[t], current[t]>>}
    /\ Goto(t, "pending")
    /\ UNCHANGED <<locked, current, waking, notified, futures>>

\* Altered form: the entry goes, and with it the wakeup it may have been given.
DropFutureSilently(t) ==
    /\ pc[t] = "pending"
    /\ waiters' = Remaining(t)
    /\ waiter' = [waiter EXCEPT ![t] = NoWaiter]
    /\ Goto(t, "idle")
    /\ UNCHANGED <<locked, next_waiter, current, waking, notified, futures>>

\* Drop for MutexLockFuture: a free lock is offered to the next waiter.
DropFuture(t) ==
    /\ pc[t] = "pending"
    /\ waiters' = Remaining(t)
    /\ waiter' = [waiter EXCEPT ![t] = NoWaiter]
    /\ IF locked
       THEN Goto(t, "idle") /\ UNCHANGED waking
       ELSE WakeFirstWaiter(t, Remaining(t))
    /\ UNCHANGED <<locked, next_waiter, current, notified, futures>>

-----------------------------------------------------------------------------

Continue(t) == Wake(t) \/ PollAgain(t) \/ PollLocks(t) \/ PollWaits(t)

Next ==
    \E t \in Tasks :
        TryLock(t) \/ Unlock(t) \/ Lock(t) \/ PollUnasked(t) \/ DropFuture(t) \/ Continue(t)

\* Threads run, and the executor polls a task that was woken.  A holder may keep
\* the lock for ever.
Fairness == \A t \in Tasks : WF_vars(Continue(t))

Spec == Init /\ [][Next]_vars /\ Fairness

-----------------------------------------------------------------------------
(* Properties                                                              *)

\* There is at most one guard, and the flag is set exactly while there is one.
MutualExclusion ==
    /\ \A t, u \in Tasks : pc[t] = "holding" /\ pc[u] = "holding" => t = u
    /\ locked <=> \E t \in Tasks : pc[t] = "holding"

\* A free lock with waiters is offered to one of them: it is being polled, or
\* was notified with the waker of its last poll, or will be.  So the wakeup
\* does not die with a future that was woken and then dropped, or polled
\* with another waker.
LockIsOffered ==
    ~locked /\ (\E t \in Tasks : pc[t] = "pending") =>
        \E t \in Tasks :
            \/ pc[t] = "poll"
            \/ /\ pc[t] = "pending"
               /\ current[t] \in notified \/ \E u \in Tasks : waking[u] = current[t]

\* A free lock does not stay free while somebody waits for it.
LockIsTaken ==
    ~locked /\ (\E t \in Tasks : pc[t] = "pending")
        ~> locked \/ \A t \in Tasks : pc[t] # "pending"

=============================================================================
