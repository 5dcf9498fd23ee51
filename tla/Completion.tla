-------------------------------- MODULE Completion --------------------------------
(***************************************************************************)
(* src/completion.rs: SyncCompletion and AsyncCompletion, the hand-over of *)
(* one result from a foreign callback to the Rust thread that blocks, or   *)
(* the task that awaits.                                                   *)
(*                                                                         *)
(* Both are an Arc with two references, the handle's and the one that was  *)
(* given away as the raw context, a consumed flag, and a slot for the      *)
(* result behind a mutex; they differ in how the callback tells the        *)
(* waiter.  A critical section of the mutex is one action.                 *)
(*                                                                         *)
(* A result is known by the callback that brought it.  The contract of     *)
(* complete_with_result is kept: the context is live during every call, so *)
(* a duplicate call comes only while somebody still holds the allocation.  *)
(***************************************************************************)
EXTENDS Integers, FiniteSets

CONSTANTS
    Callbacks,      \* calls of complete_with_result: one and its duplicates
    NoCallback,     \* no result
    MaxWakers       \* bound: the future is polled with this many different wakers

NoWaker == 0
Wakers == 1 .. MaxWakers

ASSUME CompletionAssumption ==
    /\ MaxWakers \in Nat \ {0}
    /\ NoCallback \notin Callbacks /\ "timeout" \notin Callbacks \cup {NoCallback}

VARIABLES
    kind,           \* "sync" or "async"
    strong,         \* strong count of the Arc
    consumed,       \* Inner.consumed
    result, waker,  \* the state behind the mutex
    pc,             \* pc[k]: where callback k is
    taken,          \* the waker the callback took from the state
    handle,         \* where the owner of the completion or the future is
    timed,          \* it is in wait_timeout, not in wait
    expired,        \* the timeout has elapsed
    answer,         \* what wait, wait_timeout or the future answered
    current,        \* the waker of the last poll
    notified,       \* the wakers invoked since the task was polled with them
    first,          \* history: the callback that won the context
    dropped,        \* history: the results that were dropped
    inTime          \* history: the result was stored before the timeout elapsed

Inner == <<strong, consumed, result, waker>>
Call == <<pc, taken>>
Owner == <<handle, timed, expired, answer, current, notified>>
History == <<first, dropped, inTime>>
vars == <<kind, Inner, Call, Owner, History>>

\* SyncCompletion::new and AsyncCompletion::create
Init ==
    /\ kind \in {"sync", "async"}
    /\ strong = 2
    /\ consumed = FALSE
    /\ result = NoCallback
    /\ waker = NoWaker
    /\ pc = [k \in Callbacks |-> "idle"]
    /\ taken = NoWaker
    /\ handle = "idle"
    /\ timed = FALSE
    /\ expired = FALSE
    /\ answer = NoCallback
    /\ current = NoWaker
    /\ notified = {}
    /\ first = NoCallback
    /\ dropped = {}
    /\ inTime = FALSE

Goto(k, l) == pc' = [pc EXCEPT ![k] = l]

\* A reference is dropped, and with the last one all that is left in the state.
DropArc ==
    /\ strong' = strong - 1
    /\ IF strong' = 0
       THEN /\ result' = NoCallback
            /\ waker' = NoWaker
            /\ dropped' = dropped \cup ({result} \ {NoCallback})
       ELSE UNCHANGED <<result, waker, dropped>>

-----------------------------------------------------------------------------
(* complete_with_result                                                    *)

\* Altered form: a duplicate is one that finds a result in place.
SwapLooksAtResult(k) ==
    /\ pc[k] = "idle" /\ strong > 0
    /\ IF result # NoCallback
       THEN Goto(k, "done") /\ dropped' = dropped \cup {k} /\ UNCHANGED first
       ELSE Goto(k, "store") /\ first' = (IF first = NoCallback THEN k ELSE first) /\ UNCHANGED dropped
    /\ UNCHANGED <<kind, strong, consumed, result, waker, taken, Owner, inTime>>

\* consumed.swap(true): a duplicate returns and its result is dropped, the
\* winner takes over the reference of the context.
Swap(k) ==
    /\ pc[k] = "idle" /\ strong > 0
    /\ consumed' = TRUE
    /\ IF consumed
       THEN Goto(k, "done") /\ dropped' = dropped \cup {k} /\ UNCHANGED first
       ELSE Goto(k, "store") /\ first' = k /\ UNCHANGED dropped
    /\ UNCHANGED <<kind, strong, result, waker, taken, Owner, inTime>>

\* The critical section; AsyncCompletion also takes the waker out.
Store(k) ==
    /\ pc[k] = "store"
    /\ result' = k
    /\ dropped' = dropped \cup ({result} \ {NoCallback})
    /\ inTime' = ~expired
    /\ IF kind = "async"
       THEN taken' = waker /\ waker' = NoWaker
       ELSE UNCHANGED <<taken, waker>>
    /\ Goto(k, "notify")
    /\ UNCHANGED <<kind, strong, consumed, Owner, first>>

\* cvar.notify_one, or the wake of the waker if there was one
Notify(k) ==
    /\ pc[k] = "notify"
    /\ handle' = IF kind = "sync" /\ handle = "blocked" THEN "lock" ELSE handle
    /\ notified' = notified \cup ({taken} \ {NoWaker})
    /\ taken' = NoWaker
    /\ Goto(k, "release")
    /\ UNCHANGED <<kind, Inner, timed, expired, answer, current, History>>

\* The local Arc goes out of scope.
Release(k) ==
    /\ pc[k] = "release"
    /\ DropArc
    /\ Goto(k, "done")
    /\ UNCHANGED <<kind, consumed, taken, Owner, first, inTime>>

-----------------------------------------------------------------------------
(* SyncCompletion::wait and wait_timeout                                   *)

CallWait ==
    /\ kind = "sync" /\ handle = "idle"
    /\ handle' = "lock"
    /\ timed' \in BOOLEAN
    /\ UNCHANGED <<kind, Inner, Call, expired, answer, current, notified, History>>

\* state.result.take(), by the waiter with the mutex or by the poll
TakeResult(l) ==
    /\ handle = l /\ result # NoCallback
    /\ answer' = result
    /\ result' = NoCallback
    /\ handle' = "leave"
    /\ UNCHANGED <<kind, strong, consumed, waker, Call, timed, expired, current, notified, History>>

\* Altered form: the clock is looked at before the result.
GiveUpFirst ==
    /\ handle = "lock" /\ timed /\ expired
    /\ answer' = "timeout"
    /\ handle' = "leave"
    /\ UNCHANGED <<kind, Inner, Call, timed, expired, current, notified, History>>

\* checked_sub answers None: wait_timeout returns None.
GiveUp ==
    /\ handle = "lock" /\ result = NoCallback /\ timed /\ expired
    /\ answer' = "timeout"
    /\ handle' = "leave"
    /\ UNCHANGED <<kind, Inner, Call, timed, expired, current, notified, History>>

\* cvar.wait and cvar.wait_timeout give the mutex back and block in one step.
Block ==
    /\ handle = "lock" /\ result = NoCallback /\ ~(timed /\ expired)
    /\ handle' = "blocked"
    /\ UNCHANGED <<kind, Inner, Call, timed, expired, answer, current, notified, History>>

WakeUp ==
    /\ handle = "blocked"
    /\ handle' = "lock"
    /\ UNCHANGED <<kind, Inner, Call, timed, expired, answer, current, notified, History>>

\* The condition variable's own timeout, which it keeps, and a spurious wakeup.
TimeoutWakeup == timed /\ expired /\ WakeUp
SpuriousWakeup == WakeUp

Expire ==
    /\ timed /\ ~expired /\ handle \in {"lock", "blocked"}
    /\ expired' = TRUE
    /\ UNCHANGED <<kind, Inner, Call, handle, timed, answer, current, notified, History>>

-----------------------------------------------------------------------------
(* AsyncCompletionFuture                                                   *)

\* A poll with the waker w begins; the mutex is not yet taken.
BeginPoll(w) ==
    /\ handle' = "poll"
    /\ current' = w
    /\ notified' = notified \ {w}
    /\ UNCHANGED <<kind, Inner, Call, timed, expired, answer, History>>

PollFirst == kind = "async" /\ handle = "idle" /\ \E w \in Wakers : BeginPoll(w)
PollAgain == handle = "pending" /\ current \in notified /\ BeginPoll(current)

\* select! or join polls it for another reason, or moves it to another task.
PollUnasked == handle = "pending" /\ \E w \in Wakers : BeginPoll(w)

\* Altered form: the first waker stays.
PollPendingKeepsWaker ==
    /\ handle = "poll" /\ result = NoCallback
    /\ waker' = IF waker = NoWaker THEN current ELSE waker
    /\ handle' = "pending"
    /\ UNCHANGED <<kind, strong, consumed, result, Call, timed, expired, answer, current, notified, History>>

\* will_wake keeps an equal waker, any other is replaced.
PollPending ==
    /\ handle = "poll" /\ result = NoCallback
    /\ waker' = current
    /\ handle' = "pending"
    /\ UNCHANGED <<kind, strong, consumed, result, Call, timed, expired, answer, current, notified, History>>

-----------------------------------------------------------------------------

\* wait returns, or the future that is ready is dropped: the handle's Arc goes.
Leave ==
    /\ handle = "leave"
    /\ handle' = "gone"
    /\ DropArc
    /\ UNCHANGED <<kind, consumed, Call, timed, expired, answer, current, notified, first, inTime>>

\* The handle is dropped instead of waited for; the future also while pending.
DropHandle ==
    /\ handle \in {"idle", "pending"}
    /\ handle' = "gone"
    /\ DropArc
    /\ UNCHANGED <<kind, consumed, Call, timed, expired, answer, current, notified, first, inTime>>

Continue(k) == Store(k) \/ Notify(k) \/ Release(k)

Wait == TakeResult("lock") \/ GiveUp \/ Block \/ TimeoutWakeup

Poll == TakeResult("poll") \/ PollPending \/ PollAgain

\* The allocation is gone, and nobody may use the context any more.
Freed == strong = 0 /\ UNCHANGED vars

Next ==
    \/ \E k \in Callbacks : Swap(k) \/ Continue(k)
    \/ CallWait \/ Wait \/ SpuriousWakeup \/ Expire
    \/ PollFirst \/ PollUnasked \/ Poll
    \/ Leave \/ DropHandle
    \/ Freed

\* A callback that has begun is finished, the mutex is granted, time passes, and
\* the executor polls a woken task.  Nobody has to call, wait or drop.
Fairness ==
    /\ \A k \in Callbacks : WF_vars(Continue(k))
    /\ WF_vars(Wait) /\ WF_vars(Expire) /\ WF_vars(Poll) /\ WF_vars(Leave)

Spec == Init /\ [][Next]_vars /\ Fairness

-----------------------------------------------------------------------------
(* Properties                                                              *)

\* Each use of the allocation rests on a reference of its own: the owner's as
\* long as the handle exists, the context's for the one callback that is past
\* the flag.  So notify_one and the wake, which come after the mutex was given
\* back, find the allocation live although the waiter may have left with the
\* result already.
References ==
    LET working == {k \in Callbacks : pc[k] \in {"store", "notify", "release"}}
    IN  strong = (IF handle = "gone" THEN 0 ELSE 1)
                 + (IF first = NoCallback THEN 1 ELSE Cardinality(working))

\* The waiter is given the result of the callback that came first, and the
\* result of every other one, as that of a callback that comes after the waiter
\* has given up, is dropped: each is in one place.
FirstResultIsAnswer ==
    /\ answer \in Callbacks => answer = first
    /\ \A k \in Callbacks : pc[k] \in {"notify", "release", "done"} =>
          Cardinality({p \in {"slot", "answer", "dropped"} :
              \/ p = "slot" /\ result = k
              \/ p = "answer" /\ answer = k
              \/ p = "dropped" /\ k \in dropped}) = 1

\* wait_timeout answers None only after its time, and not if the result was
\* there in time, however late the waiter gets the mutex back.
TimeoutIsLate == answer = "timeout" => expired /\ ~inTime

\* A callback that was called, or the end of the timeout, ends the wait: the
\* blocked thread and the task with whatever waker it was polled last.
WaitEnds == first # NoCallback \/ expired ~> handle \notin {"lock", "blocked", "poll", "pending"}

=============================================================================
