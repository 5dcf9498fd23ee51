-------------------------------- MODULE AsyncStream -------------------------------
(***************************************************************************)
(* src/stream.rs: BoundedAsyncStream and AsyncStreamSender, a bounded      *)
(* buffer behind a mutex, with a condition variable for producers that     *)
(* block and a list of wakers for consumers that await.                    *)
(*                                                                         *)
(* A critical section of the mutex is one action.  What the code does      *)
(* after it gives the mutex back - waking consumers one by one, notifying  *)
(* the condition variable - is a step of its own.  Items are told apart by *)
(* nobody here: the buffer is its length.                                  *)
(*                                                                         *)
(* The thread of a sender that waits on the condition variable is at       *)
(* "blocked" until a notification, or nothing at all, makes it "woken";    *)
(* then it takes the mutex and looks at the condition again.               *)
(*                                                                         *)
(* A consumer is a task; it may await a NextItem, or poll the stream as a  *)
(* futures_core::Stream.  Each poll comes with a waker of the task.        *)
(***************************************************************************)
EXTENDS Integers, FiniteSets

CONSTANTS
    Senders,        \* threads that may own an AsyncStreamSender
    Consumers,      \* tasks that share the BoundedAsyncStream
    Capacity,
    MaxFutures,     \* bound: the number of NextItem futures ever created
    MaxWakers       \* bound: a task is polled with this many different wakers

ASSUME AsyncStreamAssumption ==
    /\ Capacity \in Nat \ {0} /\ MaxFutures \in Nat /\ MaxWakers \in Nat \ {0}
    /\ Senders # {} /\ Consumers # {} /\ Senders \cap Consumers = {}
    /\ IsFiniteSet(Senders)

Threads == Senders \cup Consumers
Wakers == Consumers \X (1 .. MaxWakers)

STREAM_WAITER == 0
NoWaiter == -1      \* NextItem.waiter is None

VARIABLES
    buffered,       \* buffer.len()
    waiters,        \* the pairs <<id, waker>> of State.waiters
    next_waiter, closed, consumer_gone, sender_count,   \* State
    owners,         \* the threads that own a sender
    pc,             \* pc[t]: where t is, after the last critical section
    waking,         \* waking[s]: the wakers s took and has not invoked yet
    waiter,         \* waiter[c]: NextItem.waiter, or STREAM_WAITER
    current,        \* current[c]: the waker of c's last poll
    notified,       \* the wakers invoked since their task was last polled
    futures,        \* number of NextItem futures created
    ended           \* history: some await was answered None

State == <<buffered, waiters, next_waiter, closed, consumer_gone, sender_count>>
Tasks == <<waiter, current, notified, futures, ended>>
vars == <<State, owners, pc, waking, Tasks>>

Init ==
    /\ buffered = 0
    /\ waiters = {}
    /\ next_waiter = 1
    /\ closed = FALSE
    /\ consumer_gone = FALSE
    /\ sender_count = 1
    /\ \E s \in Senders : owners = {s}
    /\ pc = [t \in Threads |-> "idle"]
    /\ waking = [s \in Senders |-> {}]
    /\ waiter = [c \in Consumers |-> NoWaiter]
    /\ current \in [Consumers -> {w \in Wakers : w[2] = 1}]
    /\ \A c \in Consumers : current[c][1] = c
    /\ notified = {}
    /\ futures = 0
    /\ ended = FALSE

Goto(t, l) == pc' = [pc EXCEPT ![t] = l]

Full == buffered >= Capacity

Blocked == {t \in Senders : pc[t] = "blocked"}

\* Condvar::notify_one and notify_all, called by t, which goes on to label l.
NotifyOne(t, l) ==
    \/ Blocked = {} /\ Goto(t, l)
    \/ \E b \in Blocked : pc' = [pc EXCEPT ![t] = l, ![b] = "woken"]

NotifyAll(t, l) ==
    pc' = [u \in Threads |-> IF u = t THEN l ELSE IF u \in Blocked THEN "woken" ELSE pc[u]]

-----------------------------------------------------------------------------
(* AsyncStreamSender                                                       *)

CanSend(s) == s \in owners /\ pc[s] = "idle"

\* mem::take(&mut state.waiters): s goes on to wake them one by one.
TakeWaiters(s) ==
    /\ waking' = [waking EXCEPT ![s] = {e[2] : e \in waiters}]
    /\ waiters' = {}
    /\ Goto(s, "wake")

\* Altered form: the new handle is not counted.
CloneUncounted(s, new) ==
    /\ CanSend(s)
    /\ new \notin owners /\ pc[new] = "idle"
    /\ owners' = owners \cup {new}
    /\ UNCHANGED <<State, pc, waking, Tasks>>

Clone(s, new) ==
    /\ CanSend(s)
    /\ new \notin owners /\ pc[new] = "idle"
    /\ owners' = owners \cup {new}
    /\ sender_count' = sender_count + 1
    /\ UNCHANGED <<buffered, waiters, next_waiter, closed, consumer_gone, pc, waking, Tasks>>

\* The lossy push: into a full buffer it drops the oldest item.
Push(s) ==
    /\ CanSend(s)
    /\ buffered' = IF Full THEN buffered ELSE buffered + 1
    /\ TakeWaiters(s)
    /\ UNCHANGED <<next_waiter, closed, consumer_gone, sender_count, owners, Tasks>>

\* push_or_block once it does not have to wait: the stream is gone, or there is room.
Deliver(s) ==
    \/ /\ consumer_gone
       /\ Goto(s, "idle")
       /\ UNCHANGED <<State, owners, waking, Tasks>>
    \/ /\ ~consumer_gone
       /\ buffered' = buffered + 1
       /\ TakeWaiters(s)
       /\ UNCHANGED <<next_waiter, closed, consumer_gone, sender_count, owners, Tasks>>

MustWait == ~consumer_gone /\ Full

Block(s) ==
    /\ Goto(s, "blocked")
    /\ UNCHANGED <<State, owners, waking, Tasks>>

PushOrBlock(s) ==
    /\ CanSend(s)
    /\ IF MustWait THEN Block(s) ELSE Deliver(s)

\* Altered form: wait instead of wait_while.
ResumeUnchecked(s) ==
    /\ pc[s] = "woken"
    /\ Deliver(s)

\* wait_while has the mutex again.
Resume(s) ==
    /\ pc[s] = "woken"
    /\ IF MustWait THEN Block(s) ELSE Deliver(s)

\* A wait on a condition variable may end without a notification.
SpuriousWakeup(s) ==
    /\ pc[s] = "blocked"
    /\ Goto(s, "woken")
    /\ UNCHANGED <<State, owners, waking, Tasks>>

\* wake_waiters: one of the wakers taken, or none left and the call returns.
WakeOne(s) ==
    /\ pc[s] = "wake"
    /\ \E w \in waking[s] :
          /\ notified' = notified \cup {w}
          /\ waking' = [waking EXCEPT ![s] = @ \ {w}]
    /\ UNCHANGED <<State, owners, pc, waiter, current, futures, ended>>

WakeDone(s) ==
    /\ pc[s] = "wake"
    /\ waking[s] = {}
    /\ Goto(s, "idle")
    /\ UNCHANGED <<State, owners, waking, Tasks>>

\* Altered form: the last sender closes the stream and wakes nobody.
DropSenderSilently(s) ==
    /\ CanSend(s)
    /\ owners' = owners \ {s}
    /\ sender_count' = sender_count - 1
    /\ closed' = (closed \/ sender_count' = 0)
    /\ UNCHANGED <<buffered, waiters, next_waiter, consumer_gone, pc, waking, Tasks>>

\* Drop for AsyncStreamSender: counted and closed in one critical section.
DropSender(s) ==
    /\ CanSend(s)
    /\ owners' = owners \ {s}
    /\ sender_count' = sender_count - 1
    /\ IF sender_count' = 0
       THEN closed' = TRUE /\ TakeWaiters(s)
       ELSE UNCHANGED <<closed, waiters, pc, waking>>
    /\ UNCHANGED <<buffered, next_waiter, consumer_gone, Tasks>>

-----------------------------------------------------------------------------
(* BoundedAsyncStream                                                      *)

OthersIdle(c) == \A d \in Consumers \ {c} : pc[d] = "idle"

Alive == ~consumer_gone

\* A poll of c with the waker w begins: w is cloned, the mutex not yet taken.
BeginPoll(c, w, id) ==
    /\ w[1] = c
    /\ current' = [current EXCEPT ![c] = w]
    /\ notified' = notified \ {w}
    /\ waiter' = [waiter EXCEPT ![c] = id]
    /\ Goto(c, "poll")
    /\ UNCHANGED <<State, owners, waking, ended>>

\* next().await: a new NextItem, polled for the first time.
Next1(c) ==
    /\ Alive /\ pc[c] = "idle" /\ futures < MaxFutures
    /\ futures' = futures + 1
    /\ \E w \in Wakers : BeginPoll(c, w, NoWaiter)

\* Stream::poll_next: &mut self, so no NextItem borrows the stream.
StreamNext(c) ==
    /\ Alive /\ pc[c] = "idle" /\ OthersIdle(c)
    /\ futures' = futures
    /\ \E w \in Wakers : BeginPoll(c, w, STREAM_WAITER)

\* The executor polls a task whose waker was invoked.
PollAgain(c) ==
    /\ pc[c] = "pending" /\ current[c] \in notified
    /\ futures' = futures
    /\ BeginPoll(c, current[c], waiter[c])

\* The task polls its pending future for another reason, or with another waker.
PollUnasked(c) ==
    /\ pc[c] = "pending"
    /\ futures' = futures
    /\ \E w \in Wakers : BeginPoll(c, w, waiter[c])

\* State::register_waiter: the future's entry gets the waker of this poll.
Register(c, id) == waiters' = {e \in waiters : e[1] # id} \cup {<<id, current[c]>>}

\* State::remove_waiter(waiter.take())
Remove(c) ==
    /\ waiters' = {e \in waiters : e[1] # waiter[c]}
    /\ waiter' = [waiter EXCEPT ![c] = NoWaiter]

\* poll_next_item: an item
PollItem(c) ==
    /\ pc[c] = "poll"
    /\ buffered > 0
    /\ buffered' = buffered - 1
    /\ Remove(c)
    /\ Goto(c, "made_room")
    /\ UNCHANGED <<next_waiter, closed, consumer_gone, sender_count, owners, waking,
                   current, notified, futures, ended>>

\* poll_next_item: the end
PollEnd(c) ==
    /\ pc[c] = "poll"
    /\ buffered = 0 /\ closed
    /\ Remove(c)
    /\ ended' = TRUE
    /\ Goto(c, "idle")
    /\ UNCHANGED <<buffered, next_waiter, closed, consumer_gone, sender_count, owners, waking,
                   current, notified, futures>>

\* poll_next_item: Pending; the first time the future gets an id.
PollPending(c) ==
    /\ pc[c] = "poll"
    /\ buffered = 0 /\ ~closed
    /\ LET id == IF waiter[c] = NoWaiter THEN next_waiter ELSE waiter[c]
       IN  /\ Register(c, id)
           /\ waiter' = [waiter EXCEPT ![c] = id]
           /\ next_waiter' = IF waiter[c] = NoWaiter THEN next_waiter + 1 ELSE next_waiter
    /\ Goto(c, "pending")
    /\ UNCHANGED <<buffered, closed, consumer_gone, sender_count, owners, waking,
                   current, notified, futures, ended>>

\* capacity_available.notify_one(), after poll_next_item or try_next took an item
MadeRoom(c) ==
    /\ pc[c] = "made_room"
    /\ NotifyOne(c, "idle")
    /\ UNCHANGED <<State, owners, waking, Tasks>>

\* Altered form: NextItem has no Drop.
CancelLeavesWaker(c) ==
    /\ pc[c] = "pending"
    /\ waiter' = [waiter EXCEPT ![c] = NoWaiter]
    /\ Goto(c, "idle")
    /\ UNCHANGED <<State, owners, waking, current, notified, futures, ended>>

\* Drop for NextItem; a task that polls the Stream goes away without a trace,
\* and leaves its entry.
Cancel(c) ==
    /\ pc[c] = "pending"
    /\ IF waiter[c] = STREAM_WAITER
       THEN waiter' = [waiter EXCEPT ![c] = NoWaiter] /\ UNCHANGED waiters
       ELSE Remove(c)
    /\ Goto(c, "idle")
    /\ UNCHANGED <<buffered, next_waiter, closed, consumer_gone, sender_count, owners, waking,
                   current, notified, futures, ended>>

TryNext(c) ==
    /\ Alive /\ pc[c] = "idle"
    /\ buffered > 0
    /\ buffered' = buffered - 1
    /\ Goto(c, "made_room")
    /\ UNCHANGED <<waiters, next_waiter, closed, consumer_gone, sender_count, owners, waking, Tasks>>

ClearBuffer(c) ==
    /\ Alive /\ pc[c] = "idle"
    /\ buffered' = 0
    /\ Goto(c, "cleared")
    /\ UNCHANGED <<waiters, next_waiter, closed, consumer_gone, sender_count, owners, waking, Tasks>>

\* Altered form: clearing wakes one producer, as taking one item does.
ClearedNotifiesOne(c) ==
    /\ pc[c] = "cleared"
    /\ NotifyOne(c, "idle")
    /\ UNCHANGED <<State, owners, waking, Tasks>>

\* capacity_available.notify_all(), after clear_buffer or the stream's drop
Cleared(c) ==
    /\ pc[c] = "cleared"
    /\ NotifyAll(c, "idle")
    /\ UNCHANGED <<State, owners, waking, Tasks>>

\* Altered form: the stream goes away and notifies nobody.
DropStreamSilently(c) ==
    /\ Alive /\ pc[c] = "idle" /\ OthersIdle(c)
    /\ consumer_gone' = TRUE
    /\ waiters' = {}
    /\ UNCHANGED <<buffered, next_waiter, closed, sender_count, owners, pc, waking, Tasks>>

\* Drop for BoundedAsyncStream: nothing borrows it.  The wakers are dropped.
DropStream(c) ==
    /\ Alive /\ pc[c] = "idle" /\ OthersIdle(c)
    /\ consumer_gone' = TRUE
    /\ waiters' = {}
    /\ Goto(c, "cleared")
    /\ UNCHANGED <<buffered, next_waiter, closed, sender_count, owners, waking, Tasks>>

-----------------------------------------------------------------------------

\* What a thread has begun it goes on with; the rest is up to the program.
Continue(t) ==
    \/ /\ t \in Senders
       /\ Resume(t) \/ WakeOne(t) \/ WakeDone(t)
    \/ /\ t \in Consumers
       /\ PollAgain(t) \/ PollItem(t) \/ PollEnd(t) \/ PollPending(t) \/ MadeRoom(t) \/ Cleared(t)

Begin(t) ==
    \/ /\ t \in Senders
       /\ \/ Push(t) \/ PushOrBlock(t) \/ SpuriousWakeup(t) \/ DropSender(t)
          \/ \E new \in Senders : Clone(t, new)
    \/ /\ t \in Consumers
       /\ \/ Next1(t) \/ StreamNext(t) \/ PollUnasked(t) \/ Cancel(t)
          \/ TryNext(t) \/ ClearBuffer(t) \/ DropStream(t)

\* Both sides are gone and every call has returned.
Terminated ==
    /\ consumer_gone /\ owners = {}
    /\ \A t \in Threads : pc[t] = "idle"
    /\ UNCHANGED vars

Next == (\E t \in Threads : Begin(t) \/ Continue(t)) \/ Terminated

\* The mutex is granted, threads run, and the executor polls woken tasks.  A
\* blocked producer is not a running thread: only a notification is sure to
\* wake it.
Fairness == \A t \in Threads : WF_vars(Continue(t))

Spec == Init /\ [][Next]_vars /\ Fairness

-----------------------------------------------------------------------------
(* Properties                                                              *)

\* Type invariant of the shared state and of the tasks; whichever of push,
\* push_or_block and a producer that comes back from waiting adds to the
\* buffer, it never outgrows its capacity, and senders are counted right.
TypeOK ==
    /\ buffered \in 0 .. Capacity
    /\ waiters \in SUBSET ((0 .. MaxFutures) \X Wakers)
    /\ next_waiter \in 1 .. MaxFutures + 1
    /\ closed \in BOOLEAN /\ consumer_gone \in BOOLEAN /\ ended \in BOOLEAN
    /\ owners \in SUBSET Senders
    /\ sender_count = Cardinality(owners)
    /\ pc \in [Threads -> {"idle", "blocked", "woken", "wake", "poll", "pending", "made_room", "cleared"}]
    /\ waking \in [Senders -> SUBSET Wakers]
    /\ waiter \in [Consumers -> NoWaiter .. MaxFutures]
    /\ current \in [Consumers -> Wakers]
    /\ notified \in SUBSET Wakers
    /\ futures \in 0 .. MaxFutures

\* "Any blocked producers bail out": nobody stays blocked on a stream that is
\* gone, and while producers are blocked every free slot has a producer on
\* its way to it or a notification still to come.
NoLostNotification ==
    LET clearing == {c \in Consumers : pc[c] = "cleared"}
        coming == {s \in Senders : pc[s] = "woken"} \cup {c \in Consumers : pc[c] = "made_room"}
    IN  Blocked # {} /\ clearing = {} =>
            ~consumer_gone /\ Capacity - buffered <= Cardinality(coming)

\* Whoever is registered as waiting has nothing to see: no item, not the end.
WaitersHaveNothing == waiters # {} => buffered = 0 /\ ~closed /\ ~consumer_gone

\* Every sleeping consumer is registered with the waker of its last poll, or
\* that waker has been invoked or is about to be, also when several consumers
\* wait.
SleepersAreRegistered ==
    \A c \in Consumers : pc[c] = "pending" =>
        \/ <<waiter[c], current[c]>> \in waiters
        \/ current[c] \in notified
        \/ \E s \in Senders : pc[s] = "wake" /\ current[c] \in waking[s]

\* The list of waiters does not leak: one entry for each future that waits
\* (or for the Stream), and none for a future that was dropped.
WaitersAreLive ==
    \A e \in waiters :
        /\ \A f \in waiters : e[1] = f[1] => e = f
        /\ e[1] = STREAM_WAITER \/ \E c \in Consumers : waiter[c] = e[1]

\* The waiters are exactly the consumers that have reason to sleep: none with
\* something to see, none missing, and none left over from a future that was
\* dropped.
WaitersAreExact == WaitersHaveNothing /\ SleepersAreRegistered /\ WaitersAreLive

\* None is the end: no sender is left to push, and no item is left behind.
EndIsFinal == ended => owners = {} /\ buffered = 0

\* A consumer that sleeps while there is something to see, an item or the end, is polled, or
\* another consumer took the item.
SleeperIsPolled ==
    \A c \in Consumers :
        LET news == buffered > 0 \/ closed
        IN  pc[c] = "pending" /\ news ~> pc[c] # "pending" \/ ~news

\* Dropping the stream frees the producers that block.
BlockedBailOut == \A s \in Senders : consumer_gone ~> pc[s] \notin {"blocked", "woken"}

=============================================================================
