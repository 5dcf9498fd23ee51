--------------------------------- MODULE SpscAsync --------------------------------
(***************************************************************************)
(* The handles of src/spsc.rs: SpscProducer and SpscConsumer around the    *)
(* ring, the producer_closed flag and the AtomicWaker.                     *)
(*                                                                         *)
(* A call of the ring's push or pop is one step on a queue: SpscRing shows *)
(* that it may be taken for one (ImplementsQueue).  The waker is the       *)
(* module AtomicWaker, at the granularity of its atomic operations.        *)
(*                                                                         *)
(* A consumer is a task that awaits PopFutures (or polls the Stream, which *)
(* does the same).  The executor polls it when its waker was invoked, and  *)
(* may poll it at any time, with the same or with a fresh waker; only the  *)
(* waker of the last poll is sure to bring the task back.                  *)
(***************************************************************************)
EXTENDS Naturals, Sequences

CONSTANTS
    Producers,  \* threads that share the SpscProducer
    Consumers,  \* tasks that share the SpscConsumer
    NoWaker,
    Capacity,
    MaxItems,   \* bound: the number of items that are ever pushed
    MaxWakers   \* bound: a task is polled with this many different wakers

Threads == Producers \cup Consumers
Wakers == Consumers \X (1 .. MaxWakers)

ASSUME SpscAsyncAssumption ==
    /\ Capacity \in Nat \ {0} /\ MaxItems \in Nat /\ MaxWakers \in Nat \ {0}
    /\ Producers \cap Consumers = {}
    /\ NoWaker \notin Wakers

VARIABLES
    queue,              \* Inner.queue: the buffered items, oldest first
    producer_closed,    \* Inner.producer_closed
    handles,            \* the live owners of Inner (Arc)
    pc,                 \* pc[t]: where t is in a method of its handle
    current,            \* current[c]: the waker of c's last poll
    made,               \* number of items pushed so far
    ended,              \* history: the consumers that were given None by an await
    state, waker, wpc, held, notified, armed, owed      \* Inner.waker

wvars == <<state, waker, wpc, held, notified, armed, owed>>
vars == <<queue, producer_closed, handles, pc, current, made, ended, wvars>>

W == INSTANCE AtomicWaker WITH Tasks <- Wakers, NoTask <- NoWaker, pc <- wpc

Init ==
    /\ queue = <<>>
    /\ producer_closed = FALSE
    /\ handles = {"producer", "consumer"}
    /\ pc = [t \in Threads |-> "idle"]
    /\ current = [c \in Consumers |-> NoWaker]
    /\ made = 0
    /\ ended = {}
    /\ W!Init

\* t is at label l of its method and not inside the AtomicWaker.
At(t, l) == pc[t] = l /\ wpc[t] = "idle"

Goto(t, l) == pc' = [pc EXCEPT ![t] = l]

-----------------------------------------------------------------------------
(* SpscProducer                                                            *)

\* push and push_overwrite share the steps after the ring has the item.
Pushed(p, q) ==
    /\ queue' = q
    /\ made' = made + 1
    /\ Goto(p, "wake")
    /\ UNCHANGED <<producer_closed, handles, current, ended, wvars>>

CanPush(p) == At(p, "idle") /\ ~producer_closed /\ made < MaxItems

Push(p) ==
    /\ CanPush(p)
    /\ Len(queue) < Capacity
    /\ Pushed(p, Append(queue, made + 1))

\* push into a full ring returns the item and wakes nobody.
PushRefused(p) ==
    /\ CanPush(p)
    /\ Len(queue) = Capacity
    /\ made' = made + 1
    /\ UNCHANGED <<queue, producer_closed, handles, pc, current, ended, wvars>>

PushOverwrite(p) ==
    /\ CanPush(p)
    /\ Len(queue) = Capacity
    /\ Pushed(p, Append(Tail(queue), made + 1))

\* Altered form: the item is pushed and nobody is woken.
WakeForgotten(p) ==
    /\ At(p, "wake")
    /\ Goto(p, "idle")
    /\ UNCHANGED <<queue, producer_closed, handles, current, made, ended, wvars>>

\* self.inner.waker.wake(), after a push and in drop
WakeConsumer(p) ==
    /\ At(p, "wake")
    /\ W!Wake(p)
    /\ Goto(p, "idle")
    /\ UNCHANGED <<queue, producer_closed, handles, current, made, ended>>

\* Drop for SpscProducer: nobody is using the handle any more.
DropProducer(p) ==
    /\ ~producer_closed
    /\ \A q \in Producers : At(q, "idle")
    /\ producer_closed' = TRUE
    /\ Goto(p, "wake")
    /\ UNCHANGED <<queue, handles, current, made, ended, wvars>>

\* The last owner of Inner drops the items that remain (Drop for Ring).
Release(h) ==
    /\ h \in handles
    /\ handles' = handles \ {h}
    /\ queue' = IF handles' = {} THEN <<>> ELSE queue
    /\ UNCHANGED <<producer_closed, pc, current, made, ended, wvars>>

ReleaseProducer ==
    /\ producer_closed
    /\ \A p \in Producers : At(p, "idle")
    /\ Release("producer")

-----------------------------------------------------------------------------
(* SpscConsumer                                                            *)

\* pop, outside of a future
TryPop(c) ==
    /\ At(c, "idle")
    /\ "consumer" \in handles
    /\ queue # <<>>
    /\ queue' = Tail(queue)
    /\ UNCHANGED <<producer_closed, handles, pc, current, made, ended, wvars>>

\* A poll of c with the waker w begins; it takes c off the executor's list.
BeginPoll(c, w) ==
    /\ "consumer" \in handles
    /\ current' = [current EXCEPT ![c] = w]
    /\ notified' = notified \ {current[c], w}
    /\ Goto(c, "pop1")
    /\ UNCHANGED <<queue, producer_closed, handles, made, ended, state, waker, wpc, held, armed, owed>>

\* pop_async().await: a new future, polled for the first time.
Await(c) == At(c, "idle") /\ \E w \in Wakers : w[1] = c /\ BeginPoll(c, w)

\* The executor polls a task whose waker was invoked.
PollAgain(c) ==
    /\ At(c, "pending")
    /\ current[c] \in notified
    /\ BeginPoll(c, current[c])

\* The task polls a pending future for another reason, or with another waker.
PollUnasked(c) == At(c, "pending") /\ \E w \in Wakers : w[1] = c /\ BeginPoll(c, w)

\* A pending PopFuture is dropped; the waker stays where it is.
Cancel(c) ==
    /\ At(c, "pending")
    /\ Goto(c, "idle")
    /\ UNCHANGED <<queue, producer_closed, handles, current, made, ended, wvars>>

\* self.pop() at label l: an item resolves the future, else go on to next.
PopOr(c, l, next) ==
    /\ At(c, l)
    /\ IF queue # <<>>
       THEN queue' = Tail(queue) /\ Goto(c, "idle")
       ELSE queue' = queue /\ Goto(c, next)
    /\ UNCHANGED <<producer_closed, handles, current, made, ended, wvars>>

\* Altered form: a closed producer ends the stream at once, without a last pop.
ClosedEnds(c, l, last, next) ==
    /\ At(c, l)
    /\ IF producer_closed
       THEN Goto(c, "idle") /\ ended' = ended \cup {c}
       ELSE Goto(c, next) /\ ended' = ended
    /\ UNCHANGED <<queue, producer_closed, handles, current, made, wvars>>

\* self.is_closed() at label l
ClosedOr(c, l, last, next) ==
    /\ At(c, l)
    /\ Goto(c, IF producer_closed THEN last ELSE next)
    /\ UNCHANGED <<queue, producer_closed, handles, current, made, ended, wvars>>

\* Poll::Ready(self.pop()), after the producer was seen closed
LastPop(c) ==
    /\ At(c, "last")
    /\ Goto(c, "idle")
    /\ IF queue # <<>>
       THEN queue' = Tail(queue) /\ ended' = ended
       ELSE queue' = queue /\ ended' = ended \cup {c}
    /\ UNCHANGED <<producer_closed, handles, current, made, wvars>>

RegisterWaker(c) ==
    /\ At(c, "register")
    /\ W!Register(c, current[c])
    /\ Goto(c, "pop2")
    /\ UNCHANGED <<queue, producer_closed, handles, current, made, ended>>

\* Altered form: nothing is looked at after the registration.
PollPopRegistersLast(c) ==
    \/ PopOr(c, "pop1", "closed1")
    \/ ClosedOr(c, "closed1", "last", "register")
    \/ LastPop(c)
    \/ RegisterWaker(c)
    \/ /\ At(c, "pop2")
       /\ Goto(c, "pending")
       /\ UNCHANGED <<queue, producer_closed, handles, current, made, ended, wvars>>

PollPop(c) ==
    \/ PopOr(c, "pop1", "closed1")
    \/ ClosedOr(c, "closed1", "last", "register")
    \/ LastPop(c)
    \/ RegisterWaker(c)
    \/ PopOr(c, "pop2", "closed2")
    \/ ClosedOr(c, "closed2", "last", "pending")

\* Drop for SpscConsumer: its futures borrow it, so none is left.
ReleaseConsumer ==
    /\ \A c \in Consumers : At(c, "idle")
    /\ Release("consumer")

-----------------------------------------------------------------------------

WakerStep(t) ==
    /\ W!Step(t)
    /\ UNCHANGED <<queue, producer_closed, handles, pc, current, made, ended>>

Terminated ==
    /\ handles = {}
    /\ UNCHANGED vars

Next ==
    \/ \E p \in Producers :
          Push(p) \/ PushRefused(p) \/ PushOverwrite(p) \/ WakeConsumer(p) \/ DropProducer(p)
    \/ \E c \in Consumers :
          TryPop(c) \/ Await(c) \/ PollAgain(c) \/ PollUnasked(c) \/ Cancel(c) \/ PollPop(c)
    \/ \E t \in Threads : WakerStep(t)
    \/ ReleaseProducer \/ ReleaseConsumer
    \/ Terminated

\* Threads run on inside a method; the executor runs a task it was asked to.
\* Nobody has to push, to drop a handle, to start an await or to poll unasked.
Fairness ==
    /\ \A p \in Producers : WF_vars(WakeConsumer(p))
    /\ \A t \in Threads : WF_vars(WakerStep(t))
    /\ \A c \in Consumers : WF_vars(PollPop(c)) /\ WF_vars(PollAgain(c))

Spec == Init /\ [][Next]_vars /\ Fairness

-----------------------------------------------------------------------------
(* Properties                                                              *)

\* The end that an await reports is the end: the producer is gone, and no item
\* that it pushed, even just before it was dropped, is left behind.
EndIsFinal == ended # {} => producer_closed /\ queue = <<>>

Something == queue # <<>> \/ producer_closed

\* A consumer asleep while there is something to see has been notified, or a
\* producer has still to wake it: no wakeup falls between the checks of
\* poll_pop and its registration.  (One consumer: see AwaitResolves.)
NoLostWakeup ==
    \A c \in Consumers :
        pc[c] = "pending" /\ Something =>
            \/ current[c] \in notified
            \/ \E t \in Threads : W!Carries(t, current[c])
            \/ \E p \in Producers : pc[p] = "wake" /\ armed = current[c]

\* A consumer never sleeps through what it waits for.
SleeperIsPolled ==
    \A c \in Consumers : pc[c] = "pending" /\ Something ~> pc[c] # "pending"

\* "Returns a future that resolves to the next buffered item, or None once the
\* producer has been dropped and the ring is empty": also when several tasks
\* await through a shared handle.
AwaitResolves ==
    \A c \in Consumers : pc[c] = "pending" /\ producer_closed ~> pc[c] # "pending"

=============================================================================
