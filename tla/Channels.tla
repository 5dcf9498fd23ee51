--------------------------------- MODULE Channels ---------------------------------
(***************************************************************************)
(* src/future/mpsc.rs (channel, unbounded) and src/future/oneshot.rs.  All *)
(* three are the same machine: a queue, the number of senders and a flag   *)
(* for the receiver behind a mutex, and an AtomicWaker for the receiver.   *)
(* A oneshot's queue is its value, its one sender is dropped by send, and  *)
(* a second AtomicWaker tells the sender that the receiver is gone.        *)
(*                                                                         *)
(* A critical section is one action, the wakers are instances of           *)
(* AtomicWaker at full detail.  Nobody tells items apart: queued is the    *)
(* length of the queue.                                                    *)
(***************************************************************************)
EXTENDS Naturals, FiniteSets

CONSTANTS
    Senders,    \* threads that may own a sender
    Receiver,   \* the task that owns the receiver
    NoWaker,
    Buffer,     \* the argument of channel()
    MaxItems,   \* bound: the number of sends
    MaxWakers   \* bound: a task polls with this many different wakers

Threads == Senders \cup {Receiver}
Wakers == Threads \X (1 .. MaxWakers)

ASSUME ChannelsAssumption ==
    /\ Buffer \in Nat /\ MaxItems \in Nat /\ MaxWakers \in Nat \ {0}
    /\ Receiver \notin Senders /\ IsFiniteSet(Senders) /\ Senders # {}
    /\ NoWaker \notin Wakers

VARIABLES
    kind,       \* "channel", "unbounded" or "oneshot"
    queued,     \* State.queue.len(), or whether State.value is Some
    senders,    \* State.senders; a oneshot's sender_dropped is senders = 0
    open,       \* State.open; a oneshot's receiver_dropped is ~open
    owners,     \* the threads that own a sender
    pc,         \* pc[t]: where t is in a method
    current,    \* current[t]: the waker of t's last poll
    made,       \* number of sends so far
    ended,      \* history: the receiver was told that no more will come
    rstate, rwaker, rpc, rheld, rnotified, rarmed, rowed,   \* receiver_waker
    sstate, swaker, spc, sheld, snotified, sarmed, sowed    \* sender_waker

chan == <<kind, queued, senders, open, owners, made, ended>>
rvars == <<rstate, rwaker, rpc, rheld, rnotified, rarmed, rowed>>
svars == <<sstate, swaker, spc, sheld, snotified, sarmed, sowed>>
vars == <<chan, pc, current, rvars, svars>>

R == INSTANCE AtomicWaker WITH Tasks <- Wakers, NoTask <- NoWaker, state <- rstate,
        waker <- rwaker, pc <- rpc, held <- rheld, notified <- rnotified,
        armed <- rarmed, owed <- rowed
S == INSTANCE AtomicWaker WITH Tasks <- Wakers, NoTask <- NoWaker, state <- sstate,
        waker <- swaker, pc <- spc, held <- sheld, notified <- snotified,
        armed <- sarmed, owed <- sowed

Init ==
    /\ kind \in {"channel", "unbounded", "oneshot"}
    /\ queued = 0
    /\ senders = 1
    /\ open = TRUE
    /\ \E s \in Senders : owners = {s}
    /\ pc = [t \in Threads |-> "idle"]
    /\ current = [t \in Threads |-> NoWaker]
    /\ made = 0
    /\ ended = FALSE
    /\ R!Init /\ S!Init

\* t is at label l and not inside an AtomicWaker.
At(t, l) == pc[t] = l /\ rpc[t] = "idle" /\ spc[t] = "idle"

Goto(t, l) == pc' = [pc EXCEPT ![t] = l]

\* channel() has one slot more than its buffer, unbounded() has no end of them.
Full == kind = "channel" /\ queued >= Buffer + 1

-----------------------------------------------------------------------------
(* Senders                                                                 *)

CanSend(s) == s \in owners /\ At(s, "idle") /\ made < MaxItems

\* The caller of a oneshot's send loses its sender, whatever the result.
AfterSend(result) == IF kind = "oneshot" THEN "drop" ELSE result

\* Altered form: nobody asks whether the receiver is still there.
SendUnchecked(s) ==
    /\ CanSend(s) /\ ~Full
    /\ queued' = queued + 1
    /\ made' = made + 1
    /\ Goto(s, AfterSend("wake"))
    /\ UNCHANGED <<kind, senders, open, owners, ended, current, rvars, svars>>

Send(s) ==
    /\ CanSend(s) /\ open /\ ~Full
    /\ queued' = queued + 1
    /\ made' = made + 1
    /\ Goto(s, AfterSend("wake"))
    /\ UNCHANGED <<kind, senders, open, owners, ended, current, rvars, svars>>

SendRefused(s) ==
    /\ CanSend(s) /\ (~open \/ Full)
    /\ made' = made + 1
    /\ Goto(s, AfterSend("idle"))
    /\ UNCHANGED <<kind, queued, senders, open, owners, ended, current, rvars, svars>>

Clone(s, new) ==
    /\ kind = "unbounded" /\ s \in owners /\ At(s, "idle")
    /\ new \notin owners /\ At(new, "idle")
    /\ owners' = owners \cup {new}
    /\ senders' = senders + 1
    /\ UNCHANGED <<kind, queued, open, made, ended, pc, current, rvars, svars>>

\* drop_sender, and Drop for the oneshot's Sender: the last one wakes.
DropSender(s) ==
    /\ s \in owners
    /\ At(s, "idle") \/ At(s, "drop")
    /\ owners' = owners \ {s}
    /\ senders' = senders - 1
    /\ Goto(s, IF senders' = 0 THEN "wake" ELSE "idle")
    /\ UNCHANGED <<kind, queued, open, made, ended, current, rvars, svars>>

WakeReceiver(s) ==
    /\ s \in Senders /\ At(s, "wake")
    /\ R!Wake(s)
    /\ Goto(s, "idle")
    /\ UNCHANGED <<chan, current, svars>>

\* Cancellation: a poll with the waker w begins.
BeginCancellation(s, w) ==
    /\ kind = "oneshot" /\ s \in owners
    /\ w[1] = s
    /\ current' = [current EXCEPT ![s] = w]
    /\ snotified' = snotified \ {w}
    /\ Goto(s, "check1")
    /\ UNCHANGED <<chan, rvars, sstate, swaker, spc, sheld, sarmed, sowed>>

\* inner.canceled() at label l
Canceled(s, l, next) ==
    /\ At(s, l)
    /\ Goto(s, IF open THEN next ELSE "idle")
    /\ UNCHANGED <<chan, current, rvars, svars>>

RegisterSender(s) ==
    /\ s \in Senders /\ At(s, "register")
    /\ S!Register(s, current[s])
    /\ Goto(s, "check2")
    /\ UNCHANGED <<chan, current, rvars>>

-----------------------------------------------------------------------------
(* The receiver                                                            *)

\* recv, poll_next and the oneshot's poll: a poll with the waker w begins.
BeginRecv(w) ==
    /\ w[1] = Receiver
    /\ current' = [current EXCEPT ![Receiver] = w]
    /\ rnotified' = rnotified \ {w}
    /\ Goto(Receiver, "take1")
    /\ UNCHANGED <<chan, svars, rstate, rwaker, rpc, rheld, rarmed, rowed>>

Closed == ~open \/ senders = 0

\* Channel::try_recv and the oneshot's take, at label l: an item, the end, or
\* neither.
Take(l, next) ==
    /\ At(Receiver, l)
    /\ queued' = IF queued > 0 THEN queued - 1 ELSE 0
    /\ ended' = (ended \/ (queued = 0 /\ Closed))
    /\ Goto(Receiver, IF queued = 0 /\ ~Closed THEN next ELSE "idle")
    /\ UNCHANGED <<kind, senders, open, owners, made, current, rvars, svars>>

TryRecv == kind # "oneshot" /\ Take("idle", "idle")

RegisterReceiver ==
    /\ At(Receiver, "register")
    /\ R!Register(Receiver, current[Receiver])
    /\ Goto(Receiver, "take2")
    /\ UNCHANGED <<chan, current, svars>>

\* Altered form: the queue is not looked at again after the registration.
PollRecvRegistersLast ==
    \/ Take("take1", "register") \/ RegisterReceiver
    \/ At(Receiver, "take2") /\ Goto(Receiver, "pending") /\ UNCHANGED <<chan, current, rvars, svars>>

PollRecv == Take("take1", "register") \/ RegisterReceiver \/ Take("take2", "pending")

\* Receiver::close
Close ==
    /\ kind = "channel" /\ At(Receiver, "idle")
    /\ open' = FALSE
    /\ UNCHANGED <<kind, queued, senders, owners, made, ended, pc, current, rvars, svars>>

\* Altered form: the oneshot's receiver goes and wakes nobody.
DropReceiverSilently ==
    /\ At(Receiver, "idle")
    /\ open' = FALSE
    /\ queued' = 0
    /\ Goto(Receiver, "gone")
    /\ UNCHANGED <<kind, senders, owners, made, ended, current, rvars, svars>>

\* Drop for the receivers takes what is left in the queue along.
DropReceiver ==
    /\ At(Receiver, "idle")
    /\ open' = FALSE
    /\ queued' = 0
    /\ Goto(Receiver, IF kind = "oneshot" THEN "wake" ELSE "gone")
    /\ UNCHANGED <<kind, senders, owners, made, ended, current, rvars, svars>>

WakeSender ==
    /\ At(Receiver, "wake")
    /\ S!Wake(Receiver)
    /\ Goto(Receiver, "gone")
    /\ UNCHANGED <<chan, current, rvars>>

-----------------------------------------------------------------------------
(* Futures of either side                                                  *)

BeginPoll(t, w) == IF t = Receiver THEN BeginRecv(w) ELSE BeginCancellation(t, w)

FirstPoll(t) == At(t, "idle") /\ \E w \in Wakers : BeginPoll(t, w)

\* The executor polls a task whose waker was invoked.
PollAgain(t) ==
    /\ At(t, "pending")
    /\ current[t] \in (IF t = Receiver THEN rnotified ELSE snotified)
    /\ BeginPoll(t, current[t])

\* The task polls for another reason, or with another waker.
PollUnasked(t) == At(t, "pending") /\ \E w \in Wakers : BeginPoll(t, w)

\* A pending future is dropped.
Cancel(t) ==
    /\ At(t, "pending")
    /\ Goto(t, "idle")
    /\ UNCHANGED <<chan, current, rvars, svars>>

WakerStep(t) ==
    \/ R!Step(t) /\ UNCHANGED <<chan, pc, current, svars>>
    \/ S!Step(t) /\ UNCHANGED <<chan, pc, current, rvars>>

\* What t does without being asked again, once it has begun.
Continue(t) ==
    \/ WakerStep(t) \/ PollAgain(t)
    \/ /\ t \in Senders
       /\ \/ At(t, "drop") /\ DropSender(t)
          \/ WakeReceiver(t) \/ RegisterSender(t)
          \/ Canceled(t, "check1", "register") \/ Canceled(t, "check2", "pending")
    \/ /\ t = Receiver
       /\ PollRecv \/ WakeSender

Begin(t) ==
    \/ FirstPoll(t) \/ PollUnasked(t) \/ Cancel(t)
    \/ /\ t \in Senders
       /\ \/ Send(t) \/ SendRefused(t)
          \/ At(t, "idle") /\ DropSender(t)
          \/ \E new \in Senders : Clone(t, new)
    \/ /\ t = Receiver
       /\ TryRecv \/ Close \/ DropReceiver

Terminated ==
    /\ owners = {} /\ At(Receiver, "gone")
    /\ \A s \in Senders : At(s, "idle")
    /\ UNCHANGED vars

Next == (\E t \in Threads : Begin(t) \/ Continue(t)) \/ Terminated

\* Threads run inside a method, and the executor polls a task that was woken.
Fairness == \A t \in Threads : WF_vars(Continue(t))

Spec == Init /\ [][Next]_vars /\ Fairness

-----------------------------------------------------------------------------
(* Properties                                                              *)

\* No item is left behind: after the receiver was told the end none is there and
\* none can come, and none lies in the queue of a receiver that is gone (send
\* gives it back instead).
NothingLeftBehind ==
    /\ ended => queued = 0 /\ Closed
    /\ pc[Receiver] = "gone" => queued = 0

\* A receiver asleep although there is an item or the end, and a sender asleep
\* in cancellation() although the receiver is gone, have been notified or will
\* be by a thread on its way.
NoLostWakeup ==
    /\ pc[Receiver] = "pending" /\ (queued > 0 \/ Closed) =>
          \/ current[Receiver] \in rnotified
          \/ \E t \in Threads : R!Carries(t, current[Receiver])
          \/ rarmed = current[Receiver] /\ \E s \in Senders : pc[s] \in {"drop", "wake"}
    /\ \A s \in Senders : pc[s] = "pending" /\ ~open =>
          \/ current[s] \in snotified
          \/ \E t \in Threads : S!Carries(t, current[s])
          \/ sarmed = current[s] /\ pc[Receiver] = "wake"

\* "If you drop the oneshot receiver, the sender's cancellation future completes",
\* and a receiver does not sleep through an item or the end.
SleepersArePolled ==
    /\ pc[Receiver] = "pending" /\ (queued > 0 \/ Closed) ~> pc[Receiver] # "pending"
    /\ \A s \in Senders : pc[s] = "pending" /\ ~open ~> pc[s] # "pending"

=============================================================================
