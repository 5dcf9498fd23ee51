-------------------------------- MODULE Combinators -------------------------------
(***************************************************************************)
(* src/future/mod.rs: select, join_all, StreamExt::next and now_or_never,  *)
(* the futures that poll other futures.                                    *)
(*                                                                         *)
(* The children are external: each completes once, on another thread,      *)
(* which then takes the waker of its last poll and invokes it.  They keep  *)
(* the contract of Future: a poll before that stores the waker of the      *)
(* context, and after Ready they are not to be polled again.  The task     *)
(* that owns the combinator may poll it unasked and with new wakers.       *)
(***************************************************************************)
EXTENDS Integers

CONSTANTS
    MaxChildren,    \* bound: futures joined
    MaxPolls        \* bound: polls of the combinator, each with a waker of its own

Noop == 0           \* now_or_never's waker; poll n has waker n
Unset == -1

\* Each child asks for one poll at most; the rest may come unasked.
MaxUnasked == MaxPolls - MaxChildren

VARIABLES
    combinator,     \* "none" yet, "join_all", "select", "next" or "now_or_never"
    size,           \* number of children
    state,          \* "idle", "poll", "pending", "ready", "dropped" or "panicked"
    polls,          \* the polls so far, and so the waker of the last one
    slot,           \* the child that is polled next
    output,         \* output[c]: c has given its output (Slot::Done)
    finished,       \* finished[c]: c's output is there
    stored,         \* stored[c]: the waker c has stored
    firing,         \* firing[c]: the waker that is about to be invoked for c
    invoked         \* the wakers that were invoked

children == <<finished, stored, firing, invoked>>
combinators == <<combinator, size, state, polls, slot, output, children>>

Children == 1 .. MaxChildren
Mine == 1 .. size

Init ==
    /\ combinator = "none" /\ size = 0
    /\ state = "idle" /\ polls = 0 /\ slot = 1
    /\ output = [c \in Children |-> FALSE]
    /\ finished = [c \in Children |-> FALSE]
    /\ stored = [c \in Children |-> Unset]
    /\ firing = [c \in Children |-> Unset]
    /\ invoked = {}

New(name, n) ==
    /\ combinator = "none"
    /\ combinator' = name /\ size' = n
    /\ UNCHANGED <<state, polls, slot, output, children>>

select == New("select", 2)
join_all == \E n \in 0 .. MaxChildren : New("join_all", n)
next == New("next", 1)
now_or_never == New("now_or_never", 1)

Waker == IF combinator = "now_or_never" THEN Noop ELSE polls

BeginPoll ==
    /\ state' = "poll" /\ slot' = 1
    /\ polls' = polls + 1
    /\ UNCHANGED <<combinator, size, output, children>>

FirstPoll == combinator # "none" /\ state = "idle" /\ BeginPoll

\* The executor polls a task whose waker was invoked; it, or a future around this
\* one, may do so at any time.
PollAgain == state = "pending" /\ polls \in invoked /\ BeginPoll
PollUnasked == state = "pending" /\ polls \notin invoked /\ polls < MaxUnasked /\ BeginPoll

-----------------------------------------------------------------------------
(* One poll of the combinator                                              *)

\* The child is polled: Ready, or it keeps the waker of this context.  To poll
\* one that has given its output already is a panic, or undefined.
PollChild(c) ==
    IF output[c]
    THEN state' = "panicked" /\ UNCHANGED <<output, stored>>
    ELSE /\ output' = [output EXCEPT ![c] = finished[c]]
         /\ stored' = [stored EXCEPT ![c] = IF finished[c] THEN @ ELSE Waker]
         /\ UNCHANGED state

PollsSlot == state = "poll" /\ slot \in Mine

\* The round goes on with the next child, or ends.
Advance(ends) ==
    /\ slot' = IF ends THEN size + 1 ELSE slot + 1
    /\ UNCHANGED <<combinator, size, polls, finished, firing, invoked>>

\* Altered form: a slot that is done is polled like the others.
JoinAllPollsDone ==
    /\ combinator = "join_all" /\ PollsSlot
    /\ PollChild(slot)
    /\ Advance(FALSE)

\* Every slot that is not done is polled.
JoinAllStep ==
    /\ combinator = "join_all" /\ PollsSlot
    /\ IF output[slot] THEN UNCHANGED <<state, output, stored>> ELSE PollChild(slot)
    /\ Advance(FALSE)

\* Altered form: the right future is polled at another time.
SelectPollsLeft ==
    /\ combinator = "select" /\ PollsSlot
    /\ PollChild(slot)
    /\ Advance(TRUE)

\* The left future first, and the right one if that is not ready
SelectStep ==
    /\ combinator = "select" /\ PollsSlot
    /\ PollChild(slot)
    /\ Advance(output'[slot])

\* Next, and now_or_never, have one child.
PollOnly ==
    /\ combinator \in {"next", "now_or_never"} /\ PollsSlot
    /\ PollChild(slot)
    /\ Advance(TRUE)

IsReady ==
    IF combinator = "join_all" THEN \A c \in Mine : output[c] ELSE \E c \in Mine : output[c]

\* Poll::Ready, or Poll::Pending; now_or_never gives None and drops the child.
EndPoll ==
    /\ state = "poll" /\ slot > size
    /\ state' = IF IsReady THEN "ready" ELSE IF combinator = "now_or_never" THEN "dropped" ELSE "pending"
    /\ UNCHANGED <<combinator, size, polls, slot, output, children>>

Drop ==
    /\ state = "pending"
    /\ state' = "dropped"
    /\ UNCHANGED <<combinator, size, polls, slot, output, children>>

-----------------------------------------------------------------------------
(* The children                                                            *)

Finish(c) ==
    /\ c \in Mine /\ ~finished[c]
    /\ finished' = [finished EXCEPT ![c] = TRUE]
    /\ firing' = [firing EXCEPT ![c] = stored[c]]
    /\ stored' = [stored EXCEPT ![c] = Unset]
    /\ UNCHANGED <<combinator, size, state, polls, slot, output, invoked>>

Invoke(c) ==
    /\ firing[c] # Unset
    /\ firing' = [firing EXCEPT ![c] = Unset]
    /\ invoked' = invoked \cup {firing[c]}
    /\ UNCHANGED <<combinator, size, state, polls, slot, output, finished, stored>>

\* Nothing is left to be done: the combinator is ready or was dropped.
Over == state \in {"ready", "dropped", "panicked"} /\ UNCHANGED combinators

Continue == PollAgain \/ JoinAllStep \/ SelectStep \/ PollOnly \/ EndPoll

Next ==
    \/ select \/ join_all \/ next \/ now_or_never
    \/ FirstPoll \/ PollUnasked \/ Continue \/ Drop \/ Over
    \/ \E c \in Children : Finish(c) \/ Invoke(c)

\* The executor polls a task that was woken, polls are finished, and who has
\* completed a future invokes its waker.
Fairness == WF_combinators(Continue) /\ \A c \in Children : WF_combinators(Invoke(c))

-----------------------------------------------------------------------------
(* Properties                                                              *)

\* The executor will poll the task again, or is about to be told to.
Woken == polls \in invoked \/ \E c \in Mine : firing[c] = polls

\* While the task sleeps, each child it still waits for, and not only the first
\* that was not ready, has the waker of the last poll, or has completed and the
\* task is told; no child is polled again after it was ready.
ChildrenAreArmed ==
    /\ state # "panicked"
    /\ state = "pending" => \A c \in Mine : output[c] \/ stored[c] = polls \/ Woken

\* What can be answered is: join_all when all its futures have completed, the
\* others when one has, with whatever waker and in whatever order.
Resolves ==
    LET decided == IF combinator = "join_all" THEN \A c \in Mine : finished[c]
                                              ELSE \E c \in Mine : finished[c]
    IN  state = "pending" /\ decided ~> state \in {"ready", "dropped"}
=============================================================================
