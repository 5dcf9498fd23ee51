# Specifications of doom-fish-utils

This directory holds TLA+ models of `doom-fish-utils`, the configurations with which TLC checks them on small instances, and proofs,
checked by TLAPS, of what matters most for every size. The crate has no
scheduler of its own: it is a set of small protocols (a waker cell, a lock-free
ring, a bounded stream, channels, an asynchronous lock, one-shot completions)
that callers run on any threads and any executor, and of a few containers with
unsafe insides. The models therefore leave the callers free: they call, drop,
cancel, re-poll and panic in any order the types allow, and the properties say
what the code guarantees nonetheless.

Paths are relative to the repository's crate: `stream.rs:338` is line 338 of
`src/src/stream.rs`. `PROJECT.json` lists, for each definition of a module, the
lines it stands for.

- [1. The system](#1-the-system)
- [2. The modules](#2-the-modules)
- [3. The runs](#3-the-runs)
- [4. What is assumed](#4-what-is-assumed)
- [5. What is proved](#5-what-is-proved)
- [6. Where the code and its documentation disagree](#6-where-the-code-and-its-documentation-disagree)
- [7. What is not modelled](#7-what-is-not-modelled)
- [8. Plan](#8-plan)
- [9. Running it](#9-running-it)

## 1. The system

| component | state | operations | who calls it |
|---|---|---|---|
| `AtomicWaker` (`atomic_waker/mod.rs`) | a word of two bits, a cell with a `Waker` | `register`, `wake`, `take` | spsc, mpsc, oneshot |
| `Ring` (`spsc.rs`) | slots with a stamp each, a read and a write cursor | `push`, `push_overwrite`, `pop`, `len` | the spsc handles |
| spsc handles (`spsc.rs`) | `producer_closed`, the waker, the `Arc` around both | push, overwrite, drop; `pop`, `pop_async`, `Stream` | two threads, or many through a shared handle |
| stream (`stream.rs`) | a `VecDeque`, the waiters' wakers, three flags, a sender count behind a mutex, and a condvar | `push`, `push_or_block`, `clone`, drop; `next`, `try_next`, `clear_buffer`, drop, `Stream` | any number of senders and of consumers of one stream |
| `completion` | a result slot (and a waker) behind a mutex, `consumed`, an `Arc` whose second reference is a raw pointer | `complete_*`; `wait`, `wait_timeout`, `poll`, drop | a foreign callback, one waiter |
| `callback_context` | an `Arc` whose references C keeps as well, an `active` flag | `new`, `with`, `retain`, `release`, `deactivate`, drop | foreign callbacks, the owner |
| `panic_safe` | none | run a callback and its clean-up with every panic caught | the `extern "C"` entry points |
| `future::mpsc` | a `VecDeque`, a sender count and a flag behind a mutex, an `AtomicWaker` | `try_send`, `unbounded_send`, `try_recv`, `recv`, `poll_next`, `close`, `clone`, drop | senders, one receiver |
| `future::oneshot` | a value slot and two flags behind a mutex, two `AtomicWaker`s | `send`, `poll`, `cancellation`, drop | one sender, one receiver |
| `future::Mutex` | `locked`, an ordered map of waiters, behind a std mutex | `lock`, `try_lock`, unlock, drop of a pending `lock` | tasks |
| `future` combinators | the futures they own, which of them are done | `select`, `join_all`, `next`, `now_or_never` | one task |
| `SlotMap`, `SecondaryMap` | slots with versions, a free list | `insert`, `remove`, `get`, iterate | sequential |
| `SmallVec`, `ArrayVec` | partly initialised arrays | the vector operations | sequential |
| `ffi_string` | a buffer lent to C, or a string that C allocated | fill, convert, free | sequential, with a foreign callee |
| `json` | the reader's position | parse, print, convert | pure functions |
| `four_char_code` | none | convert | pure functions |

How they interact. A foreign framework calls back on threads of its own; the
callback goes through `panic_safe` and either resolves a completion or pushes
into the ring or the stream. Rust code waits at the other end: blocked on a
condition variable (`SyncCompletion`, `push_or_block`) or as a task whose waker
is kept in an `AtomicWaker` (spsc, mpsc, oneshot) or in a list behind a mutex
(stream, future::Mutex, `AsyncCompletion`). The executor polls the task when its
waker is invoked, may poll it at any other time, with another waker too, and may
drop a pending future.

What is hard in it, and so what the properties are about:

- *Lost wakeups.* Whoever waits looks first, registers, and looks again; whoever
  delivers changes the state first and wakes afterwards, after giving up the
  lock. A wake can fall between any two of these steps, find a waker of an
  earlier poll, or race another registration for the cell.
- *Unsynchronised memory.* The cell of `AtomicWaker` and the slots of the ring
  are plain memory; the atomics around them must make each access exclusive,
  also when several threads share a handle and when positions wrap around.
- *Linearizability.* A push, an overwrite and a pop of the ring each take
  several atomic steps, but callers rely on a FIFO queue that loses an item only
  when it is full; `len` reads two cursors one after the other.
- *The end.* `None` must mean that no item is left: an item pushed just before
  the last handle goes must not be lost, and only the last sender closes.
- *Blocked producers.* Notifications of the condition variable come after the
  unlock, while other producers may take, or free, the slots they are about.
- *One-shot pointers.* A completion may come twice, late, or just when the
  waiter gives up; the result must be delivered or dropped, and the allocation
  freed, once.
- *Panics in the middle.* A destructor, a callback, a test of `retain` may panic
  between any two moves; a cell must not be dropped twice for it, a foreign
  string not be leaked, and no panic may reach a C caller.
- *Stale names.* A key outlives its value, a moved element leaves its bits
  behind, and a buffer is longer than what the foreign code was told of.

The properties that make each component correct:

| component | properties |
|---|---|
| `AtomicWaker` | the cell has one user at a time; a wake after a registration notifies the registered task; the code's assertions hold |
| `Ring` | slot accesses are exclusive and find what they assume; the calls are those of an atomic lossy queue; `len` is the number of items at some instant, or one less in an eviction; a call returns once the others make no new ones |
| spsc handles | a sleeping consumer is woken for an item and for the end; `None` is final |
| stream | the buffer is bounded; a freed slot is not forgotten while producers block; registered waiters are exactly the sleepers with nothing to see; the last sender closes; dropping the stream frees the blocked |
| `completion` | the first result reaches the waiter, every other one is dropped; references match their users; a timeout is reported only when nothing came in time; the wait ends |
| `callback_context` | the callback never runs on a freed context; one that looks after `deactivate` does not run (one that looked before it may); freed once, by the last release |
| `panic_safe` | each phase runs once whichever of the others panic; no panic escapes |
| `mpsc`, `oneshot` | no lost wakeup on either side; no value stays in a channel that nobody reads |
| `future::Mutex` | one guard; a free lock is offered to a waiter that is still there, past cancelled ones and old wakers; it is taken |
| combinators | a child that is waited for has the waker of the last poll; none is polled after it was ready; what can be answered is |
| `SlotMap`, `SecondaryMap` | a key finds the value it was given for, or nothing; the vacant slots are one list; an outdated key does not put out a current one, and references given out together are to different values |
| `SmallVec`, `ArrayVec` | each element has one owner; the vector is the sequence its calls made of it |
| `ffi_string` | a foreign string is freed once on every way out of the calls with a guard (the one without leaks it if its copy panics); a text ends at a NUL the foreign code left in its part of the buffer |
| `json` | exactly the texts of the grammar are accepted, down to the nesting limit, with their meaning; what is written is read back |

## 2. The modules

**`AtomicWaker`.** One action per atomic operation on the word and per access of
the cell. `state` is the set of bits that are set. `Register(t, w)` is the
compare-exchange that `register` begins with and branches on its outcome:
`RegisterLock` owns the cell, `RegisterWhileWaking` wakes the new waker itself,
`RegisterWhileRegistering` drops it. `RegisterStore`, `RegisterRelease`,
`RegisterTake`, `RegisterSwap` follow. `Wake(t)` is the `fetch_or` of `take`,
`WakeTake` and `WakeSwap` the rest of it. The invocation of a waker is a step of
its own (`Notify`), since external code runs there. Two history variables state
the contract of the documentation: `armed` is the task whose `register` has
returned and not been followed by another or by a wake, `owed` the tasks a wake
has since begun for. Modules that use the waker instantiate this one with
variables of their own.

**`SpscRing`.** One action per atomic operation and per access of a slot's
value. Every method takes `&self`, so any thread may be a producer, a consumer
and an observer. Positions are machine words of `Width` bits: `NextPosition` is
`Ring::next` with its jump over the gap at the end of a lap, and `Start` lets a
run begin just before the wrap-around. `compare_exchange_weak` may fail for no
reason (`PushClaimFails`, `PopClaimFails`).

**`LossyQueue`.** What callers of the ring see: a FIFO queue in which a call
takes effect at one instant between its invocation and its return. `SpscRing`
implements it (`ImplementsQueue`) under the mapping `QueueOfRing`,
`CallOfThread`: a call takes effect at its successful compare-exchange, or at
the load that shows the ring full or empty. The delicate part is an eviction,
which advances the read cursor before the write cursor: for these few steps the
queue holds one item that no cursor shows (`Length` is `Ahead`, the distance of the
cursors, and one more for the thread in `Evicting`). `sizes` remembers, for a thread
in `len`, the moments it has lived through: how many items were held, and whether
an eviction was between its moves. `CountWasTrue` judges the count by them.

**`SpscAsync`.** The handles around the ring: a call of the ring is one step on
a queue (which `ImplementsQueue` justifies), the waker is an instance of
`AtomicWaker` at full detail. `PollPop` follows `poll_pop` label by label: pop,
closed?, last pop, register, pop again, closed again. Tasks poll with changing
wakers and cancel; handles are dropped, the last one drops what is left.

**`AsyncStream`.** One action per critical section of the mutex; what the code
does after it unlocks (waking consumers one by one, notifying the condition
variable) are steps of their own. `blocked` threads become `woken` by a
notification or for no reason, then take the mutex and look again. `waiters` is
the list of pairs of an id and a waker; `waking[s]` are those a sender took and
has yet to invoke. Items are told apart by nobody, so the buffer is its length.

**`Completion`.** Both kinds of completion: `kind` says which. `strong` is the
count of the `Arc`, of which one reference is the handle's and one the context's.
`Swap` is the guard, `Store` the critical section, `Notify` and `Release` what
follows it. The waiter is a thread in `wait` or `wait_timeout` (`timed`) or a
task. A result is known by the callback that brought it.

**`Channels`.** `mpsc::channel`, `mpsc::unbounded` and `oneshot::channel`, one of
which `Init` chooses (`kind`): all three are a queue, a count of senders and a
flag for the receiver behind a mutex, with an `AtomicWaker` for the receiver. A
oneshot's queue is its one value, its sender is dropped by `send`, and a second
instance of `AtomicWaker` carries the cancellation to the sender. One action per
critical section; `PollRecv`, the oneshot's poll and `cancellation` are followed
label by label (look, register, look again), and the wakers run at full detail.

**`AsyncMutex`.** One action per critical section of the std mutex. Unlocking
does not hand the lock over: it clones the waker of the first entry
(`WakeFirstWaiter`) and invokes it in a step of its own (`Wake`), while anybody
may take the lock first (`TryLock`, `PollLocks`). A waiting future keeps its id,
and with it its place, over all its polls (`PollWaits`); a pending one may be
dropped at any time (`DropFuture`), which passes a free lock on.

**`CallbackContext`.** `count` is the strong count of the `Arc`, `held[t]` the
references of a foreign thread. `With` enters, `WithLoad` looks at the flag,
`WithReturn` ends the callback: `Deactivate`, the drop of the handle and the
releases of other threads fall in between. Whoever gives back the last reference
destroys the value in a step of its own.

**`CallbackGate`.** What it promises: a gate that lets threads in until it is
closed, and a value that is destroyed once, when the gate is closed and nobody is
inside. `CallbackContext` implements it (`ImplementsGate`). No conjunct mentions
reference counts: that the counting is enough is what the refinement shows.

**`PanicSafe`.** A call goes through phases (callback, cleanup, the destructors
of both, of the state, and of a result that is not returned), each under two
nested `catch_unwind`s. `catchers` are the handlers around the code that runs;
a panic goes to the innermost one, whose diagnostic and whose payload's
destructor may panic again.

**`FfiString`.** The calls for a string that foreign code allocated
(`ffi_string_owned`, `take_owned_cstring`, `take_owned_cstring_c`) and for one it
writes into a buffer of ours. A text is its length, a byte is NUL or not. The first
two free the string in the destructor of a guard (`DropGuard`), so that a conversion
that panics passes it; the third has no guard, and `CopyAndFree` may panic in the
copy, before it has freed.

**`Json`.** The parser over tokens: the open calls of `object` and `array` are
the frames of a stack, `Read(t)` is one token. The text is made up as it is
read, so that every text within the bound is parsed. Against it stands `grammar`,
the JSON grammar with the meaning of each text, generated bottom-up and without
regard to how the parser works; `Display` is the writer.

**`Combinators`.** `JoinAllStep`, `SelectStep` and `PollOnly` poll one child; the
children are external and complete at any moment, also in the middle of a round,
each then invoking the waker it has. The task polls when it is woken, or unasked,
each time with another waker.

**`SlotMap`.** `SlotMap` and a `SecondaryMap` used with its keys. Keys go through
`as_ffi` and `from_ffi` at each use. `dict`, `dead` and `shadow` are what a reader
of the documentation would remember: the values by key, the keys of removed
values, what the secondary map was given. `GetDisjointMut` is the call for an array of keys,
checked in order as in the code, followed by a write through each reference that
was handed out: two references to one value would let the second write change what
the holder of the first has written. `ClearPanics` is a `clear` in which the
drop of a value panics.

**`SmallVec`.** `ArrayVec` and `SmallVec`. The cells of the array keep the bits
of elements that were moved out; `gone` counts for each element how often it was
dropped or given to the caller, and `model` is the sequence that the calls should
have made. Panics of drops and of `retain`'s test are outcomes of the calls.

**`ForeignCalls`, `Futures`, `Collections`.** The parts of a layer side by side,
for model checking: `ForeignCalls` has `Completion`, `CallbackContext`,
`PanicSafe`, `FfiString` and `Json` (the middle three by way of `ForeignParts`, which
`ForeignProofs` extends as well); `Futures` has `AsyncMutex` and `Combinators`;
`Collections` has `SlotMap` and `SmallVec`. The parts of one module share no
state in the code, so each behaviour is one of one part (`part` chooses which)
and the others stay as they began; the run has the sum, not the product, of
their states.

**`AtomicWakerProofs`, `SpscRingProofs`, `SpscAsyncProofs`, `ChannelsProofs`,
`AsyncStreamProofs`, `ForeignProofs`, `FuturesProofs`, `CollectionsProofs`.** The theorems
of section 5. Each extends the module, or modules, it is about; `ForeignProofs` is
about `Completion`, `CallbackContext`, `PanicSafe` and `FfiString`, `FuturesProofs`
about `AsyncMutex` and `Combinators`, `CollectionsProofs` about `SlotMap` and, by way of
`Collections`' instance `V`, `SmallVec`.

The altered forms in the modules ("Altered form: ...") are single definitions
changed the way a plausible mistake would change them: a store for a
compare-exchange, a check not repeated, a count not kept. Each property fails
for one of them, which shows that it does depend on that part of the code.

## 3. The runs

| run | instance | states | what it asks |
|---|---|---|---|
| `waker` | 3 threads, 2 tasks | 5 716 | exclusion, assertions, `NoLostWake`, and that the notification arrives |
| `ring` | producers t1 t2, consumers t2 t3, 2 slots, 4 items, 4-bit words from position 12 | 491 thousand | exclusive slots, refinement of `LossyQueue` |
| `ring_calls` | t1 t2 push, t2 pops, t1 counts, 3 slots, 4 items, 5-bit words from position 24 | 62 013 | the same refinement across the gap and the wrap-around, `CountWasTrue`, and that a call returns once the others make no new ones |
| `ring_push_not_lock_free` | one producer that runs, one consumer that may stop | | the counterexample of section 6 |
| `spsc_async` | 2 producers, 1 consumer, 2 slots, 3 items, 2 wakers | 50 503 | no lost wakeup, `None` is final, sleepers are polled |
| `spsc_async_shared` | 1 producer, 2 consumers of one handle | | the counterexample of section 6 |
| `stream` | 2 senders, 2 consumers, 2 slots, 2 futures | 214 294 | all of the stream's properties |
| `foreign_calls` | 3 callbacks, 2 wakers, both kinds of completion; 3 foreign threads with up to 2 references each; all panics; texts and buffers of up to 4 bytes, 2 of them on the stack; texts of up to 10 tokens, 2 levels deep | 49 743 | one result, references, timeouts, the wait ends; refinement of `CallbackGate`; panics are contained; strings are freed once (but for a panic of the copy without a guard) and were terminated; the parser accepts the grammar |
| `channels` | 2 senders, buffer 1, 3 items, 2 wakers, all three kinds | 107 631 | no value left behind, no lost wakeup of the receiver or of `cancellation`, sleepers are polled |
| `futures` | 3 tasks, 3 futures, 2 wakers; up to 3 children, 6 polls | 456 553 | one guard, a free lock is offered and taken; the children are armed, and what can be answered is |
| `collections` | 3 slots, 4-bit versions, 3 removals, arrays of up to 2 keys; 3 cells, 5 elements of 2 kinds | 319 386 | keys find their values, the list of vacant slots is sound, a good key keeps its entry; elements are owned once and in order |
| `slot_map_wrap` | 2 slots, 3-bit versions, 4 removals | | the counterexample of section 6 |

The bounds, and why the interesting cases fit in them.

- *Three threads in `waker`*: one in `register` and one in `wake` make the race;
  the third is the second registration, or the second wake, that finds the word
  changed again.
- *Four items in a ring of two or three slots*: the ring fills, is overwritten or
  refuses, and a slot is claimed for the next lap while the thread of the last
  one is still inside. Two slots make eviction race eviction; three slots have a
  lap of four positions and so the gap in `Ring::next`. The start position puts
  the end of the machine word inside both runs. The assumption `RingAssumption`
  bounds the items by the positions of a word, less one lap: the stamps cannot
  tell positions a whole word apart from each other, and with 64 bits no thread
  sleeps through the 2^62 pushes and more that this allows.
  `CallsReturn` does not lean on the number of items: that the others stop making
  new calls is its premise, and not a consequence of the bound. While they go on,
  the code lets a claim lose, or `len` find the read cursor moved, any number of
  times; the run has these defeats, as often as four items allow, and the property
  promises nothing for them.
- *Threads with two roles* (t2 produces and consumes) keep the number of
  threads, and so the states, low without fixing who does what.
- *Three items in `spsc_async`*: full, overwritten, and one more after the first
  await was answered. Two wakers are enough for an old one and a new one.
- *Two consumers with two futures in `stream`*: both wait at once, one is woken
  and finds the buffer emptied by the other. Two senders and two slots: both
  block, and a clear frees two slots at once, where one notification is not
  enough. `MaxWakers` is 1 there, since a re-poll with another waker is told
  from the first by `Register` alone; `spsc_async` and `foreign_calls` have 2.
- *Three callbacks in `foreign_calls`*: the first, a duplicate that overlaps it
  and one that comes after it is done. *Three foreign threads*: one in the
  callback, one that retains, one that gives back the last reference. Two
  references are enough for a thread to give one back and keep one. *Two of four
  bytes on the stack*: buffers below, at and beyond the size of the stack buffer,
  and texts that fill them. *Ten tokens*: an object with two fields, also with
  the same key twice; arrays in objects and the reverse; and texts one level too
  deep, which begin after two tokens.
- *Three items and a buffer of 1 in `channels`*: the queue of `channel` fills (its
  capacity is the buffer and one more) and a send is refused;
  two senders go in either order, or one clones itself while the other goes.
- *Three tasks in `futures`*: a holder and two waiters, so that the first
  waiter is dropped, or overtaken by `try_lock`, after it was woken and the
  second must be told. With three futures one task waits again, under a new id.
  *Three children*: one done, one that completes in the middle of a round, one
  that is skipped if the round ends early; each asks for one poll, so that three
  of the six come unasked.
- *Three slots and three removals in `collections`*: the map is full (an insert
  fails), the list of vacant slots has up to two entries in either order (slot 0
  is the sentinel and never vacant; `ListIsSound` is about lists of any length), and
  a slot is used three times. Two keys (`MaxCount`) are the fewest for which
  `get_disjoint_mut` looks for a repeated slot; without that look
  `GoodKeysKeepTheirs` fails in this run. *Five elements and three cells*: the vector passes
  its inline capacity, in the middle of an `extend` too, and comes back below it
  on the heap.

Deadlock is checked in all runs: where the program may stop (all handles are
gone, all calls have returned) the module says so with an explicit action
(`Terminated`, `Freed`, `Over`, `AllReleased`, ...), and everything else that stops
would be reported. Only `collections` and `slot_map_wrap` do without: their parts
are sequential and end when the bounds on removals and elements are used up.

## 4. What is assumed

**Memory.** The models are sequentially consistent. In `Ring` both cursors are
accessed with `SeqCst` only; a value is written before the `Release` store of
its stamp and read after an `Acquire` load that saw it. In `AtomicWaker` the
cell is accessed between an acquiring and a releasing operation on the one word,
whose modification order all threads agree on; no other variable orders it.
`producer_closed` is stored with `Release` before the wake and loaded with
`Acquire` after the registration: both sides then go through the waker's word by
read-modify-writes, the later of which reads what the earlier one released. The
stream and the completions use a mutex. What a weaker order would allow beyond
this is not modelled.

**Fairness.** Weak fairness of the steps a thread takes inside a method: the
operating system runs it. A weak compare-exchange that could succeed does not
fail for no reason for ever (strong fairness of the claims in `SpscRing`; a claim that
loses to another thread is no such failure, and nothing is assumed about how often
that happens). The executor polls
a task after its waker was invoked, which is the contract of `Waker`. The mutex
is granted, a condition variable that was notified wakes its thread, and in
`Completion` time passes. In `Combinators` who has completed a child invokes the
waker it had stored. *Not* assumed: that anybody pushes, drops a handle,
starts an await, cancels or polls unasked; that a condition variable wakes
without a notification; that a foreign callback ever comes. In
`ProducersRunSpec` only the producers run.

**Contracts of the callers.** A completion's context is live during each call,
as its safety section demands: a duplicate comes only while somebody holds the
allocation. The drop of a handle comes when nobody uses it, as ownership in Rust
ensures; `NextItem` borrows the stream, `Stream::poll_next` borrows it mutably. A
foreign thread uses a callback context through a reference that it holds. Foreign
strings are null or terminated, and a foreign function writes no more bytes than
it was told. A `Drain` or an iterator is not forgotten; `keep` and the destructors
of elements do not reach the vector they are in, which they could only by unsafe
code. A destructor does not panic twice (the process would abort).

## 5. What is proved

Eight modules hold the theorems, for *every* value of the constants that their
assumptions allow: any sets of threads, senders, consumers and callbacks, any
capacities, any numbers of items, futures, polls and removals. Each theorem is
`Spec => []P` for a property `P` that a run checks too, except where the table
says otherwise. Each inductive invariant was checked by TLC before it was proved,
with finite sets for the numbers it quantifies over. The induction step has one
case per action, and under it one per part of the invariant that the action can
disturb.

| module | theorem | property |
|---|---|---|
| `AtomicWakerProofs` | `TypeCorrect` | `TypeOK` of the waker (in no run: `CellExclusion` and `AssertionsHold` say more) |
| | `CellIsExclusive` | `CellExclusion`: the unsafe accesses of the cell never overlap |
| | `AssertionsAreRight` | `AssertionsHold`: the `unwrap` and the debug assertions never fail |
| | `NoWakeIsLost` | `NoLostWake`: a task that registered before a wake began was notified, or a thread is on its way |
| `SpscRingProofs` | `SlotsAreExclusive` | `SlotAccess`: nobody else is at a slot that is written, read or exchanged, and it is empty or full as it should be |
| | `CountsAreTrue` | `CountWasTrue`: `len` returns the number of items held at one instant meanwhile, or one less if an eviction was between its moves then |
| | `RingIsAQueue` | `ImplementsQueue`: `SpscRing` refines `LossyQueue` |
| `SpscAsyncProofs` | `EndStaysFinal` | `EndIsFinal`: after `None` the ring is empty and its producer gone |
| | `NoWakeupIsLost` | `NoLostWakeup`, for one consumer: for two it is false (section 6) |
| `ChannelsProofs` | `NothingIsLeftBehind` | `NothingLeftBehind`: no value in a channel that nobody reads |
| | `NoWakeupIsLost` | `NoLostWakeup` of the receiver and of `cancellation` |
| `AsyncStreamProofs` | `TypeCorrect` | `TypeOK`: the buffer keeps its bound, the count of senders is right |
| | `NotificationsReach` | `NoLostNotification`: a free slot is not forgotten while producers block |
| | `WaitersStayExact` | `WaitersAreExact`: those who sleep are in the list, and nobody else |
| | `EndStaysFinal` | `EndIsFinal` |
| `ForeignProofs` | `ReferencesAreKept` | `References`: the count of the `Arc` is that of its users |
| | `FirstResultWins` | `FirstResultIsAnswer`: the first result is answered or dropped, every other dropped |
| | `TimeoutsAreLate` | `TimeoutIsLate` |
| | `ContextImplementsGate` | `ImplementsGate`: `CallbackContext` refines `CallbackGate` |
| | `StringsAreFreedOnce` | `FreedOnce`: once on every way out of the calls with a guard, and of the one without but for a panic of its copy |
| | `TextsAreTerminated` | `TextWasTerminated` |
| | `PanicsStayIn` | `PanicsAreContained` |
| `FuturesProofs` | `OneGuard` | `MutualExclusion`: at most one guard, and the flag is set exactly while there is one |
| | `FreeLockIsOffered` | `LockIsOffered`: a free lock with waiters is offered to one that is still there |
| | `MapIsInLine` | `Entries` (below, in no run): the map holds the waiting futures, each once |
| | `ChildrenStayArmed` | `ChildrenAreArmed` |
| `CollectionsProofs` | `KeysAreGood` | `KeysFindTheirValues`, while no version wraps |
| | `SecondaryKeepsTheirs` | `GoodKeysKeepTheirs`, while no version wraps; for arrays of keys of any length |
| | `ListIsSound` | `FreeListIsSound`, also while versions wrap |
| | `ElementsHaveOneOwner` | `OwnedOnce`: an element is in one place, or gone once |
| | `VectorsHoldTheirSequence` | `HoldsItsSequence`: vector and iterator hold what the calls made of them |

### From which assumptions

The assumptions on the constants are in the modules that declare them, and TLC
evaluates them in the runs: bounds are natural numbers, a capacity and a number
of wakers are not 0, thread sets that stand for different sides are disjoint,
sets that are counted are finite, and what stands for "none" (`NoTask`, `NoWaker`,
`NoCallback`, `NoValue`) is not one of the things it is none of. Beyond these:

- `FuturesAssumption` says there is room for two children, since `select` has two.
- `RingAssumption` says that a position of the ring and the one a lap before or
  after it do not come round while some thread holds an old one: `MaxItems +
  Capacity` is at most the number of positions in a word, `Cycle`. The code has
  64-bit words, in which there are more than 2^62 positions for any capacity (a lap
  of `Lap` numbers has more than `Lap / 4` positions), so the theorems are about
  any run of less than that many pushes, from any lap on. If only `MaxItems <
  Cycle` were asked, the refinement would be false, as TLC finds with three slots,
  4-bit words and five items: for a push that slept, the position a lap before
  its own comes round, and it takes a ring for full that is not. That the length of a lap is even and divides `Word`, and is
  at least twice the capacity, follows from the code's `next_power_of_two`; they
  are among the assumptions because the prover knows nothing of powers of two,
  and TLC evaluates them for each instance.
- `NoWakeupIsLost` of `SpscAsync` has the hypothesis that there is one consumer.
- `StringsAreFreedOnce` and `TextsAreTerminated` say that `MaxBytes` is a number,
  `CollectionsAssumption` that `Cap` and `MaxElements` are; a capacity of 0 is a case of
  the theorems.
- `KeysAreGood` and `SecondaryKeepsTheirs` have the hypothesis `NoWrap`:
  `4 * MaxRemovals + 2 <= Word`. With the code's 32 bits that is any use of a map
  with less than 2^30 removals. The bound that is needed per slot is half the word
  (section 6); the models count the removals of the whole map. `ListIsSound` needs
  no such bound. That `Word` is a number, and even, is among the assumptions
  because the prover does not know it of powers of two.

### The waker

None of the invariants is inductive: that two threads are not both in the cell
does not say what the word looks like, so nothing prevents a third one from
entering. The inductive invariant `IInv` adds

- `Word`: while a thread is before its release in `register`, `REGISTERING` is
  set; where the release has failed, both bits are; in `take`, `WAKING` alone is;
  and if any bit is set there is such a thread. Hence a compare-exchange from
  `WAITING`, or a `fetch_or` that found `WAITING`, finds nobody in the cell.
- `Cell`: what the owner stored is still there, a thread with a waker in hand
  has one, and `armed`, if any, is what the cell holds.

`BasicStep` shows that `TypeOK`, `CellExclusion`, `Word` and `Cell` are kept
together; `NoLostWakeStep` then shows for each action that whoever carried an
owed task's waker still does or has handed it on: the wake that finds
`REGISTERING` leaves `WAKING` behind, and the release that finds it takes the
waker out again and invokes it.

The second half of the module is for those who use the waker as its
documentation asks: one thread registers (`SoleRegistrar`), any number wake. A
waker is `Reached` if it was invoked or a thread carries it, and `Covered` if it is
reached or its registration stands or is being made. `RegisterCovers`: a
registration covers its waker. `CoveredStep`: no step of another thread uncovers
it. `WakeReaches`: a wake that begins while it is covered reaches it.

### The ring

Positions wrap, and skip the numbers between the last slot of a lap and the next
power of two, so nothing is proved about them as they are. `Pos(n)` is the `n`-th
position from `Start` on, for any integer `n`. The lemmas of the first part say that
`NextPosition(Pos(n)) = Pos(n + 1)`, that a stamp plus a lap is `Pos(n + Capacity)`,
that the slot of `Pos(n)` is `n % Capacity`, that positions less than `Cycle` apart
differ, and that a stamp `Pos(n) + 1` is no position. From there on the cursors
stand at the numbers `R` and `W`, a thread at `At(t)`, and the rest is arithmetic of
integers.

`SlotAccess` is not inductive: that two threads are not at one slot does not say
which stamps let a third one in. The inductive invariant `IInv` has

- `Cursors`: `R <= W <= R + Capacity`, and a thread's position is a number that one
  of the cursors has had; `Budget`: there are items left for every push that
  has yet to move the write cursor, so no cursor leaves `0 .. MaxItems`;
- `Where`: what a label says of the thread's position. A thread at `push_claim`
  whose position is still `W` has a free slot (`Given(W - Capacity)`) with nobody
  evicting for it; one at `pop_claim` whose position is still `R` has a full one;
  who has claimed for writing is in `R .. W - 1` until it has published, who has
  claimed for reading is in `W - Capacity .. R - 1` until it has released;
- `Alone`: a claimed position has one writer and one taker, and there is one
  thread between the two cursors' moves of an eviction;
- `Stamps`, `Contents`: for each of the last `Capacity` positions, what has become of
  it decides the stamp of its slot and whether the slot has a value: being
  written, full or being read, released for the next lap, or about to be
  evicted. While an eviction is between its two moves the oldest position is
  full again, under the stamp it had.

Each step that changes a stamp, a value or a cursor has a lemma of its own; the
steps that only move a thread on are shown together (`PushQuiet`, `PopQuiet`,
`LenQuiet`) from what the load they follow has told (`PushStampSays`,
`PopStampSays`, `FullRing`).

`CountsAreTrue` adds that a thread at `len`'s second look at the write cursor has
read a write cursor whose distance to the read cursor was, at some moment of the
call, the number of items held less the evictions between their moves, of which
there is one at most (`Showed`, `OneEvicts`), *if* the read cursor is still where it
was (`Counts`). The cursors only grow, so
finding the same one again means that it has not moved.

For `RingIsAQueue` the queue is read off the ring: `Held(n)` is the item of position `n`,
in its slot or with the thread that has claimed it, for the positions `R .. W - 1`
and, during an eviction, for the one more that no cursor shows (`Shown`). A successful
claim makes the queue grow or shrink by one (`QueueGrows`, `QueueShrinks`), an eviction
makes it lose its first item and gain one at the end at once (`QueueShifts`), and when
it moves the second cursor the queue stays as it is. A call that answers without a
claim does so at the load that finds the other cursor a lap behind, or where it
is: these steps map to the refusal of a full queue and the `None` of an empty one.
All other steps are stutters.

### The users of the waker

`SpscAsyncProofs` and `ChannelsProofs` instantiate `AtomicWakerProofs` with the
variables of their wakers and take `IInv` and the lemmas above from it; the first
lemmas (`SameWaker`, `RPSame`, `SPSame`) say that the actions of the instance are
those of the instance in the model. What `poll_pop`, `recv`, the oneshot's `poll` and
`cancellation` add is the same in each case (`Awake`, `RecvAwake`, `SendAwake`): from
the registration on the task is covered, and if there is something it has not
seen since it looked last, it is reached or somebody who delivered has still to
wake. `Placed` says that only the one consumer registers, and goes on only after
`register` has returned; for the oneshot's sender this needs that whoever polls
`cancellation` owns the only sender (`Owned`).

`EndInv`, `Ended`: the end is seen by a look at the ring that comes after the look at
the flag, so the invariant ties the label between the two to the flag.

### The stream

`IInv` is `TypeOK` with

- `Roles`: who waits on the condition variable owns its sender, who polls keeps the
  stream alive, and the stream is closed exactly if nobody owns a sender;
- `Numbered` and `Ids`: a future that has no id yet is among those that were created
  and not counted by `next_waiter`, so the ids of two futures differ and stay
  within the type;
- `Paid`: while producers are blocked and nobody is about to notify all, the free
  slots are no more than the producers on their way and the consumers that have
  yet to notify one. `NoLostNotification` says this only where it matters; a step
  in between needs it throughout.
- `WaitersAreExact`, which is inductive once ids are known to be unique.

### The completions

`OneWinner`: the flag chooses one callback, and no other gets past it. `Owned`
gives the count of the `Arc` as a function of where that callback and the handle
are. `ResultPlaced` says in which one of three places the result is, and `KeptInTime`
that a result which came in time stays in the slot until the owner looks.

### Foreign code

For `CallbackContext` the numbered references form a set `Refs` whose size is the
count, less the handle's (`Counted`); who is in a call has a reference (`InCall`),
the flag is cleared before the handle's reference goes (`Closed`), and the value
is destroyed by the one thread that gave back the last (`Dying`). `GateStep` maps
each action to one of the gate or to a stutter: the load of the flag is the
entry, the destruction of the value the gate's.

In `FfiString` the invariant says how often the string has been freed at each line
(`FreedSoFar`), and that where `take_owned_cstring_c` converts it has copied: so the
one state in which it ends unfreed is that of `CopyPanicked`. In `PanicSafe` it says which handlers are left at each point
(`Handled`), which phases have run (`RanSoFar`) and what has become of the result
(`ResultSoFar`). These three parts have no state in common, so each has its own
specification in `ForeignProofs`, made of the same `Init` and `Next`, of the same
instances in `ForeignParts`, that `ForeignCalls` runs.

### The asynchronous lock and the combinators

`MutualExclusion` is inductive with the types. `LockIsOffered` is not: that the
task which unlocks clones *some* waker says nothing unless the entry it came
from belongs to a future that will look. `Entries` says so: ids are taken in
turn and belong to one future each; a pending future has an entry with the waker
of its last poll; every entry has an owner that is pending with that waker or is
being polled. `EntriesOfOthers`, `EntriesBeginPoll`, `EntriesWaits` and
`EntriesWithout` show that each kind of step keeps this; `WakeFirstOffers` uses
it for the two steps that free the lock or drop a future while it is free. In
every other step the lock is taken, a poll begins, or the wakeup moves on.

`ChildrenAreArmed` speaks of a task that sleeps, that is, of the end of a round.
Inside the round `Armed` says it of the children that were passed, and `Fresh` that
a round which stops early has an output, so that the task does not sleep.

### The slot map

`KeysFindTheirValues` needs that a version never comes back (`Versions`: it is at
most twice the removals and one more, odd exactly while the slot is occupied),
that keys and occupied slots belong to each other (`Live`), and that `insert` never
takes an occupied slot off the list of vacant ones. The last one is about a
linked list: `Listed` says that there is a set of vacant slots with a rank each,
where each leads to a slot of lower rank or to the end. A slot taken off the list
is thus not met again; slots put in front get higher ranks (`ListGrows`). `remove`,
`clear` and a `clear` cut short by a panic share `Vacated`.

`SecondaryInv` says that an entry has a version that its slot has had. With
`OlderIsLess` (below half of their range, versions compared by wrapping difference
are ordered as numbers) an insert with an outdated key never puts out a good one.
`DisjointStep` shows of `get_disjoint_mut` that each slot is written through one
reference, since the keys before it in the array have other slots.

`FreeListIsSound` follows the list for as many steps as there are slots. Its
invariant ranks the vacant slots from the end of the list (`RankedList`): the last
has rank 1, each other one more than the slot it leads to, and no two have the
same. The head has the number of slots on the list for its rank, so all ranks below are
taken (`RanksAreTaken`).
`Walk` concludes that following the list meets every slot of it once; this is an
induction over the list, and is done by taking the least step at which it would
go wrong. The parity of a version tells whether the slot is occupied whether it
has wrapped or not (`Parity`, `WrapsEven`), so `NoWrap` is not needed. After a
`clear` that a panic cut short only the slots on the list are ranked.

### The vectors

Two things are shown of `SmallVec`, one on top of the other. First, for each
operation as a function of the vector, which sequence it leaves (`as_slice`):
`PushAppends`, `HeapKeeps`, `DrainLeaves`, `RemoveLeaves`, `InsertAdds`, `TruncateKeeps`,
`RetainKeeps`, `DedupKeepsFirsts`. These are statements about cells, place by place,
on the heap and inline. Three operations are loops, which the model writes as
recursive functions. `LoopRuns` says that a loop whose rounds lead from one set
of states to the next has a course, and it is proved by taking the least round
at which it would fail, since the induction theorems of the library cannot be
used (they take an operator). For `retain` the set of round `i` says that the elements
kept so far have been moved down in order and the cells from `i` on are
untouched; for `dedup`, that the elements are the old ones in another order, the
first of each run so far in front, and the unread ones where they were.

Second, who owns the elements. `VecInv` says that `self` and `iter` have their types
and hold `model` and `rest`, and `Owned`: each of these two sequences has an element
once, they have none in common, what is in one of them is not gone, and what was
made and is in neither is gone once, unless a panic has lost elements. `OwnedOnce`
follows (`VecInvMeansOwnedOnce`), but is not inductive without the sequences: that
an element has one owner does not say that the cells past `len` are not looked
at. A step takes a sequence apart: `Picks(q, p, I)` says that `q` has the elements of `p` at the
places `I`, `Split` that parts at different places have no element in common, and
`Handover` that `Owned` holds after the parts have gone where they go. `VectorGivesUp`,
`IteratorGivesUp`, `VectorHandsOver` and `VectorGains` are the four ways this happens.

### What is only model-checked

- Liveness (`WakeArrives`, `CallsReturn`, `SleeperIsPolled`, `BlockedBailOut`,
  `WaitEnds`, `SleepersArePolled`, `LockIsTaken`, `Resolves`): the prover does not
  reason about fairness.
- `ParsesTheGrammar` compares with a grammar that is generated recursively.

## 6. Where the code and its documentation disagree

**`push` can wait for a suspended consumer** (run `ring_push_not_lock_free`).
The module's first line calls the ring lock-free and `push` is documented as
"Attempts to push an item into the ring without blocking." But a pop takes its
position with a compare-exchange and frees the slot with a later store. A
consumer that is suspended in between leaves a slot that is neither free nor full
for the producer, which goes round the loop of `push` until the consumer runs
again. When all threads run and the others stop making new calls, a call returns
(`CallsReturn`); while the others go on they may overtake it again and again.

**Two awaits on a shared `SpscConsumer`** (run `spsc_async_shared`). `pop_async`
takes `&self` and the handle is `Sync`, and `COVERAGE.md` names concurrent calls
through shared handles, but there is one waker: the second task's registration
replaces the first one's, or is dropped if both register at once, and when the
producer goes, one of the two futures is never polled again. With one awaiting
task `NoLostWakeup` and `SleeperIsPolled` hold, whichever waker it uses.

**Keys of a `SlotMap` come back** (run `slot_map_wrap`). `README.md:62` says "A key
from a removed value does not find a later value in the same slot." `remove`
steps the version of the slot with a wrapping addition and never retires a slot,
so after 2^31 removals from one slot its versions repeat: a key that was kept all
the time finds, and removes, a value it was not made for. The run has versions of
three bits, where this takes four removals. Below that (`collections`)
`KeysFindTheirValues` holds. `SecondaryMap` compares versions by a wrapping
difference and so takes a newer key for an older one once they are 2^31 apart;
`GoodKeysKeepTheirs` is about keys closer than that.

Two more things a reader of the documentation may not expect. No run is set apart
for them; the properties are stated so as to allow them, and only them.

- `buffered_count` ("Returns the current buffered item count.", `spsc.rs:335` and `:368`)
  may return one item less than the ring has held during the whole call: when a
  `push_overwrite` on a full ring has moved the read cursor (`spsc.rs:112`) and not yet
  the write cursor (`:120`), the cursors are `Capacity - 1` apart, while no call could
  find the ring anything but full. `CountWasTrue` with `n = m.items` alone fails
  in `ring_calls`: three items in three slots, and the count is 2.
- `take_owned_cstring_c` is "Functionally identical to the `i8` variant"
  (`ffi_string.rs:228-229`), but copies the text before it calls `free_fn` (`:246-247`)
  and has no guard, so that the string leaks if the copy panics: what
  `ffi_string.rs:149-154` says the guard of the other variant is for.

## 7. What is not modelled

- A waker that panics, and the poisoning of mutexes that would follow. The crate
  recovers poisoned locks everywhere, but wakers later in the list of a stream
  are then not invoked, and a push of the ring unwinds after the item is in. The
  contract of `Wake` leaves a panic open, and the repository promises nothing
  for it.
- In `Completion`: the null context (returns at once), `error_from_cstr`, and
  the `catch_user_panic` around `UnitCompletion::callback`. `context_ptr` and
  `default` give the same pointer that `new` does.
- In `AsyncStream`: the wrap-around of 64-bit ids, `buffered_count`,
  `is_closed` and `capacity` (they read one field under the lock), and the drop
  of the remaining items and wakers outside the lock.
- In `Channels`: `is_closed`, `same_receiver` and `is_canceled`, which read under
  the lock. A oneshot receiver may be polled again after it was ready; it then
  reports the cancellation, as in the code.
- In `AsyncMutex`: what the drop of a waker does. `mutex.rs:80` drops replaced
  wakers with the std mutex held, so a waker whose drop reaches the same lock
  would lock it twice.
- `Debug` implementations, constructors' argument checks, and layout.
- In `CallbackContext`: the null pointer (returns at once), `get` and
  `is_active`, which only read.
- In `PanicSafe`: the text of the diagnostic, and a destructor that panics while
  it unwinds, which aborts.
- In `FfiString`: what the UTF-8 conversion makes of a text.
- In `Combinators`: `boxed` and `boxed_local`, and a child whose poll panics.
- In `SmallVec`: `clone`, comparison and hashing, which read; a `==` that panics in
  `dedup`; a `Drain` that is forgotten.
- In `Json`: the lexical layer, that is blanks, escapes and numbers, where the
  interest is in the characters a model would abstract from; and `FromJson`,
  which converts one value at a time and keeps nothing.
- `four_char_code` converts four bytes and `ffi_callbacks` names types: they have no
  state, and unit tests reach what they do.

## 8. Plan

Every component with state is modelled, and every safety property of the passing
runs is proved but `ParsesTheGrammar`. What is left:

1. `SpscAsync` uses the ring as an atomic queue. `RingIsAQueue` justifies that for each
   call; a composition with `LossyQueue` itself, in which calls overlap, would
   state it in one theorem.

`Json` has a recursive operator and stays with TLC, and so does `ForeignCalls`,
which extends it; the theorems about the other parts of `ForeignCalls` are in
modules that do not.

## 9. Running it

    tlc -workers 2 -config AtomicWaker.cfg AtomicWaker
    tlc -workers 2 -config SpscRing.cfg SpscRing
    tlc -workers 2 -config SpscRingCalls.cfg SpscRing
    tlc -workers 2 -config SpscAsync.cfg SpscAsync
    tlc -workers 2 -config AsyncStream.cfg AsyncStream
    tlc -workers 2 -config ForeignCalls.cfg ForeignCalls
    tlc -workers 2 -config Channels.cfg Channels
    tlc -workers 2 -config Futures.cfg Futures
    tlc -workers 2 -config Collections.cfg Collections
    tlapm AtomicWakerProofs.tla
    tlapm SpscRingProofs.tla
    tlapm SpscAsyncProofs.tla
    tlapm ChannelsProofs.tla
    tlapm AsyncStreamProofs.tla
    tlapm ForeignProofs.tla
    tlapm FuturesProofs.tla
    tlapm CollectionsProofs.tla

`SpscRingLone.cfg`, `SpscAsyncShared.cfg` and `SlotMapWrap.cfg` (of `SlotMap`) end
with the counterexamples of section 6. The longest runs (`ring`,
`stream`) take about a minute and a half on two cores, the proofs of a module
from half a minute to ten minutes.
