----------------------------- MODULE AsyncStreamProofs ----------------------------
(***************************************************************************)
(* Theorems about AsyncStream, for any capacity and any number of senders, *)
(* consumers, futures and wakers.                                          *)
(*                                                                         *)
(* Who waits on the condition variable still owns its sender, and who      *)
(* polls keeps the stream alive (Roles).  A future that has no number yet  *)
(* is one of those that were created and not counted by next_waiter, so    *)
(* two futures never have the same one (Ids).  A free slot is paid for by  *)
(* a producer that is on its way or a consumer that is about to notify     *)
(* (Paid).                                                                 *)
(***************************************************************************)
EXTENDS AsyncStream, FiniteSetTheorems, TLAPS

Polling == {"poll", "pending"}

Roles ==
    /\ \A s \in Senders :
        /\ pc[s] \in {"idle", "blocked", "woken", "wake"}
        /\ pc[s] \in {"blocked", "woken"} => s \in owners
    /\ \A c \in Consumers :
        /\ pc[c] \in {"idle", "made_room", "cleared"} \cup Polling
        /\ pc[c] \in Polling => ~consumer_gone
    /\ closed <=> owners = {}
    /\ ended => closed /\ buffered = 0

\* The futures that were polled and have no number yet
Fresh == {c \in Consumers : pc[c] = "poll" /\ waiter[c] = NoWaiter}

Numbered == IsFiniteSet(Fresh) /\ next_waiter - 1 + Cardinality(Fresh) <= futures

Ids ==
    /\ \A c \in Consumers :
        /\ pc[c] \notin Polling => waiter[c] = NoWaiter
        /\ pc[c] = "pending" => waiter[c] # NoWaiter
        /\ waiter[c] < next_waiter
        /\ current[c][1] = c
    /\ \A c, d \in Consumers : waiter[c] = waiter[d] => c = d \/ waiter[c] = NoWaiter

Clearing == {c \in Consumers : pc[c] = "cleared"}
Coming == {s \in Senders : pc[s] = "woken"} \cup {c \in Consumers : pc[c] = "made_room"}

Paid ==
    /\ IsFiniteSet(Coming)
    /\ Blocked # {} /\ Clearing = {} => ~consumer_gone /\ Capacity - buffered <= Cardinality(Coming)

IInv == TypeOK /\ Roles /\ Numbered /\ Ids /\ Paid /\ WaitersAreExact

-----------------------------------------------------------------------------
(* Steps                                                                   *)

\* A producer that adds to the buffer, or waits, in push_or_block or back from a wait
CanPush(s) == pc[s] \in {"idle", "woken"}

\* A poll of a future, or of the stream, that is pending
PollMore(c, w) == pc[c] = "pending" /\ futures' = futures /\ BeginPoll(c, w, waiter[c])

USE DEF State, Tasks, Threads, Goto, Full, STREAM_WAITER, NoWaiter, Polling

\* What a step is, with push_or_block and the polls taken apart.
LEMMA StepKinds ==
    ASSUME TypeOK, Roles, [Next]_vars
    PROVE  \/ UNCHANGED vars
           \/ \E s \in Senders, new \in Senders : Clone(s, new)
           \/ \E s \in Senders : Push(s)
           \/ \E s \in owners : CanPush(s) /\ ~MustWait /\ Deliver(s)
           \/ \E s \in owners : CanPush(s) /\ MustWait /\ Block(s)
           \/ \E s \in Senders : SpuriousWakeup(s)
           \/ \E s \in Senders : WakeOne(s)
           \/ \E s \in Senders : WakeDone(s)
           \/ \E s \in Senders : DropSender(s)
           \/ \E c \in Consumers : Next1(c)
           \/ \E c \in Consumers : StreamNext(c)
           \/ \E c \in Consumers, w \in Wakers : PollMore(c, w)
           \/ \E c \in Consumers : PollItem(c)
           \/ \E c \in Consumers : PollEnd(c)
           \/ \E c \in Consumers : PollPending(c)
           \/ \E c \in Consumers : MadeRoom(c)
           \/ \E c \in Consumers : Cancel(c)
           \/ \E c \in Consumers : TryNext(c)
           \/ \E c \in Consumers : ClearBuffer(c)
           \/ \E c \in Consumers : Cleared(c)
           \/ \E c \in Consumers : DropStream(c)
<1>1. ASSUME NEW s \in Senders, PushOrBlock(s) \/ Resume(s)
      PROVE  s \in owners /\ CanPush(s) /\ ((MustWait /\ Block(s)) \/ (~MustWait /\ Deliver(s)))
  BY <1>1 DEF PushOrBlock, Resume, CanSend, CanPush, Roles
<1>2. ASSUME NEW c \in Consumers, PollAgain(c) PROVE current[c] \in Wakers /\ PollMore(c, current[c])
  BY <1>2 DEF PollAgain, PollMore, TypeOK
<1>3. ASSUME NEW c \in Consumers, PollUnasked(c) PROVE \E w \in Wakers : PollMore(c, w)
  BY <1>3 DEF PollUnasked, PollMore
<1> QED
  BY <1>1, <1>2, <1>3 DEF Next, Begin, Continue, Terminated

\* Every step keeps the types, the bounds of the buffer and the count of senders.
LEMMA TypesStep == IInv /\ [Next]_vars => TypeOK'
<1> SUFFICES ASSUME IInv, [Next]_vars PROVE TypeOK'
  OBVIOUS
<1> USE AsyncStreamAssumption DEF IInv, TypeOK, Roles
<1>1. ASSUME NEW s \in Senders, NEW new \in Senders, Clone(s, new) PROVE TypeOK'
  <2>1. IsFiniteSet(owners)
    BY FS_Subset
  <2>2. sender_count' = Cardinality(owners')
    BY <1>1, <2>1, FS_AddElement DEF Clone
  <2> QED
    BY <1>1, <2>2 DEF Clone, CanSend
<1>2. ASSUME NEW s \in Senders, Push(s) PROVE TypeOK'
  BY <1>2 DEF Push, CanSend, TakeWaiters
<1>3. ASSUME NEW s \in owners, CanPush(s), ~MustWait, Deliver(s) PROVE TypeOK'
  BY <1>3 DEF CanPush, MustWait, Deliver, TakeWaiters
<1>4. ASSUME NEW s \in owners, CanPush(s), MustWait, Block(s) PROVE TypeOK'
  BY <1>4 DEF CanPush, MustWait, Block
<1>5. ASSUME NEW s \in Senders, SpuriousWakeup(s) PROVE TypeOK'
  BY <1>5 DEF SpuriousWakeup
<1>6. ASSUME NEW s \in Senders, WakeOne(s) PROVE TypeOK'
  BY <1>6 DEF WakeOne
<1>7. ASSUME NEW s \in Senders, WakeDone(s) PROVE TypeOK'
  BY <1>7 DEF WakeDone
<1>8. ASSUME NEW s \in Senders, DropSender(s) PROVE TypeOK'
  <2>1. IsFiniteSet(owners)
    BY FS_Subset
  <2>2. sender_count' = Cardinality(owners')
    BY <1>8, <2>1, FS_RemoveElement DEF DropSender, CanSend
  <2>3. closed' \in BOOLEAN
    BY <1>8 DEF DropSender
  <2> QED
    BY <1>8, <2>2, <2>3 DEF DropSender, TakeWaiters
<1>9. ASSUME NEW c \in Consumers, Next1(c) PROVE TypeOK'
  BY <1>9 DEF Next1, Alive, BeginPoll
<1>10. ASSUME NEW c \in Consumers, StreamNext(c) PROVE TypeOK'
  BY <1>10 DEF StreamNext, Alive, OthersIdle, BeginPoll
<1>11. ASSUME NEW c \in Consumers, NEW w \in Wakers, PollMore(c, w) PROVE TypeOK'
  BY <1>11 DEF PollMore, BeginPoll
<1>12. ASSUME NEW c \in Consumers, PollItem(c) PROVE TypeOK'
  BY <1>12 DEF PollItem, Remove
<1>13. ASSUME NEW c \in Consumers, PollEnd(c) PROVE TypeOK'
  BY <1>13 DEF PollEnd, Remove
<1>14. ASSUME NEW c \in Consumers, PollPending(c) PROVE TypeOK'
  <2> DEFINE id == IF waiter[c] = NoWaiter THEN next_waiter ELSE waiter[c]
  <2>1. waiter[c] = NoWaiter => next_waiter <= futures
    <3> SUFFICES ASSUME waiter[c] = NoWaiter PROVE next_waiter <= futures
      OBVIOUS
    <3>1. c \in Fresh
      BY <1>14 DEF PollPending, Fresh
    <3>2. Cardinality(Fresh) \in Nat /\ Cardinality(Fresh) # 0
      BY <3>1, FS_CardinalityType, FS_EmptySet DEF Numbered
    <3> QED
      BY <3>2 DEF Numbered
  <2>2. id \in 0 .. MaxFutures /\ current[c] \in Wakers
    BY <2>1
  <2>3. waiters' \in SUBSET ((0 .. MaxFutures) \X Wakers)
    <3>1. waiters' = {e \in waiters : e[1] # id} \cup {<<id, current[c]>>}
      BY <1>14 DEF PollPending, Register
    <3> QED
      BY <3>1, <2>2
  <2>4. next_waiter' \in 1 .. MaxFutures + 1 /\ waiter' \in [Consumers -> NoWaiter .. MaxFutures]
    BY <1>14, <2>1, <2>2 DEF PollPending
  <2> QED
    BY <1>14, <2>3, <2>4 DEF PollPending
<1>15. ASSUME NEW c \in Consumers, MadeRoom(c) PROVE TypeOK'
  BY <1>15 DEF MadeRoom, NotifyOne, Blocked
<1>16. ASSUME NEW c \in Consumers, Cancel(c) PROVE TypeOK'
  BY <1>16 DEF Cancel, Remove
<1>17. ASSUME NEW c \in Consumers, TryNext(c) PROVE TypeOK'
  BY <1>17 DEF TryNext, Alive
<1>18. ASSUME NEW c \in Consumers, ClearBuffer(c) PROVE TypeOK'
  BY <1>18 DEF ClearBuffer, Alive
<1>19. ASSUME NEW c \in Consumers, Cleared(c) PROVE TypeOK'
  BY <1>19 DEF Cleared, NotifyAll, Blocked
<1>20. ASSUME NEW c \in Consumers, DropStream(c) PROVE TypeOK'
  BY <1>20 DEF DropStream, Alive, OthersIdle
<1>21. CASE UNCHANGED vars
  BY <1>21 DEF vars
<1> QED
  BY <1>1, <1>2, <1>3, <1>4, <1>5, <1>6, <1>7, <1>8, <1>9, <1>10, <1>11, <1>12, <1>13, <1>14, <1>15, <1>16, <1>17, <1>18, <1>19, <1>20, <1>21, StepKinds

\* Who waits has a sender, who polls has a stream, and the last sender closes.
LEMMA RolesStep == IInv /\ [Next]_vars => Roles'
<1> SUFFICES ASSUME IInv, [Next]_vars PROVE Roles'
  OBVIOUS
<1> USE AsyncStreamAssumption DEF IInv, TypeOK, Roles
<1>1. ASSUME NEW s \in Senders, NEW new \in Senders, Clone(s, new) PROVE Roles'
  BY <1>1 DEF Clone, CanSend
<1>2. ASSUME NEW s \in Senders, Push(s) PROVE Roles'
  BY <1>2 DEF Push, CanSend, TakeWaiters
<1>3. ASSUME NEW s \in owners, CanPush(s), ~MustWait, Deliver(s) PROVE Roles'
  BY <1>3 DEF CanPush, MustWait, Deliver, TakeWaiters
<1>4. ASSUME NEW s \in owners, CanPush(s), MustWait, Block(s) PROVE Roles'
  BY <1>4 DEF CanPush, MustWait, Block
<1>5. ASSUME NEW s \in Senders, SpuriousWakeup(s) PROVE Roles'
  BY <1>5 DEF SpuriousWakeup
<1>6. ASSUME NEW s \in Senders, WakeOne(s) PROVE Roles'
  BY <1>6 DEF WakeOne
<1>7. ASSUME NEW s \in Senders, WakeDone(s) PROVE Roles'
  BY <1>7 DEF WakeDone
<1>8. ASSUME NEW s \in Senders, DropSender(s) PROVE Roles'
  <2>1. IsFiniteSet(owners) /\ IsFiniteSet(owners')
    BY <1>8, FS_Subset DEF DropSender
  <2>2. sender_count' = 0 <=> owners' = {}
    BY <1>8, <2>1, FS_RemoveElement, FS_EmptySet DEF DropSender, CanSend
  <2> QED
    BY <1>8, <2>2 DEF DropSender, CanSend, TakeWaiters
<1>9. ASSUME NEW c \in Consumers, Next1(c) PROVE Roles'
  BY <1>9 DEF Next1, Alive, BeginPoll
<1>10. ASSUME NEW c \in Consumers, StreamNext(c) PROVE Roles'
  BY <1>10 DEF StreamNext, Alive, OthersIdle, BeginPoll
<1>11. ASSUME NEW c \in Consumers, NEW w \in Wakers, PollMore(c, w) PROVE Roles'
  BY <1>11 DEF PollMore, BeginPoll
<1>12. ASSUME NEW c \in Consumers, PollItem(c) PROVE Roles'
  BY <1>12 DEF PollItem, Remove
<1>13. ASSUME NEW c \in Consumers, PollEnd(c) PROVE Roles'
  BY <1>13 DEF PollEnd, Remove
<1>14. ASSUME NEW c \in Consumers, PollPending(c) PROVE Roles'
  BY <1>14 DEF PollPending, Register
<1>15. ASSUME NEW c \in Consumers, MadeRoom(c) PROVE Roles'
  BY <1>15 DEF MadeRoom, NotifyOne, Blocked
<1>16. ASSUME NEW c \in Consumers, Cancel(c) PROVE Roles'
  BY <1>16 DEF Cancel, Remove
<1>17. ASSUME NEW c \in Consumers, TryNext(c) PROVE Roles'
  BY <1>17 DEF TryNext, Alive
<1>18. ASSUME NEW c \in Consumers, ClearBuffer(c) PROVE Roles'
  BY <1>18 DEF ClearBuffer, Alive
<1>19. ASSUME NEW c \in Consumers, Cleared(c) PROVE Roles'
  BY <1>19 DEF Cleared, NotifyAll, Blocked
<1>20. ASSUME NEW c \in Consumers, DropStream(c) PROVE Roles'
  BY <1>20 DEF DropStream, Alive, OthersIdle
<1>21. CASE UNCHANGED vars
  BY <1>21 DEF vars
<1> QED
  BY <1>1, <1>2, <1>3, <1>4, <1>5, <1>6, <1>7, <1>8, <1>9, <1>10, <1>11, <1>12, <1>13, <1>14, <1>15, <1>16, <1>17, <1>18, <1>19, <1>20, <1>21, StepKinds

\* A number is used once.
LEMMA IdsStep == IInv /\ [Next]_vars => Ids'
<1> SUFFICES ASSUME IInv, [Next]_vars PROVE Ids'
  OBVIOUS
<1> USE AsyncStreamAssumption DEF IInv, TypeOK, Roles, Ids
<1>1. ASSUME NEW s \in Senders, NEW new \in Senders, Clone(s, new) PROVE Ids'
  BY <1>1 DEF Clone, CanSend
<1>2. ASSUME NEW s \in Senders, Push(s) PROVE Ids'
  BY <1>2 DEF Push, CanSend, TakeWaiters
<1>3. ASSUME NEW s \in owners, CanPush(s), ~MustWait, Deliver(s) PROVE Ids'
  BY <1>3 DEF CanPush, MustWait, Deliver, TakeWaiters
<1>4. ASSUME NEW s \in owners, CanPush(s), MustWait, Block(s) PROVE Ids'
  BY <1>4 DEF CanPush, MustWait, Block
<1>5. ASSUME NEW s \in Senders, SpuriousWakeup(s) PROVE Ids'
  BY <1>5 DEF SpuriousWakeup
<1>6. ASSUME NEW s \in Senders, WakeOne(s) PROVE Ids'
  BY <1>6 DEF WakeOne
<1>7. ASSUME NEW s \in Senders, WakeDone(s) PROVE Ids'
  BY <1>7 DEF WakeDone
<1>8. ASSUME NEW s \in Senders, DropSender(s) PROVE Ids'
  BY <1>8 DEF DropSender, CanSend, TakeWaiters
<1>9. ASSUME NEW c \in Consumers, Next1(c) PROVE Ids'
  BY <1>9 DEF Next1, Alive, BeginPoll
<1>10. ASSUME NEW c \in Consumers, StreamNext(c) PROVE Ids'
  BY <1>10 DEF StreamNext, Alive, OthersIdle, BeginPoll
<1>11. ASSUME NEW c \in Consumers, NEW w \in Wakers, PollMore(c, w) PROVE Ids'
  BY <1>11 DEF PollMore, BeginPoll
<1>12. ASSUME NEW c \in Consumers, PollItem(c) PROVE Ids'
  BY <1>12 DEF PollItem, Remove
<1>13. ASSUME NEW c \in Consumers, PollEnd(c) PROVE Ids'
  BY <1>13 DEF PollEnd, Remove
<1>14. ASSUME NEW c \in Consumers, PollPending(c) PROVE Ids'
  BY <1>14 DEF PollPending, Register
<1>15. ASSUME NEW c \in Consumers, MadeRoom(c) PROVE Ids'
  BY <1>15 DEF MadeRoom, NotifyOne, Blocked
<1>16. ASSUME NEW c \in Consumers, Cancel(c) PROVE Ids'
  BY <1>16 DEF Cancel, Remove
<1>17. ASSUME NEW c \in Consumers, TryNext(c) PROVE Ids'
  BY <1>17 DEF TryNext, Alive
<1>18. ASSUME NEW c \in Consumers, ClearBuffer(c) PROVE Ids'
  BY <1>18 DEF ClearBuffer, Alive
<1>19. ASSUME NEW c \in Consumers, Cleared(c) PROVE Ids'
  BY <1>19 DEF Cleared, NotifyAll, Blocked
<1>20. ASSUME NEW c \in Consumers, DropStream(c) PROVE Ids'
  BY <1>20 DEF DropStream, Alive, OthersIdle
<1>21. CASE UNCHANGED vars
  BY <1>21 DEF vars
<1> QED
  BY <1>1, <1>2, <1>3, <1>4, <1>5, <1>6, <1>7, <1>8, <1>9, <1>10, <1>11, <1>12, <1>13, <1>14, <1>15, <1>16, <1>17, <1>18, <1>19, <1>20, <1>21, StepKinds

\* Nothing happens to the numbers.
LEMMA NumberedSame == Numbered /\ Fresh' = Fresh /\ UNCHANGED <<next_waiter, futures>> => Numbered'
  BY DEF Numbered

\* next_waiter counts the futures that have a number.
LEMMA NumberedStep == IInv /\ [Next]_vars => Numbered'
<1> SUFFICES ASSUME IInv, [Next]_vars PROVE Numbered'
  OBVIOUS
<1> USE AsyncStreamAssumption DEF IInv, TypeOK, Roles, Ids
<1>0. Cardinality(Fresh) \in Nat
  BY FS_CardinalityType DEF Numbered
<1>1. ASSUME NEW s \in Senders, NEW new \in Senders, Clone(s, new) PROVE Numbered'
  <2>1. Fresh' = Fresh /\ UNCHANGED <<next_waiter, futures>>
    BY <1>1 DEF Clone, CanSend, Fresh
  <2> QED
    BY <2>1, NumberedSame
<1>2. ASSUME NEW s \in Senders, Push(s) PROVE Numbered'
  <2>1. Fresh' = Fresh /\ UNCHANGED <<next_waiter, futures>>
    BY <1>2 DEF Push, CanSend, TakeWaiters, Fresh
  <2> QED
    BY <2>1, NumberedSame
<1>3. ASSUME NEW s \in owners, CanPush(s), ~MustWait, Deliver(s) PROVE Numbered'
  <2>1. Fresh' = Fresh /\ UNCHANGED <<next_waiter, futures>>
    BY <1>3 DEF CanPush, MustWait, Deliver, TakeWaiters, Fresh
  <2> QED
    BY <2>1, NumberedSame
<1>4. ASSUME NEW s \in owners, CanPush(s), MustWait, Block(s) PROVE Numbered'
  <2>1. Fresh' = Fresh /\ UNCHANGED <<next_waiter, futures>>
    BY <1>4 DEF CanPush, MustWait, Block, Fresh
  <2> QED
    BY <2>1, NumberedSame
<1>5. ASSUME NEW s \in Senders, SpuriousWakeup(s) PROVE Numbered'
  <2>1. Fresh' = Fresh /\ UNCHANGED <<next_waiter, futures>>
    BY <1>5 DEF SpuriousWakeup, Fresh
  <2> QED
    BY <2>1, NumberedSame
<1>6. ASSUME NEW s \in Senders, WakeOne(s) PROVE Numbered'
  <2>1. Fresh' = Fresh /\ UNCHANGED <<next_waiter, futures>>
    BY <1>6 DEF WakeOne, Fresh
  <2> QED
    BY <2>1, NumberedSame
<1>7. ASSUME NEW s \in Senders, WakeDone(s) PROVE Numbered'
  <2>1. Fresh' = Fresh /\ UNCHANGED <<next_waiter, futures>>
    BY <1>7 DEF WakeDone, Fresh
  <2> QED
    BY <2>1, NumberedSame
<1>8. ASSUME NEW s \in Senders, DropSender(s) PROVE Numbered'
  <2>1. Fresh' = Fresh /\ UNCHANGED <<next_waiter, futures>>
    BY <1>8 DEF DropSender, CanSend, TakeWaiters, Fresh
  <2> QED
    BY <2>1, NumberedSame
<1>9. ASSUME NEW c \in Consumers, Next1(c) PROVE Numbered'
  <2>1. Fresh' = Fresh \cup {c} /\ c \notin Fresh
    BY <1>9 DEF Next1, Alive, BeginPoll, Fresh
  <2>2. next_waiter' = next_waiter /\ futures' = futures + 1
    BY <1>9 DEF Next1, Alive, BeginPoll
  <2>3. IsFiniteSet(Fresh') /\ Cardinality(Fresh') = Cardinality(Fresh) + 1
    BY <2>1, FS_AddElement DEF Numbered
  <2> QED
    BY <1>0, <2>2, <2>3 DEF Numbered
<1>10. ASSUME NEW c \in Consumers, StreamNext(c) PROVE Numbered'
  <2>1. Fresh' = Fresh /\ UNCHANGED <<next_waiter, futures>>
    BY <1>10 DEF StreamNext, Alive, OthersIdle, BeginPoll, Fresh
  <2> QED
    BY <2>1, NumberedSame
<1>11. ASSUME NEW c \in Consumers, NEW w \in Wakers, PollMore(c, w) PROVE Numbered'
  <2>1. Fresh' = Fresh /\ UNCHANGED <<next_waiter, futures>>
    BY <1>11 DEF PollMore, BeginPoll, Fresh
  <2> QED
    BY <2>1, NumberedSame
<1>12. ASSUME NEW c \in Consumers, PollItem(c) PROVE Numbered'
  <2>1. Fresh' = Fresh \ {c}
    BY <1>12 DEF PollItem, Remove, Fresh
  <2>2. UNCHANGED <<next_waiter, futures>>
    BY <1>12 DEF PollItem, Remove
  <2>3. /\ IsFiniteSet(Fresh')
        /\ Cardinality(Fresh') = IF c \in Fresh THEN Cardinality(Fresh) - 1 ELSE Cardinality(Fresh)
    BY <2>1, FS_RemoveElement DEF Numbered
  <2> QED
    BY <1>0, <2>2, <2>3 DEF Numbered
<1>13. ASSUME NEW c \in Consumers, PollEnd(c) PROVE Numbered'
  <2>1. Fresh' = Fresh \ {c}
    BY <1>13 DEF PollEnd, Remove, Fresh
  <2>2. UNCHANGED <<next_waiter, futures>>
    BY <1>13 DEF PollEnd, Remove
  <2>3. /\ IsFiniteSet(Fresh')
        /\ Cardinality(Fresh') = IF c \in Fresh THEN Cardinality(Fresh) - 1 ELSE Cardinality(Fresh)
    BY <2>1, FS_RemoveElement DEF Numbered
  <2> QED
    BY <1>0, <2>2, <2>3 DEF Numbered
<1>14. ASSUME NEW c \in Consumers, PollPending(c) PROVE Numbered'
  <2>1. Fresh' = Fresh \ {c} /\ (c \in Fresh <=> waiter[c] = NoWaiter)
    BY <1>14 DEF PollPending, Register, Fresh
  <2>2. /\ next_waiter' = IF c \in Fresh THEN next_waiter + 1 ELSE next_waiter
        /\ futures' = futures
    BY <1>14, <2>1 DEF PollPending, Register
  <2>3. /\ IsFiniteSet(Fresh')
        /\ Cardinality(Fresh') = IF c \in Fresh THEN Cardinality(Fresh) - 1 ELSE Cardinality(Fresh)
    BY <2>1, FS_RemoveElement DEF Numbered
  <2> QED
    BY <1>0, <2>2, <2>3 DEF Numbered
<1>15. ASSUME NEW c \in Consumers, MadeRoom(c) PROVE Numbered'
  <2>1. Fresh' = Fresh /\ UNCHANGED <<next_waiter, futures>>
    BY <1>15 DEF MadeRoom, NotifyOne, Blocked, Fresh
  <2> QED
    BY <2>1, NumberedSame
<1>16. ASSUME NEW c \in Consumers, Cancel(c) PROVE Numbered'
  <2>1. Fresh' = Fresh /\ UNCHANGED <<next_waiter, futures>>
    BY <1>16 DEF Cancel, Remove, Fresh
  <2> QED
    BY <2>1, NumberedSame
<1>17. ASSUME NEW c \in Consumers, TryNext(c) PROVE Numbered'
  <2>1. Fresh' = Fresh /\ UNCHANGED <<next_waiter, futures>>
    BY <1>17 DEF TryNext, Alive, Fresh
  <2> QED
    BY <2>1, NumberedSame
<1>18. ASSUME NEW c \in Consumers, ClearBuffer(c) PROVE Numbered'
  <2>1. Fresh' = Fresh /\ UNCHANGED <<next_waiter, futures>>
    BY <1>18 DEF ClearBuffer, Alive, Fresh
  <2> QED
    BY <2>1, NumberedSame
<1>19. ASSUME NEW c \in Consumers, Cleared(c) PROVE Numbered'
  <2>1. Fresh' = Fresh /\ UNCHANGED <<next_waiter, futures>>
    BY <1>19 DEF Cleared, NotifyAll, Blocked, Fresh
  <2> QED
    BY <2>1, NumberedSame
<1>20. ASSUME NEW c \in Consumers, DropStream(c) PROVE Numbered'
  <2>1. Fresh' = Fresh /\ UNCHANGED <<next_waiter, futures>>
    BY <1>20 DEF DropStream, Alive, OthersIdle, Fresh
  <2> QED
    BY <2>1, NumberedSame
<1>21. CASE UNCHANGED vars
  <2>1. Fresh' = Fresh /\ UNCHANGED <<next_waiter, futures>>
    BY <1>21 DEF vars, Fresh
  <2> QED
    BY <2>1, NumberedSame
<1> QED
  BY <1>1, <1>2, <1>3, <1>4, <1>5, <1>6, <1>7, <1>8, <1>9, <1>10, <1>11, <1>12, <1>13, <1>14, <1>15, <1>16, <1>17, <1>18, <1>19, <1>20, <1>21, StepKinds

\* Nothing happens to those who wait for room, and none is made.
LEMMA PaidSame ==
    ASSUME TypeOK, Paid, UNCHANGED <<Coming, Clearing, consumer_gone>>, Blocked' \subseteq Blocked,
           buffered' \in Int, buffered' >= buffered
    PROVE  Paid'
<1>1. IsFiniteSet(Coming) /\ Cardinality(Coming) \in Nat
  BY FS_CardinalityType DEF Paid
<1> QED
  BY <1>1, AsyncStreamAssumption DEF Paid, TypeOK

\* One more is coming, or one less.
LEMMA OneMore ==
    ASSUME Paid, NEW t, t \notin Coming, Coming' = Coming \cup {t}
    PROVE  IsFiniteSet(Coming') /\ Cardinality(Coming') = Cardinality(Coming) + 1
  BY FS_AddElement DEF Paid

LEMMA OneLess ==
    ASSUME Paid, NEW t, Coming' = Coming \ {t}
    PROVE  /\ IsFiniteSet(Coming') /\ Cardinality(Coming') \in Nat
           /\ Cardinality(Coming') >= Cardinality(Coming) - 1
<1>1. IsFiniteSet(Coming) /\ Cardinality(Coming) \in Nat
  BY FS_CardinalityType DEF Paid
<1>2. IsFiniteSet(Coming') /\ Cardinality(Coming') \in Nat
  BY <1>1, FS_RemoveElement, FS_CardinalityType
<1>3. Cardinality(Coming') = IF t \in Coming THEN Cardinality(Coming) - 1 ELSE Cardinality(Coming)
  BY <1>1, FS_RemoveElement
<1> QED
  BY <1>1, <1>2, <1>3

\* A free slot is paid for.
LEMMA PaidStep == IInv /\ [Next]_vars => Paid'
<1> SUFFICES ASSUME IInv, [Next]_vars PROVE Paid'
  OBVIOUS
<1> USE AsyncStreamAssumption DEF IInv, TypeOK, Roles
<1>0. Cardinality(Coming) \in Nat
  BY FS_CardinalityType DEF Paid
<1>1. ASSUME NEW s \in Senders, NEW new \in Senders, Clone(s, new) PROVE Paid'
  <2>1. /\ UNCHANGED <<Coming, Clearing, consumer_gone>> /\ Blocked' \subseteq Blocked
        /\ buffered' \in Int /\ buffered' >= buffered
    BY <1>1 DEF Clone, CanSend, Coming, Blocked, Clearing
  <2> QED
    BY <2>1, PaidSame
<1>2. ASSUME NEW s \in Senders, Push(s) PROVE Paid'
  <2>1. /\ UNCHANGED <<Coming, Clearing, consumer_gone>> /\ Blocked' \subseteq Blocked
        /\ buffered' \in Int /\ buffered' >= buffered
    BY <1>2 DEF Push, CanSend, TakeWaiters, Coming, Blocked, Clearing
  <2> QED
    BY <2>1, PaidSame
<1>3. ASSUME NEW s \in owners, CanPush(s), ~MustWait, Deliver(s) PROVE Paid'
  <2>1. Coming' = Coming \ {s} /\ Blocked' = Blocked /\ Clearing' = Clearing /\ consumer_gone' = consumer_gone
    BY <1>3 DEF CanPush, MustWait, Deliver, TakeWaiters, Coming, Blocked, Clearing
  <2>2. buffered' = IF consumer_gone THEN buffered ELSE buffered + 1
    BY <1>3 DEF CanPush, MustWait, Deliver, TakeWaiters
  <2>3. /\ IsFiniteSet(Coming') /\ Cardinality(Coming') \in Nat
        /\ Cardinality(Coming') >= Cardinality(Coming) - 1
    BY <2>1, OneLess
  <2> QED
    BY <1>0, <2>1, <2>2, <2>3 DEF Paid
<1>4. ASSUME NEW s \in owners, CanPush(s), MustWait, Block(s) PROVE Paid'
  <2>1. Coming' = Coming \ {s} /\ UNCHANGED <<consumer_gone, buffered>>
    BY <1>4 DEF CanPush, MustWait, Block, Coming
  <2>2. ~consumer_gone /\ Capacity - buffered <= 0
    BY <1>4 DEF MustWait
  <2>3. IsFiniteSet(Coming') /\ Cardinality(Coming') \in Nat
    BY <2>1, OneLess
  <2> QED
    BY <2>1, <2>2, <2>3 DEF Paid
<1>5. ASSUME NEW s \in Senders, SpuriousWakeup(s) PROVE Paid'
  <2>1. /\ Coming' = Coming \cup {s} /\ s \notin Coming /\ Blocked' \subseteq Blocked
        /\ UNCHANGED <<Clearing, consumer_gone, buffered>>
    BY <1>5 DEF SpuriousWakeup, Coming, Blocked, Clearing
  <2>2. IsFiniteSet(Coming') /\ Cardinality(Coming') = Cardinality(Coming) + 1
    BY <2>1, OneMore
  <2> QED
    BY <1>0, <2>1, <2>2 DEF Paid
<1>6. ASSUME NEW s \in Senders, WakeOne(s) PROVE Paid'
  <2>1. /\ UNCHANGED <<Coming, Clearing, consumer_gone>> /\ Blocked' \subseteq Blocked
        /\ buffered' \in Int /\ buffered' >= buffered
    BY <1>6 DEF WakeOne, Coming, Blocked, Clearing
  <2> QED
    BY <2>1, PaidSame
<1>7. ASSUME NEW s \in Senders, WakeDone(s) PROVE Paid'
  <2>1. /\ UNCHANGED <<Coming, Clearing, consumer_gone>> /\ Blocked' \subseteq Blocked
        /\ buffered' \in Int /\ buffered' >= buffered
    BY <1>7 DEF WakeDone, Coming, Blocked, Clearing
  <2> QED
    BY <2>1, PaidSame
<1>8. ASSUME NEW s \in Senders, DropSender(s) PROVE Paid'
  <2>1. /\ UNCHANGED <<Coming, Clearing, consumer_gone>> /\ Blocked' \subseteq Blocked
        /\ buffered' \in Int /\ buffered' >= buffered
    BY <1>8 DEF DropSender, CanSend, TakeWaiters, Coming, Blocked, Clearing
  <2> QED
    BY <2>1, PaidSame
<1>9. ASSUME NEW c \in Consumers, Next1(c) PROVE Paid'
  <2>1. /\ UNCHANGED <<Coming, Clearing, consumer_gone>> /\ Blocked' \subseteq Blocked
        /\ buffered' \in Int /\ buffered' >= buffered
    BY <1>9 DEF Next1, Alive, BeginPoll, Coming, Blocked, Clearing
  <2> QED
    BY <2>1, PaidSame
<1>10. ASSUME NEW c \in Consumers, StreamNext(c) PROVE Paid'
  <2>1. /\ UNCHANGED <<Coming, Clearing, consumer_gone>> /\ Blocked' \subseteq Blocked
        /\ buffered' \in Int /\ buffered' >= buffered
    BY <1>10 DEF StreamNext, Alive, OthersIdle, BeginPoll, Coming, Blocked, Clearing
  <2> QED
    BY <2>1, PaidSame
<1>11. ASSUME NEW c \in Consumers, NEW w \in Wakers, PollMore(c, w) PROVE Paid'
  <2>1. /\ UNCHANGED <<Coming, Clearing, consumer_gone>> /\ Blocked' \subseteq Blocked
        /\ buffered' \in Int /\ buffered' >= buffered
    BY <1>11 DEF PollMore, BeginPoll, Coming, Blocked, Clearing
  <2> QED
    BY <2>1, PaidSame
<1>12. ASSUME NEW c \in Consumers, PollItem(c) PROVE Paid'
  <2>1. /\ Coming' = Coming \cup {c} /\ c \notin Coming /\ buffered' = buffered - 1
        /\ UNCHANGED <<Blocked, Clearing, consumer_gone>>
    BY <1>12 DEF PollItem, Remove, Coming, Blocked, Clearing
  <2>2. IsFiniteSet(Coming') /\ Cardinality(Coming') = Cardinality(Coming) + 1
    BY <2>1, OneMore
  <2> QED
    BY <1>0, <2>1, <2>2 DEF Paid
<1>13. ASSUME NEW c \in Consumers, PollEnd(c) PROVE Paid'
  <2>1. /\ UNCHANGED <<Coming, Clearing, consumer_gone>> /\ Blocked' \subseteq Blocked
        /\ buffered' \in Int /\ buffered' >= buffered
    BY <1>13 DEF PollEnd, Remove, Coming, Blocked, Clearing
  <2> QED
    BY <2>1, PaidSame
<1>14. ASSUME NEW c \in Consumers, PollPending(c) PROVE Paid'
  <2>1. /\ UNCHANGED <<Coming, Clearing, consumer_gone>> /\ Blocked' \subseteq Blocked
        /\ buffered' \in Int /\ buffered' >= buffered
    BY <1>14 DEF PollPending, Register, Coming, Blocked, Clearing
  <2> QED
    BY <2>1, PaidSame
<1>15. ASSUME NEW c \in Consumers, MadeRoom(c) PROVE Paid'
  <2>1. CASE Blocked = {}
    <3>1. Coming' = Coming \ {c} /\ Blocked' = {}
      BY <1>15, <2>1 DEF MadeRoom, NotifyOne, Blocked, Coming
    <3> QED
      BY <3>1, OneLess DEF Paid
  <2>2. ASSUME NEW b \in Blocked, pc' = [pc EXCEPT ![c] = "idle", ![b] = "woken"] PROVE Paid'
    <3> DEFINE rest == Coming \ {c}
    <3>1. /\ Coming' = rest \cup {b} /\ b \notin rest /\ c \in Coming
          /\ Blocked' \subseteq Blocked /\ UNCHANGED <<Clearing, consumer_gone, buffered>>
      BY <1>15, <2>2 DEF MadeRoom, NotifyOne, Blocked, Coming, Clearing
    <3>2. IsFiniteSet(rest) /\ Cardinality(rest) = Cardinality(Coming) - 1
      BY <3>1, FS_RemoveElement DEF Paid
    <3> HIDE DEF rest
    <3>3. IsFiniteSet(Coming') /\ Cardinality(Coming') = Cardinality(rest) + 1
      BY <3>1, <3>2, FS_AddElement
    <3> QED
      BY <1>0, <3>1, <3>2, <3>3 DEF Paid
  <2> QED
    BY <1>15, <2>1, <2>2 DEF MadeRoom, NotifyOne
<1>16. ASSUME NEW c \in Consumers, Cancel(c) PROVE Paid'
  <2>1. /\ UNCHANGED <<Coming, Clearing, consumer_gone>> /\ Blocked' \subseteq Blocked
        /\ buffered' \in Int /\ buffered' >= buffered
    BY <1>16 DEF Cancel, Remove, Coming, Blocked, Clearing
  <2> QED
    BY <2>1, PaidSame
<1>17. ASSUME NEW c \in Consumers, TryNext(c) PROVE Paid'
  <2>1. /\ Coming' = Coming \cup {c} /\ c \notin Coming /\ buffered' = buffered - 1
        /\ UNCHANGED <<Blocked, Clearing, consumer_gone>>
    BY <1>17 DEF TryNext, Alive, Coming, Blocked, Clearing
  <2>2. IsFiniteSet(Coming') /\ Cardinality(Coming') = Cardinality(Coming) + 1
    BY <2>1, OneMore
  <2> QED
    BY <1>0, <2>1, <2>2 DEF Paid
<1>18. ASSUME NEW c \in Consumers, ClearBuffer(c) PROVE Paid'
  <2>1. Coming' = Coming /\ c \in Clearing'
    BY <1>18 DEF ClearBuffer, Alive, Coming, Clearing
  <2> QED
    BY <2>1 DEF Paid
<1>19. ASSUME NEW c \in Consumers, Cleared(c) PROVE Paid'
  <2>1. Blocked' = {} /\ Coming' \subseteq Coming \cup Senders
    BY <1>19 DEF Cleared, NotifyAll, Blocked, Coming
  <2>2. IsFiniteSet(Coming \cup Senders)
    BY FS_Union DEF Paid
  <2>3. IsFiniteSet(Coming')
    BY <2>1, <2>2, FS_Subset
  <2> QED
    BY <2>1, <2>3 DEF Paid
<1>20. ASSUME NEW c \in Consumers, DropStream(c) PROVE Paid'
  <2>1. Coming' = Coming /\ c \in Clearing'
    BY <1>20 DEF DropStream, Alive, OthersIdle, Coming, Clearing
  <2> QED
    BY <2>1 DEF Paid
<1>21. CASE UNCHANGED vars
  <2>1. /\ UNCHANGED <<Coming, Clearing, consumer_gone>> /\ Blocked' \subseteq Blocked
        /\ buffered' \in Int /\ buffered' >= buffered
    BY <1>21 DEF vars, Coming, Blocked, Clearing
  <2> QED
    BY <2>1, PaidSame
<1> QED
  BY <1>1, <1>2, <1>3, <1>4, <1>5, <1>6, <1>7, <1>8, <1>9, <1>10, <1>11, <1>12, <1>13, <1>14, <1>15, <1>16, <1>17, <1>18, <1>19, <1>20, <1>21, StepKinds

\* Whoever makes news takes the waiters out.
LEMMA NothingStep == IInv /\ [Next]_vars => WaitersHaveNothing'
<1> SUFFICES ASSUME IInv, [Next]_vars PROVE WaitersHaveNothing'
  OBVIOUS
<1> USE AsyncStreamAssumption DEF IInv, TypeOK, Roles, WaitersAreExact, WaitersHaveNothing
<1>1. ASSUME NEW s \in Senders, NEW new \in Senders, Clone(s, new) PROVE WaitersHaveNothing'
  BY <1>1 DEF Clone, CanSend
<1>2. ASSUME NEW s \in Senders, Push(s) PROVE WaitersHaveNothing'
  BY <1>2 DEF Push, CanSend, TakeWaiters
<1>3. ASSUME NEW s \in owners, CanPush(s), ~MustWait, Deliver(s) PROVE WaitersHaveNothing'
  BY <1>3 DEF CanPush, MustWait, Deliver, TakeWaiters
<1>4. ASSUME NEW s \in owners, CanPush(s), MustWait, Block(s) PROVE WaitersHaveNothing'
  BY <1>4 DEF CanPush, MustWait, Block
<1>5. ASSUME NEW s \in Senders, SpuriousWakeup(s) PROVE WaitersHaveNothing'
  BY <1>5 DEF SpuriousWakeup
<1>6. ASSUME NEW s \in Senders, WakeOne(s) PROVE WaitersHaveNothing'
  BY <1>6 DEF WakeOne
<1>7. ASSUME NEW s \in Senders, WakeDone(s) PROVE WaitersHaveNothing'
  BY <1>7 DEF WakeDone
<1>8. ASSUME NEW s \in Senders, DropSender(s) PROVE WaitersHaveNothing'
  BY <1>8 DEF DropSender, CanSend, TakeWaiters
<1>9. ASSUME NEW c \in Consumers, Next1(c) PROVE WaitersHaveNothing'
  BY <1>9 DEF Next1, Alive, BeginPoll
<1>10. ASSUME NEW c \in Consumers, StreamNext(c) PROVE WaitersHaveNothing'
  BY <1>10 DEF StreamNext, Alive, OthersIdle, BeginPoll
<1>11. ASSUME NEW c \in Consumers, NEW w \in Wakers, PollMore(c, w) PROVE WaitersHaveNothing'
  BY <1>11 DEF PollMore, BeginPoll
<1>12. ASSUME NEW c \in Consumers, PollItem(c) PROVE WaitersHaveNothing'
  BY <1>12 DEF PollItem, Remove
<1>13. ASSUME NEW c \in Consumers, PollEnd(c) PROVE WaitersHaveNothing'
  BY <1>13 DEF PollEnd, Remove
<1>14. ASSUME NEW c \in Consumers, PollPending(c) PROVE WaitersHaveNothing'
  BY <1>14 DEF PollPending, Register
<1>15. ASSUME NEW c \in Consumers, MadeRoom(c) PROVE WaitersHaveNothing'
  BY <1>15 DEF MadeRoom, NotifyOne, Blocked
<1>16. ASSUME NEW c \in Consumers, Cancel(c) PROVE WaitersHaveNothing'
  BY <1>16 DEF Cancel, Remove
<1>17. ASSUME NEW c \in Consumers, TryNext(c) PROVE WaitersHaveNothing'
  BY <1>17 DEF TryNext, Alive
<1>18. ASSUME NEW c \in Consumers, ClearBuffer(c) PROVE WaitersHaveNothing'
  BY <1>18 DEF ClearBuffer, Alive
<1>19. ASSUME NEW c \in Consumers, Cleared(c) PROVE WaitersHaveNothing'
  BY <1>19 DEF Cleared, NotifyAll, Blocked
<1>20. ASSUME NEW c \in Consumers, DropStream(c) PROVE WaitersHaveNothing'
  BY <1>20 DEF DropStream, Alive, OthersIdle
<1>21. CASE UNCHANGED vars
  BY <1>21 DEF vars
<1> QED
  BY <1>1, <1>2, <1>3, <1>4, <1>5, <1>6, <1>7, <1>8, <1>9, <1>10, <1>11, <1>12, <1>13, <1>14, <1>15, <1>16, <1>17, <1>18, <1>19, <1>20, <1>21, StepKinds

\* A sleeper's entry is touched by nobody else but a sender, which wakes it.
LEMMA SleepersStep == IInv /\ [Next]_vars => SleepersAreRegistered'
<1> SUFFICES ASSUME IInv, [Next]_vars PROVE SleepersAreRegistered'
  OBVIOUS
<1> USE AsyncStreamAssumption DEF IInv, TypeOK, Roles, Ids, WaitersAreExact, SleepersAreRegistered
<1>1. ASSUME NEW s \in Senders, NEW new \in Senders, Clone(s, new) PROVE SleepersAreRegistered'
  BY <1>1 DEF Clone, CanSend
<1>2. ASSUME NEW s \in Senders, Push(s) PROVE SleepersAreRegistered'
  <2>1. /\ pc[s] = "idle" /\ pc' = [pc EXCEPT ![s] = "wake"]
        /\ waking' = [waking EXCEPT ![s] = {e[2] : e \in waiters}]
        /\ UNCHANGED Tasks
    BY <1>2 DEF Push, CanSend, TakeWaiters
  <2> QED
    BY <2>1
<1>3. ASSUME NEW s \in owners, CanPush(s), ~MustWait, Deliver(s) PROVE SleepersAreRegistered'
  BY <1>3 DEF CanPush, MustWait, Deliver, TakeWaiters
<1>4. ASSUME NEW s \in owners, CanPush(s), MustWait, Block(s) PROVE SleepersAreRegistered'
  BY <1>4 DEF CanPush, MustWait, Block
<1>5. ASSUME NEW s \in Senders, SpuriousWakeup(s) PROVE SleepersAreRegistered'
  BY <1>5 DEF SpuriousWakeup
<1>6. ASSUME NEW s \in Senders, WakeOne(s) PROVE SleepersAreRegistered'
  BY <1>6 DEF WakeOne
<1>7. ASSUME NEW s \in Senders, WakeDone(s) PROVE SleepersAreRegistered'
  BY <1>7 DEF WakeDone
<1>8. ASSUME NEW s \in Senders, DropSender(s) PROVE SleepersAreRegistered'
  BY <1>8 DEF DropSender, CanSend, TakeWaiters
<1>9. ASSUME NEW c \in Consumers, Next1(c) PROVE SleepersAreRegistered'
  BY <1>9 DEF Next1, Alive, BeginPoll
<1>10. ASSUME NEW c \in Consumers, StreamNext(c) PROVE SleepersAreRegistered'
  BY <1>10 DEF StreamNext, Alive, OthersIdle, BeginPoll
<1>11. ASSUME NEW c \in Consumers, NEW w \in Wakers, PollMore(c, w) PROVE SleepersAreRegistered'
  BY <1>11 DEF PollMore, BeginPoll
<1>12. ASSUME NEW c \in Consumers, PollItem(c) PROVE SleepersAreRegistered'
  BY <1>12 DEF PollItem, Remove
<1>13. ASSUME NEW c \in Consumers, PollEnd(c) PROVE SleepersAreRegistered'
  BY <1>13 DEF PollEnd, Remove
<1>14. ASSUME NEW c \in Consumers, PollPending(c) PROVE SleepersAreRegistered'
  BY <1>14 DEF PollPending, Register
<1>15. ASSUME NEW c \in Consumers, MadeRoom(c) PROVE SleepersAreRegistered'
  BY <1>15 DEF MadeRoom, NotifyOne, Blocked
<1>16. ASSUME NEW c \in Consumers, Cancel(c) PROVE SleepersAreRegistered'
  BY <1>16 DEF Cancel, Remove
<1>17. ASSUME NEW c \in Consumers, TryNext(c) PROVE SleepersAreRegistered'
  BY <1>17 DEF TryNext, Alive
<1>18. ASSUME NEW c \in Consumers, ClearBuffer(c) PROVE SleepersAreRegistered'
  BY <1>18 DEF ClearBuffer, Alive
<1>19. ASSUME NEW c \in Consumers, Cleared(c) PROVE SleepersAreRegistered'
  BY <1>19 DEF Cleared, NotifyAll, Blocked
<1>20. ASSUME NEW c \in Consumers, DropStream(c) PROVE SleepersAreRegistered'
  BY <1>20 DEF DropStream, Alive, OthersIdle
<1>21. CASE UNCHANGED vars
  BY <1>21 DEF vars
<1> QED
  BY <1>1, <1>2, <1>3, <1>4, <1>5, <1>6, <1>7, <1>8, <1>9, <1>10, <1>11, <1>12, <1>13, <1>14, <1>15, <1>16, <1>17, <1>18, <1>19, <1>20, <1>21, StepKinds

\* A future takes its entry with it.
LEMMA LiveStep == IInv /\ [Next]_vars => WaitersAreLive'
<1> SUFFICES ASSUME IInv, [Next]_vars PROVE WaitersAreLive'
  OBVIOUS
<1> USE AsyncStreamAssumption DEF IInv, TypeOK, Roles, Ids, WaitersAreExact, WaitersAreLive
<1>1. ASSUME NEW s \in Senders, NEW new \in Senders, Clone(s, new) PROVE WaitersAreLive'
  BY <1>1 DEF Clone, CanSend
<1>2. ASSUME NEW s \in Senders, Push(s) PROVE WaitersAreLive'
  BY <1>2 DEF Push, CanSend, TakeWaiters
<1>3. ASSUME NEW s \in owners, CanPush(s), ~MustWait, Deliver(s) PROVE WaitersAreLive'
  BY <1>3 DEF CanPush, MustWait, Deliver, TakeWaiters
<1>4. ASSUME NEW s \in owners, CanPush(s), MustWait, Block(s) PROVE WaitersAreLive'
  BY <1>4 DEF CanPush, MustWait, Block
<1>5. ASSUME NEW s \in Senders, SpuriousWakeup(s) PROVE WaitersAreLive'
  BY <1>5 DEF SpuriousWakeup
<1>6. ASSUME NEW s \in Senders, WakeOne(s) PROVE WaitersAreLive'
  BY <1>6 DEF WakeOne
<1>7. ASSUME NEW s \in Senders, WakeDone(s) PROVE WaitersAreLive'
  BY <1>7 DEF WakeDone
<1>8. ASSUME NEW s \in Senders, DropSender(s) PROVE WaitersAreLive'
  BY <1>8 DEF DropSender, CanSend, TakeWaiters
<1>9. ASSUME NEW c \in Consumers, Next1(c) PROVE WaitersAreLive'
  BY <1>9 DEF Next1, Alive, BeginPoll
<1>10. ASSUME NEW c \in Consumers, StreamNext(c) PROVE WaitersAreLive'
  BY <1>10 DEF StreamNext, Alive, OthersIdle, BeginPoll
<1>11. ASSUME NEW c \in Consumers, NEW w \in Wakers, PollMore(c, w) PROVE WaitersAreLive'
  BY <1>11 DEF PollMore, BeginPoll
<1>12. ASSUME NEW c \in Consumers, PollItem(c) PROVE WaitersAreLive'
  BY <1>12 DEF PollItem, Remove
<1>13. ASSUME NEW c \in Consumers, PollEnd(c) PROVE WaitersAreLive'
  BY <1>13 DEF PollEnd, Remove
<1>14. ASSUME NEW c \in Consumers, PollPending(c) PROVE WaitersAreLive'
  BY <1>14 DEF PollPending, Register
<1>15. ASSUME NEW c \in Consumers, MadeRoom(c) PROVE WaitersAreLive'
  BY <1>15 DEF MadeRoom, NotifyOne, Blocked
<1>16. ASSUME NEW c \in Consumers, Cancel(c) PROVE WaitersAreLive'
  BY <1>16 DEF Cancel, Remove
<1>17. ASSUME NEW c \in Consumers, TryNext(c) PROVE WaitersAreLive'
  BY <1>17 DEF TryNext, Alive
<1>18. ASSUME NEW c \in Consumers, ClearBuffer(c) PROVE WaitersAreLive'
  BY <1>18 DEF ClearBuffer, Alive
<1>19. ASSUME NEW c \in Consumers, Cleared(c) PROVE WaitersAreLive'
  BY <1>19 DEF Cleared, NotifyAll, Blocked
<1>20. ASSUME NEW c \in Consumers, DropStream(c) PROVE WaitersAreLive'
  BY <1>20 DEF DropStream, Alive, OthersIdle
<1>21. CASE UNCHANGED vars
  BY <1>21 DEF vars
<1> QED
  BY <1>1, <1>2, <1>3, <1>4, <1>5, <1>6, <1>7, <1>8, <1>9, <1>10, <1>11, <1>12, <1>13, <1>14, <1>15, <1>16, <1>17, <1>18, <1>19, <1>20, <1>21, StepKinds

-----------------------------------------------------------------------------

\* A new stream has one sender and nobody who waits.
LEMMA InitIInv == Init => IInv
<1> SUFFICES ASSUME Init PROVE IInv
  OBVIOUS
<1> USE AsyncStreamAssumption DEF Init
<1>1. TypeOK
  <2>1. sender_count = Cardinality(owners)
    BY FS_Singleton
  <2>2. current \in [Consumers -> Wakers]
    OBVIOUS
  <2>3. closed \in BOOLEAN /\ consumer_gone \in BOOLEAN /\ ended \in BOOLEAN
    BY Zenon
  <2> QED
    BY <2>1, <2>2, <2>3 DEF TypeOK
<1>2. Roles
  BY DEF Roles
<1>3. Fresh = {} /\ Coming = {}
  BY DEF Fresh, Coming
<1>4. Numbered /\ Paid
  BY <1>3, FS_EmptySet DEF Numbered, Paid, Blocked
<1>5. Ids
  BY DEF Ids
<1>6. WaitersAreExact
  BY DEF WaitersAreExact, WaitersHaveNothing, SleepersAreRegistered, WaitersAreLive
<1> QED
  BY <1>1, <1>2, <1>4, <1>5, <1>6 DEF IInv

LEMMA Invariance == Spec => []IInv
<1>1. IInv /\ [Next]_vars => IInv'
  BY TypesStep, RolesStep, NumberedStep, IdsStep, PaidStep, NothingStep, SleepersStep, LiveStep
     DEF IInv, WaitersAreExact
<1> QED
  BY <1>1, InitIInv, PTL DEF Spec

\* The state stays within its types, the buffer within its capacity and the number
\* of a future within those that were created; sender_count is the number of senders.
THEOREM TypeCorrect == Spec => []TypeOK
<1>1. IInv => TypeOK
  BY DEF IInv
<1> QED
  BY <1>1, Invariance, PTL

\* push_or_block never sleeps through its chance: as long as a producer is blocked
\* every free slot is claimed by one that is on its way or announced by a consumer
\* that has yet to notify, and a stream that is dropped leaves nobody blocked.
THEOREM NotificationsReach == Spec => []NoLostNotification
<1>1. IInv => NoLostNotification
  BY DEF IInv, Paid, Clearing, Coming, NoLostNotification
<1> QED
  BY <1>1, Invariance, PTL

\* The list of waiters holds those who sleep and nobody else, with the waker of
\* their last poll, whatever order polls, cancellations, pushes and drops come in.
THEOREM WaitersStayExact == Spec => []WaitersAreExact
<1>1. IInv => WaitersAreExact
  BY DEF IInv
<1> QED
  BY <1>1, Invariance, PTL

\* After a None there is no sender and no item, although senders are cloned and
\* dropped and producers come back from their wait concurrently.
THEOREM EndStaysFinal == Spec => []EndIsFinal
<1>1. IInv => EndIsFinal
  BY DEF IInv, Roles, EndIsFinal
<1> QED
  BY <1>1, Invariance, PTL

=============================================================================
