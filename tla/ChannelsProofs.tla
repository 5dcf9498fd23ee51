------------------------------ MODULE ChannelsProofs -----------------------------
(***************************************************************************)
(* Theorems about Channels, for any number of senders, any buffer and any  *)
(* number of sends and wakers, and for all three kinds of channel.         *)
(*                                                                         *)
(* Nothing is left behind because the count of senders is that of their    *)
(* owners (Counted) and a closed channel stays closed.  For the wakeups,   *)
(* each AtomicWaker has one who registers: the receiver at its own, and at *)
(* the sender's the one owner of a oneshot's sender (Owned).               *)
(***************************************************************************)
EXTENDS Channels, FiniteSetTheorems, TLAPS

RP == INSTANCE AtomicWakerProofs WITH Tasks <- Wakers, NoTask <- NoWaker, state <- rstate,
        waker <- rwaker, pc <- rpc, held <- rheld, notified <- rnotified,
        armed <- rarmed, owed <- rowed
SP == INSTANCE AtomicWakerProofs WITH Tasks <- Wakers, NoTask <- NoWaker, state <- sstate,
        waker <- swaker, pc <- spc, held <- sheld, notified <- snotified,
        armed <- sarmed, owed <- sowed

\* The definitions of R and RP, and of S and SP, are the same.
LEMMA RPSame ==
    /\ R!Init <=> RP!Init
    /\ \A t : R!Wake(t) <=> RP!Wake(t)
    /\ \A t, w : R!Register(t, w) <=> RP!Register(t, w)
    /\ \A t : R!Step(t) <=> RP!Step(t)
    /\ \A t, w : R!Carries(t, w) <=> RP!Carries(t, w)
<1> USE DEF R!WAITING, RP!WAITING, R!REGISTERING, RP!REGISTERING, R!WAKING, RP!WAKING, R!InRegister, RP!InRegister
<1>1. R!Init <=> RP!Init
  BY DEF R!Init, RP!Init
<1>2. \A t : R!Wake(t) <=> RP!Wake(t)
  BY DEF R!Wake, RP!Wake, R!Registered, RP!Registered
<1>3. \A t, w : R!Register(t, w) <=> RP!Register(t, w)
  BY DEF R!Register, RP!Register, R!RegisterLock, RP!RegisterLock, R!RegisterWhileWaking, RP!RegisterWhileWaking,
         R!RegisterWhileRegistering, RP!RegisterWhileRegistering, R!vars, RP!vars
<1>4. \A t : R!Step(t) <=> RP!Step(t)
  BY DEF R!Step, RP!Step, R!RegisterStore, RP!RegisterStore, R!RegisterRelease, RP!RegisterRelease,
         R!RegisterTake, RP!RegisterTake, R!RegisterSwap, RP!RegisterSwap, R!WakeTake, RP!WakeTake,
         R!WakeSwap, RP!WakeSwap, R!Notify, RP!Notify
<1>5. \A t, w : R!Carries(t, w) <=> RP!Carries(t, w)
  BY DEF R!Carries, RP!Carries
<1> QED
  BY <1>1, <1>2, <1>3, <1>4, <1>5

LEMMA SPSame ==
    /\ S!Init <=> SP!Init
    /\ \A t : S!Wake(t) <=> SP!Wake(t)
    /\ \A t, w : S!Register(t, w) <=> SP!Register(t, w)
    /\ \A t : S!Step(t) <=> SP!Step(t)
    /\ \A t, w : S!Carries(t, w) <=> SP!Carries(t, w)
<1> USE DEF S!WAITING, SP!WAITING, S!REGISTERING, SP!REGISTERING, S!WAKING, SP!WAKING, S!InRegister, SP!InRegister
<1>1. S!Init <=> SP!Init
  BY DEF S!Init, SP!Init
<1>2. \A t : S!Wake(t) <=> SP!Wake(t)
  BY DEF S!Wake, SP!Wake, S!Registered, SP!Registered
<1>3. \A t, w : S!Register(t, w) <=> SP!Register(t, w)
  BY DEF S!Register, SP!Register, S!RegisterLock, SP!RegisterLock, S!RegisterWhileWaking, SP!RegisterWhileWaking,
         S!RegisterWhileRegistering, SP!RegisterWhileRegistering, S!vars, SP!vars
<1>4. \A t : S!Step(t) <=> SP!Step(t)
  BY DEF S!Step, SP!Step, S!RegisterStore, SP!RegisterStore, S!RegisterRelease, SP!RegisterRelease,
         S!RegisterTake, SP!RegisterTake, S!RegisterSwap, SP!RegisterSwap, S!WakeTake, SP!WakeTake,
         S!WakeSwap, SP!WakeSwap, S!Notify, SP!Notify
<1>5. \A t, w : S!Carries(t, w) <=> SP!Carries(t, w)
  BY DEF S!Carries, SP!Carries
<1> QED
  BY <1>1, <1>2, <1>3, <1>4, <1>5

-----------------------------------------------------------------------------
(* Nothing is left behind.                                                 *)

SendPoll == {"check1", "register", "check2", "pending"}
RecvPoll == {"take1", "register", "take2", "pending"}

Methods ==
    /\ kind \in {"channel", "unbounded", "oneshot"}
    /\ queued \in Nat
    /\ pc \in [Threads -> {"idle", "drop", "wake", "gone"} \cup SendPoll \cup RecvPoll]
    /\ pc[Receiver] \in {"idle", "wake", "gone"} \cup RecvPoll
    /\ \A s \in Senders : pc[s] \in {"idle", "drop", "wake"} \cup SendPoll
    /\ current \in [Threads -> Wakers \cup {NoWaker}]
    /\ \A t \in Threads : pc[t] \in SendPoll \cup RecvPoll => current[t] \in Wakers

Counted == owners \subseteq Senders /\ senders = Cardinality(owners)

\* A oneshot has one sender; whoever drops it or polls cancellation() owns it.
Owned ==
    /\ \A s \in Senders : pc[s] \in {"drop"} \cup SendPoll => kind = "oneshot" /\ s \in owners
    /\ kind = "oneshot" => \A s, u \in owners : s = u

Ended ==
    /\ pc[Receiver] \in {"wake", "gone"} => ~open /\ queued = 0
    /\ ended => queued = 0 /\ Closed

ChannelInv == Methods /\ Counted /\ Owned /\ Ended

LEMMA InitChannelInv == Init => ChannelInv
<1> SUFFICES ASSUME Init PROVE ChannelInv
  OBVIOUS
<1>1. PICK s \in Senders : owners = {s}
  BY DEF Init
<1>2. Cardinality(owners) = 1
  BY <1>1, FS_Singleton
<1>3. ~ended
  BY Zenon DEF Init
<1> QED
  BY <1>1, <1>2, <1>3, ChannelsAssumption DEF Init, ChannelInv, Methods, Counted, Owned, Ended, Threads, SendPoll, RecvPoll

\* The count of senders is zero when nobody owns one, and only then.
LEMMA CountOfOwners ==
    ASSUME Counted
    PROVE  /\ IsFiniteSet(owners) /\ senders \in Nat
           /\ \A s \in owners : senders # 0
           /\ \A s \in owners : Cardinality(owners \ {s}) = senders - 1
           /\ \A s \in Senders \ owners : Cardinality(owners \cup {s}) = senders + 1
           /\ \A s \in owners : (\A u \in owners : u = s) => senders = 1
<1>1. IsFiniteSet(owners)
  BY ChannelsAssumption, FS_Subset DEF Counted
<1>2. senders \in Nat
  BY <1>1, FS_CardinalityType DEF Counted
<1>3. \A s \in owners : Cardinality(owners \ {s}) = senders - 1
  BY <1>1, FS_RemoveElement DEF Counted
<1>4. \A s \in Senders \ owners : Cardinality(owners \cup {s}) = senders + 1
  BY <1>1, FS_AddElement DEF Counted
<1>5. \A s \in owners : senders # 0
  BY <1>1, FS_EmptySet DEF Counted
<1>6. ASSUME NEW s \in owners, \A u \in owners : u = s PROVE senders = 1
  <2>1. owners = {s}
    BY <1>6
  <2> QED
    BY <2>1, FS_Singleton DEF Counted
<1> QED
  BY <1>1, <1>2, <1>3, <1>4, <1>5, <1>6

\* A poll begins with a waker of the task.
LEMMA PollBegins ==
    ASSUME ChannelInv, NEW t \in Threads, FirstPoll(t) \/ PollAgain(t) \/ PollUnasked(t)
    PROVE  \E w \in Wakers : BeginPoll(t, w) /\ (At(t, "idle") \/ At(t, "pending"))
<1>1. CASE PollAgain(t)
  BY <1>1 DEF PollAgain, At, ChannelInv, Methods, SendPoll
<1> QED
  BY <1>1 DEF FirstPoll, PollUnasked

LEMMA ChannelInvStep == ChannelInv /\ [Next]_vars => ChannelInv'
<1> SUFFICES ASSUME ChannelInv, [Next]_vars PROVE ChannelInv'
  OBVIOUS
<1> USE ChannelsAssumption DEF ChannelInv, Methods, Counted, Owned, Ended, Closed, Threads, SendPoll, RecvPoll, At, Goto
<1>1. ASSUME NEW s \in Senders, Send(s) PROVE ChannelInv'
  BY <1>1, CountOfOwners DEF Send, CanSend, AfterSend
<1>2. ASSUME NEW s \in Senders, SendRefused(s) PROVE ChannelInv'
  BY <1>2 DEF SendRefused, CanSend, AfterSend
<1>3. ASSUME NEW s \in Senders, NEW new \in Senders, Clone(s, new) PROVE ChannelInv'
  BY <1>3, CountOfOwners DEF Clone
<1>4. ASSUME NEW s \in Senders, DropSender(s) PROVE ChannelInv'
  BY <1>4, CountOfOwners DEF DropSender
<1>5. ASSUME NEW s \in Senders, WakeReceiver(s) PROVE ChannelInv'
  BY <1>5 DEF WakeReceiver, chan
<1>6. ASSUME NEW s \in Senders, NEW w \in Wakers, BeginCancellation(s, w) PROVE ChannelInv'
  BY <1>6 DEF BeginCancellation, chan
<1>7. ASSUME NEW s \in Senders, Canceled(s, "check1", "register") \/ Canceled(s, "check2", "pending")
      PROVE  ChannelInv'
  BY <1>7 DEF Canceled, chan
<1>8. ASSUME NEW s \in Senders, RegisterSender(s) PROVE ChannelInv'
  BY <1>8 DEF RegisterSender, chan
<1>9. ASSUME NEW w \in Wakers, BeginRecv(w), At(Receiver, "idle") \/ At(Receiver, "pending")
      PROVE  ChannelInv'
  BY <1>9 DEF BeginRecv, chan
<1>10. ASSUME TryRecv \/ Take("take1", "register") \/ Take("take2", "pending") PROVE ChannelInv'
  <2>1. ended' => ended \/ (queued = 0 /\ Closed)
    BY <1>10, Zenon DEF TryRecv, Take
  <2> QED
    BY <1>10, <2>1 DEF TryRecv, Take
<1>11. ASSUME RegisterReceiver PROVE ChannelInv'
  BY <1>11 DEF RegisterReceiver, chan
<1>12. ASSUME Close PROVE ChannelInv'
  BY <1>12 DEF Close
<1>13. ASSUME DropReceiver PROVE ChannelInv'
  BY <1>13 DEF DropReceiver
<1>14. ASSUME WakeSender PROVE ChannelInv'
  BY <1>14 DEF WakeSender, chan
<1>15. ASSUME NEW t \in Threads, Cancel(t) PROVE ChannelInv'
  BY <1>15 DEF Cancel, chan
<1>16. ASSUME NEW t \in Threads, WakerStep(t) PROVE ChannelInv'
  BY <1>16 DEF WakerStep, chan
<1>17. CASE UNCHANGED vars
  BY <1>17 DEF vars, chan
<1>18. ASSUME NEW t \in Threads, FirstPoll(t) \/ PollAgain(t) \/ PollUnasked(t) PROVE ChannelInv'
  BY <1>6, <1>9, <1>18, PollBegins DEF BeginPoll
<1> QED
  BY <1>1, <1>2, <1>3, <1>4, <1>5, <1>7, <1>8, <1>10, <1>11, <1>12, <1>13, <1>14, <1>15, <1>16, <1>17, <1>18
     DEF Next, Begin, Continue, PollRecv, Terminated

\* The end that a receiver is told is the end, and no item lies where nobody
\* will take it, for any number of senders and any buffer.
THEOREM NothingIsLeftBehind == Spec => []NothingLeftBehind
<1>1. ChannelInv => NothingLeftBehind
  BY DEF ChannelInv, Ended, NothingLeftBehind
<1> QED
  BY <1>1, InitChannelInv, ChannelInvStep, PTL DEF Spec

-----------------------------------------------------------------------------
(* No wakeup is lost: the receiver.                                        *)

\* Only the receiver registers at its waker, and it goes on when that returns.
RecvPlaced ==
    /\ rpc[Receiver] # "idle" => pc[Receiver] = "take2"
    /\ \A s \in Senders : rpc[s] \notin RP!InRegister

SenderWakes == \E s \in Senders : pc[s] \in {"drop", "wake"}

\* From its registration on a wake reaches the receiver, and for what it has
\* not seen there is a wake to come.
RecvAwake ==
    /\ pc[Receiver] \in {"take2", "pending"} => RP!Covered(Receiver, current[Receiver])
    /\ pc[Receiver] = "pending" /\ (queued > 0 \/ Closed) =>
           RP!Reached(current[Receiver]) \/ SenderWakes

RecvInv == RP!IInv /\ RecvPlaced /\ RecvAwake

LEMMA InitRecvInv == Init => RecvInv
<1> SUFFICES ASSUME Init PROVE RecvInv
  OBVIOUS
<1>1. RP!Init
  BY RPSame DEF Init
<1>2. RP!IInv
  BY <1>1, RP!InitIInv, ChannelsAssumption
<1>3. rpc = [t \in Threads |-> "idle"]
  BY <1>1 DEF RP!Init
<1> QED
  BY <1>2, <1>3 DEF Init, RecvInv, RecvPlaced, RecvAwake, Threads, RP!InRegister

LEMMA RecvInvStep == ChannelInv /\ ChannelInv' /\ RecvInv /\ [Next]_vars => RecvInv'
<1> SUFFICES ASSUME ChannelInv, ChannelInv', RecvInv, [Next]_vars PROVE RecvInv'
  OBVIOUS
<1> USE ChannelsAssumption DEF RecvInv, RecvPlaced, RecvAwake, SenderWakes, At, Goto
<1>t. /\ Receiver \in Threads /\ Senders \subseteq Threads
      /\ pc \in [Threads -> {"idle", "drop", "wake", "gone"} \cup SendPoll \cup RecvPoll]
      /\ pc[Receiver] \in RecvPoll => current[Receiver] \in Wakers
      /\ current \in [Threads -> Wakers \cup {NoWaker}]
  BY DEF ChannelInv, Methods, Threads
<1>r. RP!SoleRegistrar(Receiver)
  BY DEF RP!SoleRegistrar, Threads
\* Steps that leave the receiver alone and wake it later if there is need to.
<1>1. ASSUME NEW s \in Senders, UNCHANGED rvars, pc' = [pc EXCEPT ![s] = pc'[s]], current'[Receiver] = current[Receiver],
             \/ pc'[s] \in {"drop", "wake"}
             \/ /\ UNCHANGED <<queued, open, senders>> \/ (queued' = queued /\ open' = open /\ senders' # 0)
                /\ pc[s] \notin {"drop", "wake"}
      PROVE  RecvInv'
  <2>1. /\ RP!IInv' /\ UNCHANGED rpc
        /\ \A w : RP!Reached(w)' <=> RP!Reached(w)
        /\ \A w : RP!Covered(Receiver, w)' <=> RP!Covered(Receiver, w)
    BY <1>1, RP!Untouched DEF rvars, RP!vars
  <2>2. pc'[Receiver] = pc[Receiver]
    BY <1>1, <1>t
  <2>3. \/ SenderWakes'
        \/ ((queued' > 0 \/ Closed') => (queued > 0 \/ Closed)) /\ (SenderWakes => SenderWakes')
    BY <1>1, <1>t DEF Closed
  <2> QED
    BY <1>1, <2>1, <2>2, <2>3
<1>2. ASSUME NEW s \in Senders, Send(s) \/ SendRefused(s) PROVE RecvInv'
  <2>1. /\ UNCHANGED rvars /\ pc' = [pc EXCEPT ![s] = pc'[s]] /\ UNCHANGED current
        /\ \/ pc'[s] \in {"drop", "wake"}
           \/ UNCHANGED <<queued, open, senders>> /\ pc[s] = "idle"
    BY <1>2, <1>t DEF Send, SendRefused, CanSend, AfterSend
  <2> QED
    BY <1>1, <2>1
<1>3. ASSUME NEW s \in Senders, NEW new \in Senders, Clone(s, new) PROVE RecvInv'
  <2>1. UNCHANGED <<rvars, pc, current, queued, open>> /\ senders' = senders + 1 /\ pc[s] = "idle" /\ s \in owners
    BY <1>3 DEF Clone
  <2>2. senders' # 0
    BY <2>1, CountOfOwners DEF ChannelInv
  <2> QED
    BY <1>1, <1>t, <2>1, <2>2
<1>4. ASSUME NEW s \in Senders, DropSender(s) PROVE RecvInv'
  <2>1. /\ UNCHANGED <<rvars, current, queued, open>> /\ senders' = senders - 1 /\ s \in owners
        /\ pc' = [pc EXCEPT ![s] = IF senders' = 0 THEN "wake" ELSE "idle"]
        /\ pc[s] \in {"idle", "drop"}
    BY <1>4 DEF DropSender
  <2>2. pc[s] = "drop" => senders' = 0
    BY <2>1, CountOfOwners DEF ChannelInv, Owned
  <2>3. pc' = [pc EXCEPT ![s] = pc'[s]] /\ (senders' = 0 => pc'[s] = "wake")
    BY <1>t, <2>1
  <2> QED
    BY <1>1, <2>1, <2>2, <2>3
<1>5. ASSUME NEW s \in Senders, WakeReceiver(s) PROVE RecvInv'
  <2>1. /\ RP!Wake(s) /\ pc' = [pc EXCEPT ![s] = "idle"]
        /\ UNCHANGED current
    BY <1>5, RPSame DEF WakeReceiver
  <2>2. RP!IInv'
    BY <1>t, <2>1, RP!IInvStep DEF RP!Next
  <2>3. pc[Receiver] \in {"take2", "pending"} => RP!Reached(current[Receiver])'
    BY <1>t, <2>1, RP!WakeReaches DEF RecvPoll
  <2>4. RecvPlaced' /\ pc'[Receiver] = pc[Receiver]
    BY <1>t, <2>1, RP!StepIsLocal
  <2> QED
    BY <2>1, <2>2, <2>3, <2>4 DEF RP!Covered
<1>6. ASSUME NEW s \in Senders,
             \/ \E w \in Wakers : BeginCancellation(s, w) /\ (At(s, "idle") \/ At(s, "pending"))
             \/ Canceled(s, "check1", "register") \/ Canceled(s, "check2", "pending")
             \/ RegisterSender(s)
             \/ Cancel(s)
      PROVE  RecvInv'
  <2>1. /\ UNCHANGED <<rvars, queued, open, senders>> /\ pc' = [pc EXCEPT ![s] = pc'[s]]
        /\ current'[Receiver] = current[Receiver]
        /\ pc[s] \notin {"drop", "wake"}
    BY <1>6, <1>t DEF BeginCancellation, Canceled, RegisterSender, Cancel, chan
  <2> QED
    BY <1>1, <2>1
<1>7. ASSUME NEW w \in Wakers, BeginRecv(w), At(Receiver, "idle") \/ At(Receiver, "pending") PROVE RecvInv'
  <2>1. pc'[Receiver] = "take1"
    BY <1>7, <1>t DEF BeginRecv
  <2>2. RP!IInv' /\ UNCHANGED rpc
    BY <1>7, RP!NotifiedShrinks DEF BeginRecv
  <2> QED
    BY <1>7, <2>1, <2>2
<1>8. ASSUME TryRecv \/ Take("take1", "register") \/ Take("take2", "pending") PROVE RecvInv'
  <2>1. /\ UNCHANGED <<rvars, current, open, senders>>
        /\ pc' = [pc EXCEPT ![Receiver] = pc'[Receiver]]
        /\ \/ pc'[Receiver] \in {"idle", "register"}
           \/ pc[Receiver] = "take2" /\ pc'[Receiver] = "pending" /\ queued' = 0 /\ ~Closed
        /\ rpc[Receiver] = "idle"
    BY <1>8, <1>t DEF TryRecv, Take, ChannelInv, Methods
  <2>2. /\ RP!IInv' /\ UNCHANGED rpc
        /\ \A w : RP!Covered(Receiver, w)' <=> RP!Covered(Receiver, w)
    BY <2>1, RP!Untouched DEF rvars, RP!vars
  <2>3. Closed' <=> Closed
    BY <2>1 DEF Closed
  <2> QED
    BY <2>1, <2>2, <2>3
<1>9. ASSUME RegisterReceiver PROVE RecvInv'
  <2>1. /\ RP!Register(Receiver, current[Receiver]) /\ pc[Receiver] = "register"
        /\ pc'[Receiver] = "take2" /\ UNCHANGED current
    BY <1>9, <1>t, RPSame DEF RegisterReceiver
  <2>2. current[Receiver] \in Wakers
    BY <1>t, <2>1 DEF RecvPoll
  <2>3. RP!IInv'
    BY <1>t, <2>1, <2>2, RP!IInvStep DEF RP!Next
  <2>4. RP!Covered(Receiver, current[Receiver])'
    BY <1>t, <1>r, <2>1, <2>2, RP!RegisterCovers
  <2>5. RP!SoleRegistrar(Receiver)'
    BY <1>t, <1>r, <2>1, <2>2, RP!SoleRegistrarStep
  <2>6. RecvPlaced'
    BY <1>t, <2>1, <2>5 DEF RP!SoleRegistrar
  <2> QED
    BY <2>1, <2>3, <2>4, <2>6
<1>10. ASSUME Close \/ DropReceiver \/ WakeSender \/ Cancel(Receiver) PROVE RecvInv'
  <2>1. /\ UNCHANGED rvars /\ rpc[Receiver] = "idle" /\ pc'[Receiver] \in {"idle", "wake", "gone"}
    BY <1>10, <1>t DEF Close, DropReceiver, WakeSender, Cancel
  <2>2. RP!IInv' /\ UNCHANGED rpc
    BY <2>1, RP!Untouched DEF rvars, RP!vars
  <2> QED
    BY <2>1, <2>2
<1>11. ASSUME NEW t \in Threads, RP!Step(t), UNCHANGED <<chan, pc, current>> PROVE RecvInv'
  <2>1. RP!IInv'
    BY <1>11, RP!IInvStep DEF RP!Next
  <2>2. \A w \in Wakers : RP!Reached(w) => RP!Reached(w)'
    BY <1>11, RP!ReachedStep
  <2>3. \A w \in Wakers : RP!Covered(Receiver, w) => RP!Covered(Receiver, w)'
    BY <1>t, <1>r, <1>11, RP!CoveredStep
  <2>4. RecvPlaced'
    BY <1>t, <1>11, RP!StepIsLocal
  <2> QED
    BY <1>t, <1>11, <2>1, <2>2, <2>3, <2>4 DEF RecvPoll, chan, Closed
<1>12. ASSUME UNCHANGED <<chan, pc, current, rvars>> PROVE RecvInv'
  <2>1. /\ RP!IInv' /\ UNCHANGED rpc
        /\ \A w : RP!Reached(w)' <=> RP!Reached(w)
        /\ \A w : RP!Covered(Receiver, w)' <=> RP!Covered(Receiver, w)
    BY <1>12, RP!Untouched DEF rvars, RP!vars
  <2> QED
    BY <1>12, <2>1 DEF chan, Closed
<1>13. ASSUME NEW t \in Threads, WakerStep(t) PROVE RecvInv'
  BY <1>11, <1>12, <1>13, RPSame DEF WakerStep
<1>14. ASSUME NEW t \in Threads, FirstPoll(t) \/ PollAgain(t) \/ PollUnasked(t) PROVE RecvInv'
  BY <1>6, <1>7, <1>14, PollBegins DEF BeginPoll, Threads
<1>15. CASE UNCHANGED vars
  BY <1>12, <1>15 DEF vars
<1> QED
  BY <1>2, <1>3, <1>4, <1>5, <1>6, <1>8, <1>9, <1>10, <1>13, <1>14, <1>15
     DEF Next, Begin, Continue, PollRecv, Terminated, Threads

-----------------------------------------------------------------------------
(* No wakeup is lost: a sender in cancellation().                          *)

\* Whoever registers at the sender's waker owns the sender.
SendPlaced ==
    /\ \A s \in Senders : spc[s] # "idle" => pc[s] = "check2"
    /\ spc[Receiver] \notin SP!InRegister

SendAwake ==
    \A s \in Senders :
        /\ pc[s] \in {"check2", "pending"} => SP!Covered(s, current[s])
        /\ pc[s] = "pending" /\ ~open => SP!Reached(current[s]) \/ pc[Receiver] = "wake"

SendInv == SP!IInv /\ SendPlaced /\ SendAwake

LEMMA InitSendInv == Init => SendInv
<1> SUFFICES ASSUME Init PROVE SendInv
  OBVIOUS
<1>1. SP!Init
  BY SPSame DEF Init
<1>2. SP!IInv
  BY <1>1, SP!InitIInv, ChannelsAssumption
<1>3. spc = [t \in Threads |-> "idle"]
  BY <1>1 DEF SP!Init
<1> QED
  BY <1>2, <1>3 DEF Init, SendInv, SendPlaced, SendAwake, Threads, SP!InRegister

LEMMA SendInvStep == ChannelInv /\ ChannelInv' /\ SendInv /\ [Next]_vars => SendInv'
<1> SUFFICES ASSUME ChannelInv, ChannelInv', SendInv, [Next]_vars PROVE SendInv'
  OBVIOUS
<1> USE ChannelsAssumption DEF SendInv, SendPlaced, SendAwake, At, Goto
<1>t. /\ Receiver \in Threads /\ Senders \subseteq Threads
      /\ pc \in [Threads -> {"idle", "drop", "wake", "gone"} \cup SendPoll \cup RecvPoll]
      /\ \A s \in Senders : pc[s] \in SendPoll => current[s] \in Wakers
      /\ current \in [Threads -> Wakers \cup {NoWaker}]
  BY DEF ChannelInv, Methods, Threads
<1>o. \A s, u \in Senders : pc[s] \in SendPoll /\ pc[u] \in SendPoll => s = u
  BY DEF ChannelInv, Owned
<1>r. \A s \in Senders : pc[s] \in SendPoll => SP!SoleRegistrar(s)
  BY <1>o DEF SP!SoleRegistrar, Threads, SendPoll, SP!InRegister
\* Steps that leave the sender's waker alone and do not close the channel.
<1>1. ASSUME UNCHANGED <<svars, open>>, pc[Receiver] = "wake" => pc'[Receiver] = "wake",
             \A s \in Senders : \/ pc'[s] \in {"idle", "drop", "wake", "check1", "register"} /\ spc[s] = "idle"
                                \/ pc'[s] = pc[s] /\ current'[s] = current[s]
                                \/ pc[s] = "check2" /\ pc'[s] = "pending" /\ spc[s] = "idle" /\ open /\ current'[s] = current[s]
      PROVE  SendInv'
  <2>1. /\ SP!IInv' /\ UNCHANGED spc
        /\ \A w : SP!Reached(w)' <=> SP!Reached(w)
        /\ \A s, w : SP!Covered(s, w)' <=> SP!Covered(s, w)
    BY <1>1, SP!Untouched DEF svars, SP!vars
  <2>2. SendPlaced'
    BY <1>1, <2>1
  <2> QED
    BY <1>1, <2>1, <2>2
<1>2. ASSUME NEW s \in Senders,
             \/ Send(s) \/ SendRefused(s) \/ DropSender(s) \/ WakeReceiver(s) \/ Cancel(s)
             \/ Canceled(s, "check1", "register") \/ Canceled(s, "check2", "pending")
      PROVE  SendInv'
  <2>1. /\ UNCHANGED <<svars, open, current>> /\ spc[s] = "idle"
        /\ pc' = [pc EXCEPT ![s] = pc'[s]]
        /\ \/ pc'[s] \in {"idle", "drop", "wake", "check1", "register"}
           \/ pc[s] = "check2" /\ pc'[s] = "pending" /\ open
    BY <1>2, <1>t DEF Send, SendRefused, CanSend, AfterSend, DropSender, WakeReceiver, Cancel, Canceled, chan
  <2>2. \A u \in Threads : u # s => pc'[u] = pc[u]
    BY <1>t, <2>1
  <2> QED
    BY <1>1, <1>t, <2>1, <2>2
<1>3. ASSUME NEW s \in Senders, NEW new \in Senders, Clone(s, new) PROVE SendInv'
  BY <1>1, <1>3 DEF Clone
<1>4. ASSUME NEW s \in Senders, NEW w \in Wakers, BeginCancellation(s, w), At(s, "idle") \/ At(s, "pending") PROVE SendInv'
  <2>1. /\ pc' = [pc EXCEPT ![s] = "check1"] /\ kind = "oneshot" /\ s \in owners
        /\ UNCHANGED <<spc, open>>
    BY <1>4 DEF BeginCancellation, chan
  <2>2. SP!IInv'
    BY <1>4, SP!NotifiedShrinks DEF BeginCancellation
  <2>3. \A u \in Senders : pc'[u] \notin {"check2", "pending"}
    BY <1>t, <2>1 DEF ChannelInv, Owned, SendPoll
  <2>4. SendPlaced'
    BY <1>4, <1>t, <2>1
  <2> QED
    BY <2>2, <2>3, <2>4
<1>5. ASSUME NEW s \in Senders, RegisterSender(s) PROVE SendInv'
  <2>1. /\ SP!Register(s, current[s]) /\ pc[s] = "register"
        /\ pc' = [pc EXCEPT ![s] = "check2"] /\ UNCHANGED current
    BY <1>5, SPSame DEF RegisterSender
  <2>2. current[s] \in Wakers /\ SP!SoleRegistrar(s)
    BY <1>t, <1>r, <2>1 DEF SendPoll
  <2>3. SP!IInv'
    BY <1>t, <2>1, <2>2, SP!IInvStep DEF SP!Next
  <2>4. SP!Covered(s, current[s])'
    BY <1>t, <2>1, <2>2, SP!RegisterCovers
  <2>5. SP!SoleRegistrar(s)'
    BY <1>t, <2>1, <2>2, SP!SoleRegistrarStep
  <2>6. \A u \in Senders : u # s => spc'[u] = spc[u]
    BY <1>t, <2>1 DEF SP!Register, SP!RegisterLock, SP!RegisterWhileWaking, SP!RegisterWhileRegistering, SP!vars,
                      SP!IInv, SP!Basic, SP!TypeOK
  <2>7. SendPlaced'
    BY <1>t, <2>1, <2>5, <2>6 DEF SP!SoleRegistrar
  <2>8. \A u \in Senders : u # s => pc'[u] \notin {"check2", "pending"}
    BY <1>o, <1>t, <2>1 DEF SendPoll
  <2>9. pc'[s] = "check2"
    BY <1>t, <2>1
  <2> QED
    BY <2>1, <2>3, <2>4, <2>7, <2>8, <2>9
<1>6. ASSUME \/ \E w \in Wakers : BeginRecv(w) /\ (At(Receiver, "idle") \/ At(Receiver, "pending"))
             \/ TryRecv \/ Take("take1", "register") \/ Take("take2", "pending")
             \/ RegisterReceiver \/ Cancel(Receiver)
      PROVE  SendInv'
  <2>1. /\ UNCHANGED <<svars, open>> /\ pc' = [pc EXCEPT ![Receiver] = pc'[Receiver]]
        /\ \A s \in Senders : current'[s] = current[s]
        /\ pc[Receiver] # "wake"
    BY <1>6, <1>t DEF BeginRecv, TryRecv, Take, RegisterReceiver, Cancel, chan
  <2>2. \A s \in Senders : pc'[s] = pc[s]
    BY <1>t, <2>1
  <2> QED
    BY <1>1, <2>1, <2>2
<1>7. ASSUME Close \/ DropReceiver PROVE SendInv'
  <2>1. /\ UNCHANGED <<svars, current>> /\ \A s \in Senders : pc'[s] = pc[s]
        /\ kind = "oneshot" => pc'[Receiver] = "wake"
    BY <1>7, <1>t DEF Close, DropReceiver
  <2>2. /\ SP!IInv' /\ UNCHANGED spc
        /\ \A s, w : SP!Covered(s, w)' <=> SP!Covered(s, w)
    BY <2>1, SP!Untouched DEF svars, SP!vars
  <2>3. \A s \in Senders : pc[s] = "pending" => kind = "oneshot"
    BY DEF ChannelInv, Owned, SendPoll
  <2> QED
    BY <2>1, <2>2, <2>3
<1>8. ASSUME WakeSender PROVE SendInv'
  <2>1. /\ SP!Wake(Receiver) /\ pc' = [pc EXCEPT ![Receiver] = "gone"] /\ UNCHANGED <<current, open>>
    BY <1>8, SPSame DEF WakeSender, chan
  <2>2. SP!IInv'
    BY <1>t, <2>1, SP!IInvStep DEF SP!Next
  <2>3. \A s \in Senders : pc[s] \in {"check2", "pending"} => SP!Reached(current[s])'
    BY <1>t, <2>1, SP!WakeReaches DEF SendPoll
  <2>4. \A s \in Senders : pc'[s] = pc[s]
    BY <1>t, <2>1
  <2>5. SendPlaced'
    BY <1>t, <2>1, <2>4, SP!StepIsLocal
  <2> QED
    BY <2>1, <2>2, <2>3, <2>4, <2>5 DEF SP!Covered
<1>9. ASSUME NEW t \in Threads, SP!Step(t), UNCHANGED <<chan, pc, current>> PROVE SendInv'
  <2>1. SP!IInv'
    BY <1>9, SP!IInvStep DEF SP!Next
  <2>2. \A w \in Wakers : SP!Reached(w) => SP!Reached(w)'
    BY <1>9, SP!ReachedStep
  <2>3. \A s \in Senders : pc[s] \in SendPoll => \A w \in Wakers : SP!Covered(s, w) => SP!Covered(s, w)'
    BY <1>t, <1>r, <1>9, SP!CoveredStep
  <2>4. SendPlaced'
    BY <1>t, <1>9, SP!StepIsLocal
  <2> QED
    BY <1>t, <1>9, <2>1, <2>2, <2>3, <2>4 DEF SendPoll, chan
<1>10. ASSUME UNCHANGED <<chan, pc, current, svars>> PROVE SendInv'
  BY <1>1, <1>10 DEF chan
<1>11. ASSUME NEW t \in Threads, WakerStep(t) PROVE SendInv'
  BY <1>9, <1>10, <1>11, SPSame DEF WakerStep
<1>12. ASSUME NEW t \in Threads, FirstPoll(t) \/ PollAgain(t) \/ PollUnasked(t) PROVE SendInv'
  BY <1>4, <1>6, <1>12, PollBegins DEF BeginPoll, Threads
<1>13. CASE UNCHANGED vars
  BY <1>10, <1>13 DEF vars
<1> QED
  BY <1>2, <1>3, <1>5, <1>6, <1>7, <1>8, <1>11, <1>12, <1>13
     DEF Next, Begin, Continue, PollRecv, Terminated, Threads

\* A receiver that sleeps on an item or on the end, and a sender that sleeps
\* although the receiver is gone, are notified, whatever the interleaving.
THEOREM NoWakeupIsLost == Spec => []NoLostWakeup
<1> DEFINE Inv == ChannelInv /\ RecvInv /\ SendInv
<1>1. Init => Inv
  BY InitChannelInv, InitRecvInv, InitSendInv
<1>2. Inv /\ [Next]_vars => Inv'
  BY ChannelInvStep, RecvInvStep, SendInvStep
<1>3. Inv => NoLostWakeup
  <2> SUFFICES ASSUME Inv PROVE NoLostWakeup
    OBVIOUS
  <2>1. pc[Receiver] = "pending" /\ (queued > 0 \/ Closed) =>
            RP!Reached(current[Receiver]) \/ (SenderWakes /\ rarmed = current[Receiver])
    BY DEF RecvInv, RecvAwake, RecvPlaced, RP!Covered, RP!Standing
  <2>2. \A s \in Senders : pc[s] = "pending" /\ ~open =>
            SP!Reached(current[s]) \/ (pc[Receiver] = "wake" /\ sarmed = current[s])
    BY DEF SendInv, SendAwake, SendPlaced, SP!Covered, SP!Standing
  <2> QED
    BY <2>1, <2>2, RPSame, SPSame DEF NoLostWakeup, SenderWakes, RP!Reached, SP!Reached
<1> QED
  BY <1>1, <1>2, <1>3, PTL DEF Spec

=============================================================================
