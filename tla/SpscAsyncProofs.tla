------------------------------ MODULE SpscAsyncProofs -----------------------------
(***************************************************************************)
(* Theorems about SpscAsync, for any number of producers, items and        *)
(* wakers: the end is final for any number of consumers, and no wakeup is  *)
(* lost for one, which is what the handles are made for.                   *)
(*                                                                         *)
(* The AtomicWaker's own invariant is taken from AtomicWakerProofs.  What  *)
(* poll_pop adds to it: from its registration on the consumer is covered   *)
(* (a wake that starts will reach it), and what was pushed since it looked *)
(* last has a producer behind it that has still to wake (Awake).           *)
(***************************************************************************)
EXTENDS SpscAsync, TLAPS

WP == INSTANCE AtomicWakerProofs WITH Tasks <- Wakers, NoTask <- NoWaker, pc <- wpc

\* The definitions of the instance W and of WP are the same.
LEMMA SameWaker ==
    /\ W!Init <=> WP!Init
    /\ \A t : W!Wake(t) <=> WP!Wake(t)
    /\ \A t, w : W!Register(t, w) <=> WP!Register(t, w)
    /\ \A t : W!Step(t) <=> WP!Step(t)
    /\ \A t, w : W!Carries(t, w) <=> WP!Carries(t, w)
<1> USE DEF W!WAITING, WP!WAITING, W!REGISTERING, WP!REGISTERING, W!WAKING, WP!WAKING, W!InRegister, WP!InRegister
<1>1. W!Init <=> WP!Init
  BY DEF W!Init, WP!Init
<1>2. \A t : W!Wake(t) <=> WP!Wake(t)
  BY DEF W!Wake, WP!Wake, W!Registered, WP!Registered
<1>3. \A t, w : W!Register(t, w) <=> WP!Register(t, w)
  BY DEF W!Register, WP!Register, W!RegisterLock, WP!RegisterLock, W!RegisterWhileWaking, WP!RegisterWhileWaking,
         W!RegisterWhileRegistering, WP!RegisterWhileRegistering, W!vars, WP!vars
<1>4. \A t : W!Step(t) <=> WP!Step(t)
  BY DEF W!Step, WP!Step, W!RegisterStore, WP!RegisterStore, W!RegisterRelease, WP!RegisterRelease,
         W!RegisterTake, WP!RegisterTake, W!RegisterSwap, WP!RegisterSwap, W!WakeTake, WP!WakeTake,
         W!WakeSwap, WP!WakeSwap, W!Notify, WP!Notify
<1>5. \A t, w : W!Carries(t, w) <=> WP!Carries(t, w)
  BY DEF W!Carries, WP!Carries
<1> QED
  BY <1>1, <1>2, <1>3, <1>4, <1>5

-----------------------------------------------------------------------------
(* The end is final.                                                       *)

Labels == {"idle", "pop1", "closed1", "last", "register", "pop2", "closed2", "pending"}

Methods ==
    /\ pc \in [Threads -> Labels \cup {"wake"}]
    /\ \A p \in Producers : pc[p] \in {"idle", "wake"}
    /\ \A c \in Consumers : pc[c] \in Labels
    /\ producer_closed \in BOOLEAN
    /\ \A c \in Consumers : pc[c] = "last" => producer_closed

EndInv == Methods /\ EndIsFinal

LEMMA InitEndInv == Init => EndInv
<1> SUFFICES ASSUME Init PROVE EndInv
  OBVIOUS
<1>1. producer_closed \in BOOLEAN
  BY Zenon DEF Init
<1> QED
  BY <1>1, SpscAsyncAssumption DEF Init, EndInv, Methods, EndIsFinal, Labels, Threads

LEMMA EndInvStep == EndInv /\ [Next]_vars => EndInv'
<1> SUFFICES ASSUME EndInv, [Next]_vars PROVE EndInv'
  OBVIOUS
<1> USE SpscAsyncAssumption DEF EndInv, Methods, EndIsFinal, Labels, Threads, At, Goto
<1>1. ASSUME NEW p \in Producers, Push(p) \/ PushOverwrite(p) PROVE EndInv'
  BY <1>1 DEF Push, PushOverwrite, CanPush, Pushed
<1>2. ASSUME NEW p \in Producers, PushRefused(p) PROVE EndInv'
  BY <1>2 DEF PushRefused, CanPush
<1>3. ASSUME NEW p \in Producers, WakeConsumer(p) PROVE EndInv'
  BY <1>3 DEF WakeConsumer
<1>4. ASSUME NEW p \in Producers, DropProducer(p) PROVE EndInv'
  BY <1>4 DEF DropProducer
<1>5. ASSUME NEW c \in Consumers, TryPop(c) PROVE EndInv'
  BY <1>5 DEF TryPop
<1>6. ASSUME NEW c \in Consumers, NEW w, BeginPoll(c, w) PROVE EndInv'
  BY <1>6 DEF BeginPoll
<1>7. ASSUME NEW c \in Consumers, Cancel(c) PROVE EndInv'
  BY <1>7 DEF Cancel
<1>8. ASSUME NEW c \in Consumers, PopOr(c, "pop1", "closed1") \/ PopOr(c, "pop2", "closed2") PROVE EndInv'
  BY <1>8 DEF PopOr
<1>9. ASSUME NEW c \in Consumers,
             ClosedOr(c, "closed1", "last", "register") \/ ClosedOr(c, "closed2", "last", "pending")
      PROVE  EndInv'
  BY <1>9 DEF ClosedOr
<1>10. ASSUME NEW c \in Consumers, LastPop(c) PROVE EndInv'
  BY <1>10 DEF LastPop
<1>11. ASSUME NEW c \in Consumers, RegisterWaker(c) PROVE EndInv'
  BY <1>11 DEF RegisterWaker
<1>12. ASSUME NEW t \in Threads, WakerStep(t) PROVE EndInv'
  BY <1>12 DEF WakerStep
<1>13. ASSUME ReleaseProducer \/ ReleaseConsumer PROVE EndInv'
  BY <1>13 DEF ReleaseProducer, ReleaseConsumer, Release
<1>14. CASE UNCHANGED vars
  BY <1>14 DEF vars
<1> QED
  BY <1>1, <1>2, <1>3, <1>4, <1>5, <1>6, <1>7, <1>8, <1>9, <1>10, <1>11, <1>12, <1>13, <1>14
     DEF Next, Await, PollAgain, PollUnasked, PollPop, Terminated

\* An await that is answered None has seen the last item: the producer is gone
\* and the ring is empty for good, with any number of tasks at the consumer.
THEOREM EndStaysFinal == Spec => []EndIsFinal
<1>1. EndInv => EndIsFinal
  BY DEF EndInv
<1> QED
  BY <1>1, InitEndInv, EndInvStep, PTL DEF Spec

-----------------------------------------------------------------------------
(* No wakeup is lost.                                                      *)

\* The waker that the task was polled with.
Polled == \A c \in Consumers : /\ current[c] \in Wakers \cup {NoWaker}
                               /\ pc[c] # "idle" => current[c] \in Wakers

\* Only poll_pop registers, and it goes on when register has returned.
Placed ==
    /\ \A c \in Consumers : wpc[c] # "idle" => pc[c] = "pop2"
    /\ \A p \in Producers : wpc[p] \notin WP!InRegister

Waking == \E p \in Producers : pc[p] = "wake"

\* From its registration on a wake reaches the consumer, and for what it has
\* not seen there is a wake to come.
Awake ==
    \A c \in Consumers :
        /\ pc[c] \in {"pop2", "closed2", "pending"} => WP!Covered(c, current[c])
        /\ (pc[c] = "closed2" /\ queue # <<>>) \/ (pc[c] = "pending" /\ Something) =>
               WP!Reached(current[c]) \/ Waking

WakeInv == EndInv /\ WP!IInv /\ current \in [Consumers -> Wakers \cup {NoWaker}] /\ Polled /\ Placed /\ Awake

LEMMA InitWakeInv == Init => WakeInv
<1> SUFFICES ASSUME Init PROVE WakeInv
  OBVIOUS
<1>1. EndInv
  BY InitEndInv
<1>2. WP!Init
  BY SameWaker DEF Init
<1>3. WP!IInv
  BY <1>2, WP!InitIInv, SpscAsyncAssumption
<1>4. wpc = [t \in Threads |-> "idle"]
  BY <1>2 DEF WP!Init
<1> QED
  BY <1>1, <1>3, <1>4 DEF Init, WakeInv, Polled, Placed, Awake, Threads, WP!InRegister

\* A single consumer is the only one who registers.
LEMMA Sole ==
    ASSUME \A c, d \in Consumers : c = d, Placed, NEW c \in Consumers
    PROVE  c \in Threads /\ WP!SoleRegistrar(c)
  BY DEF Placed, WP!SoleRegistrar, Threads

LEMMA WakeInvStep ==
    ASSUME \A c, d \in Consumers : c = d
    PROVE  WakeInv /\ [Next]_vars => WakeInv'
<1> SUFFICES ASSUME WakeInv, [Next]_vars PROVE WakeInv'
  OBVIOUS
<1>0. EndInv'
  BY EndInvStep DEF WakeInv
<1> USE SpscAsyncAssumption DEF WakeInv, Polled, Placed, Awake, Waking, Something, At, Goto
<1>t. pc \in [Threads -> Labels \cup {"wake"}] /\ Consumers \subseteq Threads /\ Producers \subseteq Threads
  BY DEF EndInv, Methods, Threads
<1>d. \A p \in Producers : p \notin Consumers
  OBVIOUS
<1>1. ASSUME NEW p \in Producers, Push(p) \/ PushOverwrite(p) \/ DropProducer(p) PROVE WakeInv'
  <2>1. /\ pc' = [pc EXCEPT ![p] = "wake"]
        /\ UNCHANGED <<current, wvars>>
    BY <1>1 DEF Push, PushOverwrite, Pushed, DropProducer
  <2>2. WP!IInv' /\ (\A c, w : WP!Covered(c, w)' <=> WP!Covered(c, w)) /\ UNCHANGED wpc
    BY <2>1, WP!Untouched DEF wvars, WP!vars
  <2>3. Waking'
    BY <1>t, <2>1
  <2> QED
    BY <1>0, <1>t, <1>d, <2>1, <2>2, <2>3
<1>2. ASSUME NEW p \in Producers, PushRefused(p) PROVE WakeInv'
  <2>1. UNCHANGED <<queue, producer_closed, pc, current, wvars>>
    BY <1>2 DEF PushRefused
  <2> QED
    BY <1>0, <2>1, WP!Untouched DEF wvars, WP!vars
<1>3. ASSUME NEW p \in Producers, WakeConsumer(p) PROVE WakeInv'
  <2>1. /\ WP!Wake(p)
        /\ pc' = [pc EXCEPT ![p] = "idle"]
        /\ UNCHANGED <<queue, producer_closed, current>>
    BY <1>3, SameWaker DEF WakeConsumer
  <2>2. WP!IInv'
    BY <1>t, <2>1, WP!IInvStep DEF WP!Next
  <2>3. \A c \in Consumers : pc'[c] = pc[c]
    BY <1>t, <1>d, <2>1
  <2>4. ASSUME NEW c \in Consumers, pc[c] \in {"pop2", "closed2", "pending"}
        PROVE  WP!Reached(current[c])'
    BY <1>t, <2>1, <2>4, WP!WakeReaches
  <2>5. Placed'
    BY <1>t, <1>d, <2>1, <2>3, WP!StepIsLocal
  <2> QED
    BY <1>0, <2>1, <2>2, <2>3, <2>4, <2>5 DEF WP!Covered
<1>4. ASSUME NEW c \in Consumers, TryPop(c) \/ Cancel(c) PROVE WakeInv'
  <2>1. pc'[c] = "idle" /\ UNCHANGED <<current, wvars>>
    BY <1>4, <1>t DEF TryPop, Cancel
  <2>2. WP!IInv' /\ UNCHANGED wpc /\ wpc[c] = "idle"
    BY <1>4, <2>1, WP!Untouched DEF wvars, WP!vars, TryPop, Cancel
  <2> QED
    BY <1>0, <2>1, <2>2
<1>5. ASSUME NEW c \in Consumers, NEW w \in Wakers, wpc[c] = "idle", BeginPoll(c, w) PROVE WakeInv'
  <2>1. pc'[c] = "pop1" /\ current' = [current EXCEPT ![c] = w] /\ UNCHANGED wpc
    BY <1>5, <1>t DEF BeginPoll
  <2>2. notified' \subseteq notified /\ UNCHANGED <<state, waker, wpc, held, armed, owed>>
    BY <1>5 DEF BeginPoll
  <2>3. WP!IInv'
    BY <2>2, WP!NotifiedShrinks
  <2> QED
    BY <1>0, <1>5, <2>1, <2>3
<1>6. ASSUME NEW c \in Consumers,
             \/ PopOr(c, "pop1", "closed1") \/ PopOr(c, "pop2", "closed2") \/ LastPop(c)
             \/ ClosedOr(c, "closed1", "last", "register") \/ ClosedOr(c, "closed2", "last", "pending")
      PROVE  WakeInv'
  <2>1. /\ wpc[c] = "idle" /\ UNCHANGED <<current, producer_closed, wvars>>
        /\ pc[c] # "idle"
        /\ pc' = [pc EXCEPT ![c] = pc'[c]]
    BY <1>6, <1>t DEF PopOr, LastPop, ClosedOr
  <2>2. /\ WP!IInv' /\ UNCHANGED wpc
        /\ \A w : WP!Reached(w)' <=> WP!Reached(w)
        /\ \A w : WP!Covered(c, w)' <=> WP!Covered(c, w)
    BY <2>1, WP!Untouched DEF wvars, WP!vars
  <2>3. \/ pc'[c] \in {"idle", "closed1", "last", "register"}
        \/ pc[c] = "pop2" /\ pc'[c] = "closed2" /\ queue' = <<>>
        \/ pc[c] = "closed2" /\ pc'[c] = "pending" /\ queue' = queue /\ ~producer_closed
    BY <1>6, <1>t DEF PopOr, LastPop, ClosedOr
  <2>4. Waking' <=> Waking
    BY <1>t, <1>d, <2>1
  <2> QED
    BY <1>0, <2>1, <2>2, <2>3, <2>4
<1>7. ASSUME NEW c \in Consumers, RegisterWaker(c) PROVE WakeInv'
  <2>1. /\ WP!Register(c, current[c]) /\ pc[c] = "register"
        /\ pc' = [pc EXCEPT ![c] = "pop2"]
        /\ UNCHANGED current
    BY <1>7, SameWaker DEF RegisterWaker
  <2>2. current[c] \in Wakers
    BY <2>1
  <2>3. WP!IInv'
    BY <1>t, <2>1, <2>2, WP!IInvStep DEF WP!Next
  <2>4. WP!Covered(c, current[c])'
    BY <1>t, <2>1, <2>2, Sole, WP!RegisterCovers
  <2>5. WP!SoleRegistrar(c)'
    BY <1>t, <2>1, <2>2, Sole, WP!SoleRegistrarStep
  <2>6. Placed'
    BY <1>t, <1>d, <2>1, <2>5 DEF WP!SoleRegistrar
  <2> QED
    BY <1>0, <1>t, <2>1, <2>2, <2>3, <2>4, <2>6
<1>8. ASSUME NEW t \in Threads, WakerStep(t) PROVE WakeInv'
  <2>1. WP!Step(t) /\ UNCHANGED <<queue, producer_closed, pc, current>>
    BY <1>8, SameWaker DEF WakerStep
  <2>2. WP!IInv'
    BY <2>1, WP!IInvStep DEF WP!Next
  <2>3. \A w \in Wakers : WP!Reached(w) => WP!Reached(w)'
    BY <2>1, WP!ReachedStep
  <2>4. \A c \in Consumers : \A w \in Wakers : WP!Covered(c, w) => WP!Covered(c, w)'
    BY <1>t, <2>1, Sole, WP!CoveredStep
  <2>5. Placed'
    BY <1>t, <2>1, WP!StepIsLocal
  <2> QED
    BY <1>0, <2>1, <2>2, <2>3, <2>4, <2>5
<1>9. ASSUME ReleaseProducer \/ ReleaseConsumer PROVE WakeInv'
  <2>1. UNCHANGED <<producer_closed, pc, current, wvars>> /\ queue' \in {queue, <<>>}
    BY <1>9 DEF ReleaseProducer, ReleaseConsumer, Release
  <2> QED
    BY <1>0, <2>1, WP!Untouched DEF wvars, WP!vars
<1>10. CASE UNCHANGED vars
  <2>1. UNCHANGED <<queue, producer_closed, pc, current, wvars>>
    BY <1>10 DEF vars
  <2> QED
    BY <1>0, <2>1, WP!Untouched DEF wvars, WP!vars
<1>11. ASSUME NEW c \in Consumers, PollAgain(c) PROVE WakeInv'
  BY <1>5, <1>11 DEF PollAgain
<1> QED
  BY <1>1, <1>2, <1>3, <1>4, <1>5, <1>6, <1>7, <1>8, <1>9, <1>10, <1>11
     DEF Next, Await, PollUnasked, PollPop, Terminated

\* For every interleaving of any number of producers with the one consumer,
\* a consumer that sleeps on something has been or will be notified.
THEOREM NoWakeupIsLost ==
    ASSUME \A c, d \in Consumers : c = d
    PROVE  Spec => []NoLostWakeup
<1>1. WakeInv => NoLostWakeup
  <2> SUFFICES ASSUME WakeInv, NEW c \in Consumers, pc[c] = "pending", Something
               PROVE  \/ current[c] \in notified
                      \/ \E t \in Threads : W!Carries(t, current[c])
                      \/ \E p \in Producers : pc[p] = "wake" /\ armed = current[c]
    BY DEF NoLostWakeup
  <2>1. WP!Reached(current[c]) \/ (Waking /\ armed = current[c])
    BY DEF WakeInv, Awake, Placed, WP!Covered, WP!Standing
  <2> QED
    BY <2>1, SameWaker DEF WP!Reached, Waking
<1> QED
  BY <1>1, InitWakeInv, WakeInvStep, PTL DEF Spec

=============================================================================
