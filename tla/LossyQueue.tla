-------------------------------- MODULE LossyQueue --------------------------------
(***************************************************************************)
(* What the ring of src/spsc.rs promises to the callers of its methods: a  *)
(* FIFO queue of at most Capacity items in which a call takes effect at    *)
(* one instant between its invocation and its return.                      *)
(*                                                                         *)
(* call[t] is the call t is in: its name, the item it was given or that it *)
(* will give back, and whether it has taken effect.  NoItem stands for     *)
(* None; push gives its item back when the ring is full (Err(item)).       *)
(***************************************************************************)
EXTENDS Naturals, Sequences

CONSTANTS Producers, Consumers, Items, NoItem, Capacity

VARIABLES
    queue,  \* the buffered items, oldest first
    call    \* call[t]: the call in progress

vars == <<queue, call>>

Idle == [op |-> "none", item |-> NoItem, done |-> FALSE]

Called(op, item) == [op |-> op, item |-> item, done |-> FALSE]

Init ==
    /\ queue = <<>>
    /\ call = [t \in Producers \cup Consumers |-> Idle]

\* t's call takes effect and will return the item i.
Answer(t, i) == call' = [call EXCEPT ![t] = [op |-> call[t].op, item |-> i, done |-> TRUE]]

Pending(t, ops) == call[t].op \in ops /\ ~call[t].done

Invoke(t, c) ==
    /\ call[t] = Idle
    /\ call' = [call EXCEPT ![t] = c]
    /\ UNCHANGED queue

\* push and push_overwrite with room in the ring.
Append1(t) ==
    /\ Pending(t, {"push", "push_overwrite"})
    /\ Len(queue) < Capacity
    /\ queue' = Append(queue, call[t].item)
    /\ Answer(t, NoItem)

Refuse(t) ==
    /\ Pending(t, {"push"})
    /\ Len(queue) = Capacity
    /\ Answer(t, call[t].item)
    /\ UNCHANGED queue

\* push_overwrite into a full ring: the oldest item makes room, in one step.
Displace(t) ==
    /\ Pending(t, {"push_overwrite"})
    /\ Len(queue) = Capacity
    /\ queue' = Append(Tail(queue), call[t].item)
    /\ Answer(t, Head(queue))

Take(t) ==
    /\ Pending(t, {"pop"})
    /\ queue # <<>>
    /\ queue' = Tail(queue)
    /\ Answer(t, Head(queue))

FindEmpty(t) ==
    /\ Pending(t, {"pop"})
    /\ queue = <<>>
    /\ Answer(t, NoItem)
    /\ UNCHANGED queue

Return(t) ==
    /\ call[t].done
    /\ call' = [call EXCEPT ![t] = Idle]
    /\ UNCHANGED queue

Next ==
    \/ \E t \in Producers :
        \/ \E i \in Items, op \in {"push", "push_overwrite"} : Invoke(t, Called(op, i))
        \/ Append1(t) \/ Refuse(t) \/ Displace(t)
    \/ \E t \in Consumers : Invoke(t, Called("pop", NoItem)) \/ Take(t) \/ FindEmpty(t)
    \/ \E t \in Producers \cup Consumers : Return(t)

Spec == Init /\ [][Next]_vars

=============================================================================
