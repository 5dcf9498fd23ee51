-------------------------------- MODULE CallbackGate ------------------------------
(***************************************************************************)
(* What CallbackContext promises a Rust owner that gives a value to        *)
(* foreign code: callbacks are let in to the value only until the gate is  *)
(* closed, and the value is destroyed once, after it was closed and when   *)
(* no thread is in a call.                                                 *)
(***************************************************************************)
CONSTANT Threads

VARIABLES
    open,       \* callbacks are let in
    inside,     \* the threads in a call of `with`
    running,    \* those of them that are in the callback
    drops       \* how often the value was destroyed

gate == <<open, inside, running, drops>>

Init == open = TRUE /\ inside = {} /\ running = {} /\ drops = 0

Enter(t) ==
    /\ drops = 0 /\ t \notin inside
    /\ inside' = inside \cup {t}
    /\ UNCHANGED <<open, running, drops>>

Admit(t) ==
    /\ open /\ t \in inside \ running
    /\ running' = running \cup {t}
    /\ UNCHANGED <<open, inside, drops>>

\* The callback returns or panics, or it was refused.
Leave(t) ==
    /\ t \in inside
    /\ t \notin running => ~open
    /\ inside' = inside \ {t} /\ running' = running \ {t}
    /\ UNCHANGED <<open, drops>>

Close == open' = FALSE /\ UNCHANGED <<inside, running, drops>>

Destroy ==
    /\ drops = 0 /\ ~open /\ inside = {}
    /\ drops' = 1
    /\ UNCHANGED <<open, inside, running>>

Next == (\E t \in Threads : Enter(t) \/ Admit(t) \/ Leave(t)) \/ Close \/ Destroy

Spec == Init /\ [][Next]_gate
=============================================================================
