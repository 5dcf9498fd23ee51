---------------------------------- MODULE Futures ---------------------------------
(***************************************************************************)
(* The parts of src/future that are not channels, side by side for model   *)
(* checking: the asynchronous Mutex, and the combinators over futures that *)
(* are external.  They share nothing, so `part` chooses the one that       *)
(* moves.                                                                  *)
(***************************************************************************)
EXTENDS AsyncMutex

CONSTANTS MaxChildren, MaxPolls

\* select has two children.
ASSUME FuturesAssumption == MaxChildren \in Nat /\ MaxChildren >= 2 /\ MaxPolls \in Nat

VARIABLES part, combinator, size, state, polls, slot, output, finished, stored, firing, invoked

C == INSTANCE Combinators

combinators == <<combinator, size, state, polls, slot, output, finished, stored, firing, invoked>>
futureVars == <<part, vars, combinators>>

FuturesInit == part \in {"mutex", "combinators"} /\ Init /\ C!Init

FuturesNext ==
    /\ UNCHANGED part
    /\ \/ part = "mutex" /\ Next /\ UNCHANGED combinators
       \/ part = "combinators" /\ C!Next /\ UNCHANGED vars

\* A part that does not move enables nothing that is fair.
FuturesSpec == FuturesInit /\ [][FuturesNext]_futureVars /\ Fairness /\ C!Fairness

-----------------------------------------------------------------------------

\* select, join_all, next: while the task sleeps each child it waits for has the
\* task's last waker or the task is being woken, and none is polled after Ready.
ChildrenAreArmed == C!ChildrenAreArmed

\* select, join_all, next: what can be answered is, whatever the order in which
\* the children complete.
Resolves == C!Resolves
=============================================================================
