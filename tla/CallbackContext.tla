------------------------------ MODULE CallbackContext -----------------------------
(***************************************************************************)
(* src/callback_context.rs: an Arc with a value and an active flag.  The   *)
(* Rust handle has one reference; foreign code has those it was given with *)
(* retained_ptr or took with RETAIN, and gives each back with RELEASE.     *)
(*                                                                         *)
(* Each thread of the foreign code keeps the contract: it calls `with`,    *)
(* RETAIN and RELEASE on a reference of its own, and RETAIN also on the    *)
(* handle's as_ptr while the handle lives.                                 *)
(***************************************************************************)
EXTENDS Naturals

CONSTANTS
    Threads,
    MaxHeld         \* bound: references a thread holds at a time

VARIABLES
    active, count,  \* Inner.active and the Arc's strong count
    owner,          \* the handle: "live", "dropping" or "gone"
    at,             \* at[t]: "idle", "load" and "run" in with, "destroy" in RELEASE
    held,           \* held[t]: references of t
    destroyed       \* how often the value was dropped

context == <<active, count, owner, at, held, destroyed>>

\* CallbackContext::new
Init ==
    /\ active = TRUE /\ count = 1
    /\ owner = "live"
    /\ at = [t \in Threads |-> "idle"]
    /\ held = [t \in Threads |-> 0]
    /\ destroyed = 0

Goto(t, l) == at' = [at EXCEPT ![t] = l]

\* Altered form: as_ptr is given away, without a reference of its own.
RetainedPtrBorrows(t) ==
    /\ owner = "live" /\ at[t] = "idle" /\ held[t] < MaxHeld
    /\ held' = [held EXCEPT ![t] = @ + 1]
    /\ UNCHANGED <<active, count, owner, at, destroyed>>

RetainedPtr(t) ==
    /\ owner = "live" /\ at[t] = "idle" /\ held[t] < MaxHeld
    /\ count' = count + 1
    /\ held' = [held EXCEPT ![t] = @ + 1]
    /\ UNCHANGED <<active, owner, at, destroyed>>

Retain(t) ==
    /\ owner = "live" \/ held[t] > 0
    /\ at[t] = "idle" /\ held[t] < MaxHeld
    /\ count' = count + 1
    /\ held' = [held EXCEPT ![t] = @ + 1]
    /\ UNCHANGED <<active, owner, at, destroyed>>

\* The value is dropped by whoever gives back the last reference; a panic of its
\* drop is caught in RELEASE, and the value is gone all the same.
Release(t) ==
    /\ at[t] = "idle" /\ held[t] > 0
    /\ count' = count - 1
    /\ held' = [held EXCEPT ![t] = @ - 1]
    /\ Goto(t, IF count = 1 THEN "destroy" ELSE "idle")
    /\ UNCHANGED <<active, owner, destroyed>>

Destroy(t) ==
    /\ at[t] = "destroy"
    /\ destroyed' = destroyed + 1
    /\ Goto(t, "idle")
    /\ UNCHANGED <<active, count, owner, held>>

\* with: the flag is loaded, and then the callback runs, if at all.
With(t) ==
    /\ at[t] = "idle" /\ held[t] > 0
    /\ Goto(t, "load")
    /\ UNCHANGED <<active, count, owner, held, destroyed>>

WithLoad(t) ==
    /\ at[t] = "load"
    /\ Goto(t, IF active THEN "run" ELSE "idle")
    /\ UNCHANGED <<active, count, owner, held, destroyed>>

\* The callback returns or panics; catch_user_panic_result contains the panic.
WithReturn(t) ==
    /\ at[t] = "run"
    /\ Goto(t, "idle")
    /\ UNCHANGED <<active, count, owner, held, destroyed>>

Deactivate ==
    /\ owner = "live"
    /\ active' = FALSE
    /\ UNCHANGED <<count, owner, at, held, destroyed>>

\* Drop for CallbackContext, and then the drop of its Arc
DropHandle ==
    /\ owner = "live"
    /\ active' = FALSE
    /\ owner' = "dropping"
    /\ UNCHANGED <<count, at, held, destroyed>>

DropInner ==
    /\ owner = "dropping"
    /\ count' = count - 1
    /\ owner' = "gone"
    /\ destroyed' = IF count = 1 THEN destroyed + 1 ELSE destroyed
    /\ UNCHANGED <<active, at, held>>

Continue(t) == Destroy(t) \/ WithLoad(t) \/ WithReturn(t)

\* Nobody has a reference any more.
AllReleased == count = 0 /\ (\A t \in Threads : at[t] # "destroy") /\ UNCHANGED context

Next ==
    \/ \E t \in Threads : RetainedPtr(t) \/ Retain(t) \/ Release(t) \/ With(t) \/ Continue(t)
    \/ Deactivate \/ DropHandle \/ DropInner
    \/ AllReleased

-----------------------------------------------------------------------------
(* Properties                                                              *)

Inside == {t \in Threads : at[t] \in {"load", "run"}}
Running == {t \in Threads : at[t] = "run"}

Gate == INSTANCE CallbackGate WITH
    open <- active, inside <- Inside, running <- Running, drops <- destroyed

\* No thread enters a callback once the handle is deactivated or dropped, and the
\* value is destroyed once, after that and after the last thread has left `with`,
\* however RETAIN, RELEASE and the drop of the handle interleave.
ImplementsGate == Gate!Spec
=============================================================================
