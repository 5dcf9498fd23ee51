--------------------------------- MODULE PanicSafe --------------------------------
(***************************************************************************)
(* src/panic_safe.rs: catch_user_panic_result, a user's function under two *)
(* nested catch_unwind, and catch_user_panic_result_with_cleanup, which    *)
(* runs the callback, the cleanup and the destructors of both and of the   *)
(* state as phases of their own, each under catch_user_panic_result.       *)
(*                                                                         *)
(* All of the user's code may panic: the bodies, the destructors and the   *)
(* destructors of panic payloads; and so may the diagnostic.  A panic goes *)
(* to the innermost catch_unwind, the first of `catchers`.  One destructor *)
(* panics once, as the module requires of its users.                       *)
(***************************************************************************)
EXTENDS Naturals, Sequences

VARIABLES
    form,       \* "none" yet, "plain" or "with_cleanup"
    phase,      \* number of the phase that runs
    step,       \* where in catch_user_panic_result it is
    catchers,   \* the handlers of the catch_unwinds around it
    failed,     \* the phases that gave None
    value,      \* the callback's result: "none", "kept", "returned" or "dropped"
    ran,        \* the phases whose bodies ran, in order
    payloads,   \* panic payloads that were neither dropped nor forgotten
    escaped     \* a panic has come out of the function

Phases == <<"callback", "cleanup", "drop_f", "drop_cleanup", "drop_state", "drop_result">>

Init ==
    /\ form = "none"
    /\ phase = 0 /\ step = "start" /\ catchers = <<>>
    /\ failed = {} /\ value = "none" /\ ran = <<>>
    /\ payloads = 0 /\ escaped = FALSE

\* catch_unwind twice
Enter(p) ==
    /\ phase' = p
    /\ step' = "body"
    /\ catchers' = <<"inner_handler", "outer_handler">>

Begin ==
    /\ form = "none"
    /\ form' \in {"plain", "with_cleanup"}
    /\ Enter(1)
    /\ UNCHANGED <<failed, value, ran, payloads, escaped>>

Unwind ==
    /\ payloads' = payloads + 1
    /\ IF catchers = <<>>
       THEN escaped' = TRUE /\ step' = "end" /\ UNCHANGED catchers
       ELSE step' = Head(catchers) /\ catchers' = Tail(catchers) /\ UNCHANGED escaped

BodyRuns == step = "body" /\ ran' = Append(ran, Phases[phase]) /\ UNCHANGED <<form, phase, failed>>

BodyReturns ==
    /\ BodyRuns
    /\ step' = "between" /\ catchers' = <<>>
    /\ value' = CASE phase = 1 -> "kept" [] phase = 6 -> "dropped" [] OTHER -> value
    /\ UNCHANGED <<payloads, escaped>>

\* A destructor that panics has destroyed the value all the same.
BodyPanics ==
    /\ BodyRuns
    /\ Unwind
    /\ value' = IF phase = 6 THEN "dropped" ELSE value

\* log_callback_panic: what the diagnostic panics with is dropped or forgotten.
Log(here, next) ==
    /\ step = here
    /\ step' = next
    /\ UNCHANGED <<form, phase, catchers, failed, value, ran, payloads, escaped>>

InnerHandler == Log("inner_handler", "drop_payload")
OuterHandler == Log("outer_handler", "drop_payload_best_effort")

\* The phase has failed, and its payload is gone.
Failed ==
    /\ step' = "between" /\ catchers' = <<>>
    /\ failed' = failed \cup {phase}
    /\ UNCHANGED <<form, phase, value, ran, escaped>>

\* The inner handler drops the payload under the outer catch_unwind; if its
\* destructor panics the payload is gone, and there is another one.
DropPayload == step = "drop_payload" /\ payloads' = payloads - 1 /\ Failed

PayloadPanics ==
    /\ step = "drop_payload"
    /\ step' = Head(catchers) /\ catchers' = Tail(catchers)
    /\ UNCHANGED <<form, phase, failed, value, ran, payloads, escaped>>

\* Altered form: the outer handler drops the payload as the inner one does.
DropPayloadUnguarded ==
    /\ step = "drop_payload_best_effort"
    /\ \/ payloads' = payloads - 1 /\ Failed
       \/ Unwind /\ UNCHANGED <<form, phase, failed, value, ran>>

\* The payload is dropped, and what that may panic with is forgotten.
DropPayloadBestEffort ==
    /\ step = "drop_payload_best_effort"
    /\ payloads' = payloads - 1
    /\ Failed

\* catch_user_panic_result_with_cleanup: five phases come whatever fails, and if
\* one but the callback has failed the result, if there is one, is dropped.
NextPhase ==
    /\ form = "with_cleanup" /\ step = "between"
    /\ phase < 5 \/ (phase = 5 /\ failed # {} /\ value = "kept")
    /\ Enter(phase + 1)
    /\ UNCHANGED <<form, failed, value, ran, payloads, escaped>>

Return ==
    /\ step = "between"
    /\ \/ form = "plain"
       \/ phase = 5 /\ (failed = {} \/ value # "kept")
       \/ phase = 6
    /\ step' = "end"
    /\ value' = IF value = "kept" THEN "returned" ELSE value
    /\ UNCHANGED <<form, phase, catchers, failed, ran, payloads, escaped>>

Returned == step = "end" /\ UNCHANGED <<form, phase, step, catchers, failed, value, ran, payloads, escaped>>

Next ==
    \/ Begin \/ BodyReturns \/ BodyPanics \/ InnerHandler \/ OuterHandler
    \/ DropPayload \/ PayloadPanics \/ DropPayloadBestEffort
    \/ NextPhase \/ Return \/ Returned

-----------------------------------------------------------------------------
(* Properties                                                              *)

\* No panic of the user's code, of a destructor or of a payload's destructor
\* reaches the C caller, and every payload is disposed of.
NothingEscapes == ~escaped /\ (step = "end" => payloads = 0)

\* Every phase runs once and in its order, the cleanup before anything is
\* destroyed, whatever has panicked before it; and the caller is given a result
\* exactly if none has, while a result that is not given is destroyed.
PhasesRunOnce ==
    /\ ran = SubSeq(Phases, 1, Len(ran))
    /\ step = "end" =>
          /\ value = "returned" <=> failed = {}
          /\ form = "with_cleanup" => Len(ran) = IF value = "dropped" THEN 6 ELSE 5
          /\ value = "none" <=> 1 \in failed

\* Whatever panics, the caller sees none of it and every phase has its turn.
PanicsAreContained == NothingEscapes /\ PhasesRunOnce
=============================================================================
