------------------------------- MODULE ForeignParts -------------------------------
(***************************************************************************)
(* The parts between Rust and foreign code that share nothing with each    *)
(* other: a callback context, a call under panic_safe and a string call,   *)
(* as instances with variables of their own, and what is said of them.     *)
(***************************************************************************)
CONSTANTS Threads, MaxHeld, StackBytes, MaxBytes

VARIABLES
    active, count, owner, at, held, destroyed,                              \* CallbackContext
    form, phase, step, catchers, failed, value, ran, payloads, escaped,     \* PanicSafe
    call, line, or_empty, text, copy, frees, useAfterFree, size, success, bytes, reply  \* FfiString

Context == INSTANCE CallbackContext
Panic == INSTANCE PanicSafe
Text == INSTANCE FfiString

contextVars == <<active, count, owner, at, held, destroyed>>
panicVars == <<form, phase, step, catchers, failed, value, ran, payloads, escaped>>
stringVars == <<call, line, or_empty, text, copy, frees, useAfterFree, size, success, bytes, reply>>

-----------------------------------------------------------------------------
(* Properties                                                              *)

\* CallbackContext: no thread enters a callback after the handle is deactivated
\* or dropped, and the value is destroyed once, after the last has left.
ImplementsGate == Context!ImplementsGate

\* panic_safe: no panic reaches the C caller, that of a payload's destructor
\* included; each phase runs once and in order, and a result is given exactly if
\* all of them succeed.
PanicsAreContained == Panic!PanicsAreContained

\* ffi_string: the calls with a guard free the foreign string once on every way
\* out, take_owned_cstring_c on every one but a panic of its copy; none reads it
\* afterwards.
FreedOnce == Text!FreedOnce

\* ffi_string: a text from a buffer ends at a NUL that the foreign code left in
\* the part of the buffer it was told of.
TextWasTerminated == Text!TextWasTerminated
=============================================================================
