--------------------------------- MODULE FfiString --------------------------------
(***************************************************************************)
(* src/ffi_string.rs: a string that foreign code allocates and this code   *)
(* reads and frees (ffi_string_owned, take_owned_cstring and, freeing      *)
(* first, take_owned_cstring_c), and one that foreign code writes into a   *)
(* buffer of this code (ffi_string_from_buffer), on the stack up to        *)
(* StackBytes and on the heap beyond.                                      *)
(*                                                                         *)
(* A byte is NUL or not, a text is its length, and None is -1.  The        *)
(* foreign code keeps its contract: the pointer is null or a terminated    *)
(* string, and it writes at most as many bytes as it was told.             *)
(***************************************************************************)
EXTENDS Integers

CONSTANTS
    StackBytes,     \* STACK_BUFFER_BYTES
    MaxBytes        \* bound: the longest text and the largest buffer

VARIABLES
    call,           \* "none" yet, "owned", "take", "take_c" or "buffer"
    line,           \* the step of the call
    or_empty,       \* it is the _or_empty form
    text,           \* the foreign string, -1 for the null pointer
    copy,           \* the bytes that were copied before it was freed
    frees,          \* how often free_fn was called
    useAfterFree,   \* the memory was read after it was freed
    size, success,  \* of ffi_call(ptr, size)
    bytes,          \* the buffer: the places that are not NUL
    reply           \* what the call returned, -2 while it runs, -3 for a panic

ffi == <<call, line, or_empty, text, copy, frees, useAfterFree, size, success, bytes, reply>>

Init ==
    /\ call = "none" /\ line = "start" /\ or_empty = FALSE
    /\ text = -1 /\ copy = -1 /\ frees = 0 /\ useAfterFree = FALSE
    /\ size = 0 /\ success = FALSE /\ bytes = {}
    /\ reply = -2

\* The _or_empty forms give an empty string for None.
Reply(r) == reply' = IF or_empty /\ r = -1 THEN 0 ELSE r

Call ==
    /\ line = "start"
    /\ or_empty' \in BOOLEAN
    /\ \/ /\ call' \in {"owned", "take", "take_c"}
          /\ text' \in -1 .. MaxBytes
          /\ call' # "owned" => ~or_empty'
          /\ line' = "check"
          /\ UNCHANGED size
       \/ /\ call' = "buffer"
          /\ size' \in 0 .. MaxBytes
          /\ line' = "ffi_call"
          /\ UNCHANGED text
    /\ UNCHANGED <<copy, frees, useAfterFree, success, bytes, reply>>

\* take_owned_cstring: ffi_string_owned with a pointer that is not null
TakeOwned ==
    /\ call = "take" /\ line = "check"
    /\ IF text = -1 THEN line' = "end" /\ Reply(-1) /\ UNCHANGED call
                    ELSE call' = "owned" /\ UNCHANGED <<line, reply>>
    /\ UNCHANGED <<or_empty, text, copy, frees, useAfterFree, size, success, bytes>>

\* A null pointer is not freed.
CheckNull ==
    /\ call \in {"owned", "take_c"} /\ line = "check"
    /\ IF text = -1 THEN line' = "end" /\ Reply(-1) ELSE line' = "read" /\ UNCHANGED reply
    /\ UNCHANGED <<call, or_empty, text, copy, frees, useAfterFree, size, success, bytes>>

ReadsMemory == useAfterFree' = (useAfterFree \/ frees > 0)
Free == frees' = frees + 1

\* ffi_string_owned: the guard frees on the return of None, of the string, and
\* when the conversion panics.
ReadOwned ==
    /\ call = "owned" /\ line = "read"
    /\ ReadsMemory
    /\ IF text = 0 THEN line' = "guard" /\ Reply(-1) ELSE line' = "convert" /\ UNCHANGED reply
    /\ UNCHANGED <<call, or_empty, text, copy, frees, size, success, bytes>>

ConvertOwned ==
    /\ call = "owned" /\ line = "convert"
    /\ ReadsMemory
    /\ line' = "guard"
    /\ Reply(text) \/ reply' = -3
    /\ UNCHANGED <<call, or_empty, text, copy, frees, size, success, bytes>>

\* Altered form: the memory is freed by a statement before the return.
DropGuardUnlessPanics ==
    /\ line = "guard"
    /\ IF reply = -3 THEN UNCHANGED frees ELSE Free
    /\ line' = "end"
    /\ UNCHANGED <<call, or_empty, text, copy, useAfterFree, size, success, bytes, reply>>

DropGuard ==
    /\ line = "guard"
    /\ Free
    /\ line' = "end"
    /\ UNCHANGED <<call, or_empty, text, copy, useAfterFree, size, success, bytes, reply>>

\* take_owned_cstring_c has no guard: it copies and frees before it converts.
\* A panic of the copy (to_vec) comes before the call of free_fn.
CopyAndFree ==
    /\ call = "take_c" /\ line = "read"
    /\ ReadsMemory
    /\ \/ copy' = text /\ Free /\ line' = "convert" /\ UNCHANGED reply
       \/ text > 0 /\ reply' = -3 /\ line' = "end" /\ UNCHANGED <<copy, frees>>
    /\ UNCHANGED <<call, or_empty, text, size, success, bytes>>

ConvertCopy ==
    /\ call = "take_c" /\ line = "convert"
    /\ line' = "end"
    /\ \/ Reply(IF copy = 0 THEN -1 ELSE copy)
       \/ copy > 0 /\ reply' = -3
    /\ UNCHANGED <<call, or_empty, text, copy, frees, useAfterFree, size, success, bytes>>

-----------------------------------------------------------------------------
(* ffi_string_from_buffer                                                  *)

\* The buffer is all NUL, and ffi_call writes some of its first `size` bytes.
FfiCall ==
    /\ line = "ffi_call"
    /\ bytes' \in SUBSET (0 .. size - 1)
    /\ success' \in BOOLEAN
    /\ line' = "parse"
    /\ UNCHANGED <<call, or_empty, text, copy, frees, useAfterFree, size, reply>>

\* Altered form: all of the buffer on the stack is looked at.
SliceAll == IF size <= StackBytes THEN 0 .. StackBytes - 1 ELSE 0 .. size - 1

\* The part of the buffer that is looked at: &buffer[..buffer_size], or the Vec
Slice == 0 .. size - 1

\* parse_buffer: the bytes before the first NUL; no NUL is a failure.
Parsed ==
    LET nuls == Slice \ bytes
        first == CHOOSE i \in nuls : \A j \in nuls : i <= j
    IN  IF nuls = {} \/ first = 0 THEN -1 ELSE first

ParseBuffer ==
    /\ line = "parse"
    /\ line' = "end"
    /\ Reply(IF success THEN Parsed ELSE -1)
    /\ UNCHANGED <<call, or_empty, text, copy, frees, useAfterFree, size, success, bytes>>

Ended == line = "end" /\ UNCHANGED ffi

Next ==
    \/ Call \/ TakeOwned \/ CheckNull \/ ReadOwned \/ ConvertOwned \/ DropGuard
    \/ CopyAndFree \/ ConvertCopy \/ FfiCall \/ ParseBuffer \/ Ended

-----------------------------------------------------------------------------
(* Properties                                                              *)

\* The one way out without the guard and before free_fn: the string leaks.
CopyPanicked == call = "take_c" /\ copy = -1 /\ reply = -3

\* ffi_string_owned and take_owned_cstring, which have the guard, free the
\* foreign string once on every way out, that of a panic included.
\* take_owned_cstring_c, which has none, frees it once too, unless its copy
\* panics: then it is not freed at all.  No call frees a null pointer, or reads
\* the string after it freed it.
FreedOnce ==
    /\ ~useAfterFree
    /\ line = "end" =>
          frees = IF call = "buffer" \/ text = -1 \/ CopyPanicked THEN 0 ELSE 1

\* A text from a buffer was terminated by the foreign code inside the part of the
\* buffer it was told of, on the stack as on the heap: all bytes of the text are
\* its own, and one that fills the buffer is none.
TextWasTerminated ==
    call = "buffer" /\ reply > 0 =>
        success /\ reply < size /\ reply \notin bytes /\ 0 .. reply - 1 \subseteq bytes
=============================================================================
