------------------------------- MODULE ForeignProofs ------------------------------
(***************************************************************************)
(* Theorems about the parts that foreign code calls and is called by:      *)
(* CallbackContext, for any threads and any number of references,          *)
(* PanicSafe, FfiString for any sizes, and Completion for any number of    *)
(* callbacks and wakers.  They share nothing, so each has its own          *)
(* specification here, as each has its own `part` in ForeignCalls.         *)
(***************************************************************************)
EXTENDS Completion, ForeignParts, Integers, Sequences, FiniteSetTheorems, SequenceTheorems, TLAPS

-----------------------------------------------------------------------------
(* CallbackContext implements CallbackGate.                                *)
(*                                                                         *)
(* The count is the number of references, those of the foreign threads and *)
(* the handle's (Counted); who is in a call has a reference (InCall), so   *)
(* when the last one goes nobody is, and the flag was cleared before the   *)
(* handle gave up its own (Closed).                                        *)

ContextSpec == Context!Init /\ [][Context!Next]_contextVars

ContextTypes ==
    /\ active \in BOOLEAN
    /\ count \in Nat /\ destroyed \in {0, 1}
    /\ owner \in {"live", "dropping", "gone"}
    /\ at \in [Threads -> {"idle", "load", "run", "destroy"}]
    /\ held \in [Threads -> Nat]

\* The references of the threads, numbered
Refs == {r \in Threads \X Nat : 1 <= r[2] /\ r[2] <= held[r[1]]}

Counted ==
    /\ IsFiniteSet(Refs)
    /\ count = Cardinality(Refs) + (IF owner = "gone" THEN 0 ELSE 1)

InCall == \A t \in Threads : at[t] \in {"load", "run"} => held[t] > 0

Closed == owner # "live" => ~active

\* The value is destroyed after the last reference, by the thread that gave it back.
Dying ==
    /\ \A t \in Threads : at[t] = "destroy" => count = 0 /\ destroyed = 0
    /\ \A t, u \in Threads : at[t] = "destroy" /\ at[u] = "destroy" => t = u
    /\ destroyed = 1 => count = 0

ContextInv == ContextTypes /\ Counted /\ InCall /\ Closed /\ Dying

\* A new context has the handle's reference alone.
LEMMA InitContextInv == Context!Init => ContextInv
<1> SUFFICES ASSUME Context!Init PROVE ContextInv
  OBVIOUS
<1>1. Refs = {}
  BY DEF Context!Init, Refs
<1>2. Counted
  BY <1>1, FS_EmptySet DEF Context!Init, Counted
<1> QED
  BY <1>2 DEF Context!Init, ContextInv, ContextTypes, InCall, Closed, Dying

\* A reference more: the count and the set of references go up together.
LEMMA OneMore ==
    ASSUME ContextTypes, Counted, NEW t \in Threads,
           held' = [held EXCEPT ![t] = @ + 1], count' = count + 1, owner' = owner
    PROVE  Counted'
<1> DEFINE r == <<t, held[t] + 1>>
<1>1. Refs' = Refs \cup {r} /\ r \notin Refs
  BY DEF ContextTypes, Refs
<1>2. IsFiniteSet(Refs') /\ Cardinality(Refs') = Cardinality(Refs) + 1
  BY <1>1, FS_AddElement DEF Counted
<1>3. Cardinality(Refs) \in Nat
  BY FS_CardinalityType DEF Counted
<1> QED
  BY <1>2, <1>3 DEF Counted, ContextTypes

\* A reference less.
LEMMA OneLess ==
    ASSUME ContextTypes, Counted, NEW t \in Threads, held[t] > 0,
           held' = [held EXCEPT ![t] = @ - 1], count' = count - 1, owner' = owner
    PROVE  Counted'
<1> DEFINE r == <<t, held[t]>>
<1>1. Refs' = Refs \ {r} /\ r \in Refs
  BY DEF ContextTypes, Refs
<1>2. IsFiniteSet(Refs') /\ Cardinality(Refs') = Cardinality(Refs) - 1
  BY <1>1, FS_RemoveElement DEF Counted
<1>3. Cardinality(Refs) \in Nat
  BY FS_CardinalityType DEF Counted
<1> QED
  BY <1>2, <1>3 DEF Counted, ContextTypes

\* The count is zero exactly when nobody has a reference, and one in the handle's
\* drop exactly when no thread has one.
LEMMA NoneLeft ==
    ASSUME ContextTypes, Counted
    PROVE  /\ count = 0 <=> owner = "gone" /\ \A t \in Threads : held[t] = 0
           /\ owner # "gone" => (count = 1 <=> \A t \in Threads : held[t] = 0)
<1>1. Cardinality(Refs) \in Nat /\ (Cardinality(Refs) = 0 <=> Refs = {})
  BY FS_CardinalityType, FS_EmptySet DEF Counted
<1>2. Refs = {} <=> \A t \in Threads : held[t] = 0
  <2>1. ASSUME NEW t \in Threads, held[t] # 0 PROVE <<t, 1>> \in Refs
    BY <2>1 DEF ContextTypes, Refs
  <2>2. ASSUME NEW r \in Refs PROVE r[1] \in Threads /\ held[r[1]] # 0
    BY <2>2 DEF ContextTypes, Refs
  <2> QED
    BY <2>1, <2>2
<1> QED
  BY <1>1, <1>2 DEF Counted, ContextTypes

\* What leaves the references alone leaves the count right.
LEMMA SameRefs == Counted /\ UNCHANGED <<held, count, owner>> => Counted'
  BY DEF Counted, Refs

\* Every step keeps the invariant.
LEMMA ContextStep == ContextInv /\ [Context!Next]_contextVars => ContextInv'
<1> SUFFICES ASSUME ContextInv, [Context!Next]_contextVars PROVE ContextInv'
  OBVIOUS
<1>0. count = 0 <=> owner = "gone" /\ \A t \in Threads : held[t] = 0
  BY NoneLeft DEF ContextInv
<1> USE DEF ContextInv, ContextTypes, InCall, Closed, Dying, Context!Goto
<1>1. ASSUME NEW t \in Threads, Context!RetainedPtr(t) \/ Context!Retain(t) PROVE ContextInv'
  <2>1. Counted'
    BY <1>1, OneMore DEF Context!RetainedPtr, Context!Retain
  <2> QED
    BY <1>0, <1>1, <2>1 DEF Context!RetainedPtr, Context!Retain
<1>2. ASSUME NEW t \in Threads, Context!Release(t) PROVE ContextInv'
  <2>1. Counted'
    BY <1>2, OneLess DEF Context!Release
  <2>2. ContextTypes'
    BY <1>0, <1>2 DEF Context!Release
  <2> QED
    BY <1>0, <1>2, <2>1, <2>2 DEF Context!Release
<1>3. ASSUME NEW t \in Threads, Context!Destroy(t) PROVE ContextInv'
  <2>1. Counted'
    BY <1>3, SameRefs DEF Context!Destroy
  <2> QED
    BY <1>0, <1>3, <2>1 DEF Context!Destroy
<1>4. ASSUME NEW t \in Threads, Context!With(t) \/ Context!WithLoad(t) \/ Context!WithReturn(t) PROVE ContextInv'
  <2>1. Counted'
    BY <1>4, SameRefs DEF Context!With, Context!WithLoad, Context!WithReturn
  <2> QED
    BY <1>4, <2>1 DEF Context!With, Context!WithLoad, Context!WithReturn
<1>5. ASSUME Context!Deactivate PROVE ContextInv'
  <2>1. Counted'
    BY <1>5, SameRefs DEF Context!Deactivate
  <2> QED
    BY <1>5, <2>1 DEF Context!Deactivate
<1>6. ASSUME Context!DropHandle PROVE ContextInv'
  <2>1. Refs' = Refs
    BY <1>6 DEF Context!DropHandle, Refs
  <2>2. Counted'
    BY <1>6, <2>1 DEF Context!DropHandle, Counted
  <2> QED
    BY <1>6, <2>2 DEF Context!DropHandle
<1>7. ASSUME Context!DropInner PROVE ContextInv'
  <2>1. Refs' = Refs
    BY <1>7 DEF Context!DropInner, Refs
  <2>2. Cardinality(Refs) \in Nat
    BY FS_CardinalityType DEF Counted
  <2>3. Counted'
    BY <1>7, <2>1, <2>2 DEF Context!DropInner, Counted
  <2> QED
    BY <1>0, <1>7, <2>3 DEF Context!DropInner
<1>8. CASE UNCHANGED contextVars
  <2>1. Counted'
    BY <1>8, SameRefs DEF contextVars
  <2> QED
    BY <1>8, <2>1 DEF contextVars
<1> QED
  BY <1>1, <1>2, <1>3, <1>4, <1>5, <1>6, <1>7, <1>8 DEF Context!Next, Context!Continue, Context!AllReleased, Context!context, contextVars

\* Every step is one of the gate's or none of its business.
LEMMA GateStep == ContextInv /\ ContextInv' /\ [Context!Next]_contextVars => [Context!Gate!Next]_(Context!Gate!gate)
<1> SUFFICES ASSUME ContextInv, ContextInv', [Context!Next]_contextVars PROVE [Context!Gate!Next]_(Context!Gate!gate)
  OBVIOUS
<1>0. count = 0 <=> owner = "gone" /\ \A t \in Threads : held[t] = 0
  BY NoneLeft DEF ContextInv
<1> USE DEF ContextInv, ContextTypes, InCall, Closed, Dying, Context!Goto, Context!Inside, Context!Running, Context!Gate!gate
<1>1. ASSUME NEW t \in Threads, Context!RetainedPtr(t) \/ Context!Retain(t) \/ Context!Release(t) PROVE UNCHANGED Context!Gate!gate
  BY <1>1 DEF Context!RetainedPtr, Context!Retain, Context!Release
<1>2. ASSUME NEW t \in Threads, Context!Destroy(t) PROVE Context!Gate!Destroy
  BY <1>0, <1>2 DEF Context!Destroy, Context!Gate!Destroy
<1>3. ASSUME NEW t \in Threads, Context!With(t) PROVE Context!Gate!Enter(t)
  BY <1>0, <1>3 DEF Context!With, Context!Gate!Enter
<1>4. ASSUME NEW t \in Threads, Context!WithLoad(t) PROVE Context!Gate!Admit(t) \/ Context!Gate!Leave(t)
  BY <1>4 DEF Context!WithLoad, Context!Gate!Admit, Context!Gate!Leave
<1>5. ASSUME NEW t \in Threads, Context!WithReturn(t) PROVE Context!Gate!Leave(t)
  BY <1>5 DEF Context!WithReturn, Context!Gate!Leave
<1>6. ASSUME Context!Deactivate \/ Context!DropHandle PROVE Context!Gate!Close
  BY <1>6 DEF Context!Deactivate, Context!DropHandle, Context!Gate!Close
<1>7. ASSUME Context!DropInner PROVE Context!Gate!Destroy \/ UNCHANGED Context!Gate!gate
  <2>1. CASE count = 1
    <3>1. \A t \in Threads : held[t] = 0
      BY <1>7, <2>1, NoneLeft DEF Context!DropInner
    <3> QED
      BY <1>7, <2>1, <3>1 DEF Context!DropInner, Context!Gate!Destroy
  <2>2. CASE count # 1
    BY <1>7, <2>2 DEF Context!DropInner
  <2> QED
    BY <2>1, <2>2
<1>8. CASE UNCHANGED contextVars
  BY <1>8 DEF contextVars
<1> QED
  BY <1>1, <1>2, <1>3, <1>4, <1>5, <1>6, <1>7, <1>8 DEF Context!Next, Context!Continue, Context!AllReleased, Context!context, contextVars, Context!Gate!Next

\* A callback context is a gate: no thread is let in to the value after the owner
\* has deactivated or dropped the handle, and the value is destroyed once, with no
\* thread in a call, in every order of RETAIN, RELEASE, with and drop.
THEOREM ContextImplementsGate == ContextSpec => ImplementsGate
<1>1. Context!Init => Context!Gate!Init
  BY DEF Context!Init, Context!Gate!Init, Context!Inside, Context!Running
<1> QED
  BY <1>1, InitContextInv, ContextStep, GateStep, PTL DEF ContextSpec, ImplementsGate, Context!ImplementsGate, Context!Gate!Spec

-----------------------------------------------------------------------------
(* FfiString                                                               *)

StringSpec == Text!Init /\ [][Text!Next]_(Text!ffi)

StringTypes ==
    /\ text \in Int /\ frees \in Nat /\ size \in Nat /\ copy \in Int
    /\ useAfterFree \in BOOLEAN /\ success \in BOOLEAN
    /\ line = "start" => call = "none"
    /\ line = "check" => call \in {"owned", "take", "take_c"}
    /\ line \in {"read", "convert"} => call \in {"owned", "take_c"}
    /\ line = "guard" => call = "owned"
    /\ line \in {"ffi_call", "parse"} => call = "buffer"
    /\ call = "buffer" => line \in {"ffi_call", "parse", "end"}
    /\ line \in {"start", "check", "read", "convert", "guard", "ffi_call", "parse", "end"}

\* Only take_owned_cstring_c has freed the memory before it comes to its end, and
\* it has copied the text by then.
FreedSoFar ==
    /\ line \in {"start", "check", "read", "guard", "ffi_call", "parse"} => frees = 0
    /\ line = "convert" => frees = IF call = "take_c" THEN 1 ELSE 0
    /\ line \in {"read", "convert", "guard"} => text # -1
    /\ line \in {"start", "check", "read"} => copy = -1
    /\ line = "convert" /\ call = "take_c" => copy = text

\* There is no text before the buffer has been looked at.
NoTextYet == line \in {"start", "ffi_call", "parse"} => reply = -2

StringInv == StringTypes /\ FreedSoFar /\ NoTextYet /\ Text!FreedOnce /\ Text!TextWasTerminated

LEMMA InitStringInv == Text!Init => StringInv
<1> SUFFICES ASSUME Text!Init PROVE StringInv
  OBVIOUS
<1>0. useAfterFree \in BOOLEAN /\ success \in BOOLEAN
  BY Zenon DEF Text!Init
<1>1. StringTypes /\ FreedSoFar /\ NoTextYet
  BY <1>0 DEF Text!Init, StringTypes, FreedSoFar, NoTextYet
<1>2. Text!FreedOnce
  BY DEF Text!Init, Text!FreedOnce, Text!CopyPanicked
<1>3. Text!TextWasTerminated
  BY DEF Text!Init, Text!TextWasTerminated
<1> QED
  BY <1>1, <1>2, <1>3 DEF StringInv

\* A set of natural numbers that is not empty has a least member.
LEMMA LeastMember ==
    ASSUME NEW S \in SUBSET Nat, S # {}
    PROVE  \E i \in S : \A j \in S : i <= j
<1> DEFINE less == OpToRel(<, Nat)
<1>1. IsWellFoundedOn(less, Nat)
  BY NatLessThanWellFounded
<1> HIDE DEF less
<1>2. PICK i \in S : \A j \in S : ~ (<<j, i>> \in less)
  BY <1>1, WFMin
<1>3. \A j \in S : ~(j < i)
  BY <1>2 DEF less, OpToRel
<1> QED
  BY <1>2, <1>3

\* A text that was found in the buffer ends before a NUL and has none in it.
LEMMA ParsedIsTerminated ==
    ASSUME size \in Nat
    PROVE  /\ Text!Parsed \in Int
           /\ Text!Parsed > 0 => /\ Text!Parsed < size
                                /\ Text!Parsed \notin bytes
                                /\ 0 .. Text!Parsed - 1 \subseteq bytes
<1> DEFINE nuls == Text!Slice \ bytes
           least == CHOOSE i \in nuls : \A j \in nuls : i <= j
<1>1. Text!Parsed = IF nuls = {} \/ least = 0 THEN -1 ELSE least
  BY DEF Text!Parsed
<1>2. CASE nuls = {}
  BY <1>1, <1>2
<1>3. CASE nuls # {}
  <2>1. nuls \in SUBSET Nat /\ \A i \in Nat : i \in nuls <=> i < size /\ i \notin bytes
    BY DEF Text!Slice
  <2> HIDE DEF nuls
  <2>2. \E i \in nuls : \A j \in nuls : i <= j
    BY <1>3, <2>1, LeastMember
  <2>3. least \in nuls /\ \A j \in nuls : least <= j
    BY <2>2
  <2> HIDE DEF least
  <2>4. \A i \in 0 .. least - 1 : i \in bytes
    BY <2>1, <2>3
  <2> QED
    BY <1>1, <1>3, <2>1, <2>3, <2>4
<1> QED
  BY <1>2, <1>3

LEMMA StringStep ==
    ASSUME MaxBytes \in Nat
    PROVE  StringInv /\ [Text!Next]_(Text!ffi) => StringInv'
<1> SUFFICES ASSUME StringInv, [Text!Next]_(Text!ffi) PROVE StringInv'
  OBVIOUS
<1> USE DEF StringInv, StringTypes, FreedSoFar, NoTextYet, Text!FreedOnce, Text!TextWasTerminated,
            Text!CopyPanicked, Text!Reply, Text!ReadsMemory, Text!Free
<1>1. ASSUME Text!Call PROVE StringInv'
  BY <1>1 DEF Text!Call
<1>2. ASSUME Text!TakeOwned PROVE StringInv'
  BY <1>2 DEF Text!TakeOwned
<1>3. ASSUME Text!CheckNull PROVE StringInv'
  BY <1>3 DEF Text!CheckNull
<1>4. ASSUME Text!ReadOwned PROVE StringInv'
  BY <1>4 DEF Text!ReadOwned
<1>5. ASSUME Text!ConvertOwned PROVE StringInv'
  BY <1>5 DEF Text!ConvertOwned
<1>6. ASSUME Text!DropGuard PROVE StringInv'
  BY <1>6 DEF Text!DropGuard
<1>7. ASSUME Text!CopyAndFree PROVE StringInv'
  BY <1>7 DEF Text!CopyAndFree
<1>8. ASSUME Text!ConvertCopy PROVE StringInv'
  BY <1>8 DEF Text!ConvertCopy
<1>9. ASSUME Text!FfiCall PROVE StringInv'
  BY <1>9 DEF Text!FfiCall
<1>10. ASSUME Text!ParseBuffer PROVE StringInv'
  <2>1. UNCHANGED <<call, text, copy, frees, useAfterFree, size, success, bytes>> /\ line' = "end" /\ line = "parse"
    BY <1>10 DEF Text!ParseBuffer
  <2>2. reply' > 0 => success /\ reply' = Text!Parsed
    BY <1>10, ParsedIsTerminated DEF Text!ParseBuffer
  <2>3. Text!TextWasTerminated'
    BY <2>1, <2>2, ParsedIsTerminated
  <2> QED
    BY <2>1, <2>3
<1>11. CASE UNCHANGED Text!ffi
  BY <1>11 DEF Text!ffi
<1> QED
  BY <1>1, <1>2, <1>3, <1>4, <1>5, <1>6, <1>7, <1>8, <1>9, <1>10, <1>11 DEF Text!Next, Text!Ended

\* ffi_string_owned and take_owned_cstring free what they were given once on
\* every way out, the panic of a conversion included; take_owned_cstring_c does
\* on every one but the panic of its copy, which leaks the string.  None frees a
\* null pointer or reads afterwards.
THEOREM StringsAreFreedOnce ==
    ASSUME MaxBytes \in Nat
    PROVE  StringSpec => []FreedOnce
<1>1. StringInv => FreedOnce
  BY DEF StringInv, FreedOnce
<1> QED
  BY <1>1, InitStringInv, StringStep, PTL DEF StringSpec

\* ffi_string_from_buffer, for a buffer of any size: a text it returns ends at a
\* NUL within that size, and every byte before the end was written by the call.
THEOREM TextsAreTerminated ==
    ASSUME MaxBytes \in Nat
    PROVE  StringSpec => []TextWasTerminated
<1>1. StringInv => TextWasTerminated
  BY DEF StringInv, TextWasTerminated
<1> QED
  BY <1>1, InitStringInv, StringStep, PTL DEF StringSpec

-----------------------------------------------------------------------------
(* PanicSafe                                                               *)

PanicSpec == Panic!Init /\ [][Panic!Next]_panicVars

Over == {"between", "end"}
Names == {Panic!Phases[i] : i \in 1 .. 6}

PanicTypes ==
    /\ form \in {"none", "plain", "with_cleanup"}
    /\ phase \in 0 .. 6 /\ payloads \in {0, 1} /\ failed \in SUBSET (1 .. 6)
    /\ step \in {"start", "body", "inner_handler", "drop_payload",
                 "outer_handler", "drop_payload_best_effort"} \cup Over
    /\ step = "start" <=> form = "none"
    /\ step = "start" => phase = 0 /\ failed = {} /\ value = "none" /\ payloads = 0
    /\ step # "start" => phase >= 1
    /\ form = "plain" => phase <= 1

\* A panic that is on its way has a handler left to go to, and one payload.
Handled ==
    /\ escaped = FALSE
    /\ payloads = IF step \in {"start", "body"} \cup Over THEN 0 ELSE 1
    /\ step = "body" => catchers = <<"inner_handler", "outer_handler">>
    /\ step \in {"inner_handler", "drop_payload"} => catchers = <<"outer_handler">>

\* The phases up to this one have run, this one unless it is still to run.
RanSoFar ==
    /\ ran \in Seq(Names)
    /\ Len(ran) = IF step = "body" THEN phase - 1 ELSE phase
    /\ \A i \in 1 .. Len(ran) : ran[i] = Panic!Phases[i]

\* The callback's result, as the failures so far decide
ResultSoFar ==
    /\ failed \subseteq 1 .. phase
    /\ step \notin Over => phase \notin failed
    /\ value \in {"none", "kept", "returned", "dropped"}
    /\ phase = 1 /\ step \notin Over => value = "none"
    /\ phase > 1 \/ step \in Over => (value = "none" <=> 1 \in failed)
    /\ phase = 6 => failed # {} /\ value = IF step = "body" THEN "kept" ELSE "dropped"
    /\ value = "dropped" => phase = 6
    /\ value = "returned" => step = "end" /\ failed = {}
    /\ step = "end" => value # "kept" /\ (form = "plain" \/ phase >= 5)

PanicInv == PanicTypes /\ Handled /\ RanSoFar /\ ResultSoFar

LEMMA InitPanicInv == Panic!Init => PanicInv
<1> SUFFICES ASSUME Panic!Init PROVE PanicInv
  OBVIOUS
<1> USE DEF Panic!Init, Over
<1>1. PanicTypes
  BY DEF PanicTypes
<1>2. Handled
  BY DEF Handled
<1>3. RanSoFar
  BY DEF RanSoFar
<1>4. ResultSoFar
  BY DEF ResultSoFar
<1> QED
  BY <1>1, <1>2, <1>3, <1>4 DEF PanicInv

\* The body of a phase runs: it is the next one of Phases.
LEMMA BodyIsNext == PanicInv /\ Panic!BodyRuns /\ step' # "body" => RanSoFar'
<1> SUFFICES ASSUME PanicInv, Panic!BodyRuns, step' # "body" PROVE RanSoFar'
  OBVIOUS
<1>1. phase \in 1 .. 6 /\ phase' = phase /\ Len(ran) = phase - 1 /\ ran \in Seq(Names)
  BY DEF Panic!BodyRuns, PanicInv, PanicTypes, RanSoFar
<1>2. Panic!Phases[phase] \in Names
  BY <1>1 DEF Names
<1>3. ran' = Append(ran, Panic!Phases[phase])
  BY DEF Panic!BodyRuns
<1>4. /\ ran' \in Seq(Names) /\ Len(ran') = phase
      /\ \A i \in 1 .. phase - 1 : ran'[i] = ran[i]
      /\ ran'[phase] = Panic!Phases[phase]
  BY <1>1, <1>2, <1>3
<1>5. \A i \in 1 .. phase - 1 : ran[i] = Panic!Phases[i]
  BY <1>1 DEF PanicInv, RanSoFar
<1>6. \A i \in 1 .. phase : ran'[i] = Panic!Phases[i]
  BY <1>1, <1>4, <1>5
<1> QED
  BY <1>1, <1>4, <1>6 DEF RanSoFar, PanicInv, PanicTypes

\* Where a panic goes from inside two catch_unwinds, and from inside one
LEMMA TwoCatchers ==
    ASSUME NEW a, NEW b
    PROVE  <<a, b>> # <<>> /\ Head(<<a, b>>) = a /\ Tail(<<a, b>>) = <<b>>
  OBVIOUS

LEMMA OneCatcher ==
    ASSUME NEW a
    PROVE  Head(<<a>>) = a
  OBVIOUS

LEMMA PanicStep == PanicInv /\ [Panic!Next]_panicVars => PanicInv'
<1> SUFFICES ASSUME PanicInv, [Panic!Next]_panicVars PROVE PanicInv'
  OBVIOUS
<1> USE DEF PanicInv, PanicTypes, Handled, ResultSoFar, Over
<1>1. ASSUME Panic!Begin PROVE PanicInv'
  BY <1>1 DEF Panic!Begin, Panic!Enter, RanSoFar
<1>2. ASSUME Panic!BodyReturns PROVE PanicInv'
  <2>1. RanSoFar'
    BY <1>2, BodyIsNext DEF Panic!BodyReturns
  <2> QED
    BY <1>2, <2>1 DEF Panic!BodyReturns, Panic!BodyRuns
<1>3. ASSUME Panic!BodyPanics PROVE PanicInv'
  <2>0. catchers = <<"inner_handler", "outer_handler">> /\ payloads = 0
    BY <1>3 DEF Panic!BodyPanics, Panic!BodyRuns
  <2>1. step' = "inner_handler" /\ catchers' = <<"outer_handler">> /\ escaped' = escaped /\ payloads' = 1
    BY <1>3, <2>0, TwoCatchers DEF Panic!BodyPanics, Panic!Unwind
  <2>2. RanSoFar'
    BY <1>3, <2>1, BodyIsNext DEF Panic!BodyPanics
  <2> QED
    BY <1>3, <2>1, <2>2 DEF Panic!BodyPanics, Panic!BodyRuns
<1>4. ASSUME Panic!InnerHandler \/ Panic!OuterHandler PROVE PanicInv'
  BY <1>4 DEF Panic!InnerHandler, Panic!OuterHandler, Panic!Log, RanSoFar
<1>5. ASSUME Panic!DropPayload \/ Panic!DropPayloadBestEffort PROVE PanicInv'
  <2>1. /\ step \in {"drop_payload", "drop_payload_best_effort"} /\ step' = "between"
        /\ payloads' = 0 /\ failed' = failed \cup {phase}
        /\ UNCHANGED <<form, phase, value, ran, escaped>>
    BY <1>5 DEF Panic!DropPayload, Panic!DropPayloadBestEffort, Panic!Failed
  <2>2. PanicTypes' /\ Handled' /\ RanSoFar'
    BY <2>1 DEF RanSoFar
  <2>3. ResultSoFar'
    BY <2>1
  <2> QED
    BY <2>2, <2>3
<1>6. ASSUME Panic!PayloadPanics PROVE PanicInv'
  BY <1>6, OneCatcher DEF Panic!PayloadPanics, RanSoFar
<1>7. ASSUME Panic!NextPhase PROVE PanicInv'
  BY <1>7 DEF Panic!NextPhase, Panic!Enter, RanSoFar
<1>8. ASSUME Panic!Return PROVE PanicInv'
  BY <1>8 DEF Panic!Return, RanSoFar
<1>9. CASE UNCHANGED panicVars
  BY <1>9 DEF panicVars, RanSoFar
<1> QED
  BY <1>1, <1>2, <1>3, <1>4, <1>5, <1>6, <1>7, <1>8, <1>9 DEF Panic!Next, Panic!Returned, panicVars

\* catch_user_panic_result and its form with a cleanup: whichever bodies,
\* destructors and payload destructors panic, no panic gets out, no payload is
\* left, every phase runs once and in order, and a result is given exactly if
\* none has failed.
THEOREM PanicsStayIn == PanicSpec => []PanicsAreContained
<1>1. PanicInv => PanicsAreContained
  <2> SUFFICES ASSUME PanicInv PROVE Panic!PanicsAreContained
    BY DEF PanicsAreContained
  <2>1. Panic!NothingEscapes
    BY DEF PanicInv, Handled, Over, Panic!NothingEscapes
  <2>2. ran = SubSeq(Panic!Phases, 1, Len(ran))
    <3>0. phase \in 0 .. 6 /\ (step = "body" => phase >= 1)
      BY DEF PanicInv, PanicTypes
    <3>1. Len(ran) \in 0 .. 6 /\ ran \in Seq(Names) /\ \A i \in 1 .. Len(ran) : ran[i] = Panic!Phases[i]
      BY <3>0 DEF PanicInv, RanSoFar
    <3>2. \A i \in 1 .. Len(ran) : Panic!Phases[i] \in Names
      BY <3>1 DEF Names
    <3> DEFINE sub == SubSeq(Panic!Phases, 1, Len(ran))
    <3>3. /\ sub \in Seq(Names) /\ Len(sub) = Len(ran)
          /\ \A i \in 1 .. Len(ran) : sub[i] = Panic!Phases[i]
      BY <3>1, <3>2, SubSeqProperties
    <3> HIDE DEF sub
    <3>4. ran = sub
      BY <3>1, <3>3, SeqEqual
    <3> QED
      BY <3>4 DEF sub
  <2>3. step = "end" =>
          /\ value = "returned" <=> failed = {}
          /\ form = "with_cleanup" => Len(ran) = IF value = "dropped" THEN 6 ELSE 5
          /\ value = "none" <=> 1 \in failed
    <3> SUFFICES ASSUME step = "end"
                 PROVE  /\ value = "returned" <=> failed = {}
                        /\ form = "with_cleanup" => Len(ran) = IF value = "dropped" THEN 6 ELSE 5
                        /\ value = "none" <=> 1 \in failed
      OBVIOUS
    <3>1. phase \in 1 .. 6 /\ Len(ran) = phase
      BY DEF PanicInv, PanicTypes, RanSoFar
    <3>2. /\ value \in {"none", "returned", "dropped"} /\ (value = "none" <=> 1 \in failed)
          /\ phase = 6 <=> value = "dropped"
          /\ phase = 6 => failed # {}
          /\ value = "returned" => failed = {}
          /\ form = "plain" \/ phase >= 5
      BY <3>1 DEF PanicInv, ResultSoFar, Over
    <3> QED
      BY <3>1, <3>2
  <2> QED
    BY <2>1, <2>2, <2>3 DEF Panic!PanicsAreContained, Panic!PhasesRunOnce
<1> QED
  BY <1>1, InitPanicInv, PanicStep, PTL DEF PanicSpec

-----------------------------------------------------------------------------
(* Completion.                                                             *)
(*                                                                         *)
(* The flag chooses one callback, `first`, and only that one gets past it  *)
(* (OneWinner); the count of the Arc is then known from where that         *)
(* callback and the handle are (Owned).  Its result is in exactly one of   *)
(* three places from the moment it is stored (ResultPlaced), and it is     *)
(* taken out of the slot by the owner alone (KeptInTime).                  *)

Working == {"store", "notify", "release"}
Stored == {"notify", "release", "done"}

CompletionTypes ==
    /\ kind \in {"sync", "async"}
    /\ strong \in Nat
    /\ consumed \in BOOLEAN
    /\ result \in Callbacks \cup {NoCallback}
    /\ pc \in [Callbacks -> {"idle", "done"} \cup Working]
    /\ handle \in {"idle", "lock", "blocked", "poll", "pending", "leave", "gone"}
    /\ expired \in BOOLEAN /\ inTime \in BOOLEAN
    /\ answer \in Callbacks \cup {NoCallback, "timeout"}
    /\ answer # NoCallback => handle \in {"leave", "gone"}
    /\ first \in Callbacks \cup {NoCallback}
    /\ dropped \in SUBSET Callbacks

\* One callback wins the context, the others come to their end at once.
OneWinner ==
    /\ consumed <=> first # NoCallback
    /\ \A k \in Callbacks : pc[k] \in Working => k = first
    /\ \A k \in Callbacks : pc[k] = "idle" => k # first
    /\ \A k \in Callbacks : pc[k] = "done" /\ k # first => k \in dropped
    /\ \A k \in dropped : pc[k] = "done"

\* The context's reference is there until the winner has given it back.
ContextHeld == first = NoCallback \/ pc[first] \in Working

Owned == strong = (IF handle = "gone" THEN 0 ELSE 1) + (IF ContextHeld THEN 1 ELSE 0)

\* Where the winner's result is
ResultPlaced ==
    /\ result # NoCallback => result = first /\ pc[first] \in Stored /\ answer # first /\ first \notin dropped
    /\ answer \in Callbacks => answer = first /\ pc[first] \in Stored /\ first \notin dropped
    /\ first # NoCallback /\ pc[first] \in Stored => result = first \/ answer = first \/ first \in dropped

\* A result that came in time stays in the slot for the owner.
KeptInTime == inTime /\ handle \notin {"leave", "gone"} => result # NoCallback

CompletionInv == CompletionTypes /\ OneWinner /\ Owned /\ ResultPlaced /\ KeptInTime /\ TimeoutIsLate

\* A new completion has two references and no result.
LEMMA InitCompletionInv == Init => CompletionInv
<1> SUFFICES ASSUME Init PROVE CompletionInv
  OBVIOUS
<1> USE CompletionAssumption DEF Init, Working, Stored
<1>1. CompletionTypes
  BY DEF CompletionTypes
<1>2. OneWinner
  BY DEF OneWinner
<1>3. Owned
  BY DEF Owned, ContextHeld
<1>4. ResultPlaced /\ KeptInTime /\ TimeoutIsLate
  BY DEF ResultPlaced, KeptInTime, TimeoutIsLate
<1> QED
  BY <1>1, <1>2, <1>3, <1>4 DEF CompletionInv

\* Every step keeps the types; the count does not go below zero, since who gives a
\* reference back has one.
LEMMA CompletionTypesStep == CompletionTypes /\ OneWinner /\ Owned /\ [Next]_vars => CompletionTypes'
<1> SUFFICES ASSUME CompletionTypes, OneWinner, Owned, [Next]_vars PROVE CompletionTypes'
  OBVIOUS
<1> USE CompletionAssumption DEF Inner, Call, Owner, History, Goto, Working, CompletionTypes, OneWinner, Owned, ContextHeld
<1>1. ASSUME NEW k \in Callbacks, Swap(k) PROVE CompletionTypes'
  BY <1>1 DEF Swap
<1>2. ASSUME NEW k \in Callbacks, Store(k) PROVE CompletionTypes'
  BY <1>2 DEF Store
<1>3. ASSUME NEW k \in Callbacks, Notify(k) PROVE CompletionTypes'
  BY <1>3 DEF Notify
<1>4. ASSUME NEW k \in Callbacks, Release(k) PROVE CompletionTypes'
  BY <1>4 DEF Release, DropArc
<1>5. ASSUME CallWait PROVE CompletionTypes'
  BY <1>5 DEF CallWait
<1>6. ASSUME NEW l \in {"lock", "poll"}, TakeResult(l) PROVE CompletionTypes'
  BY <1>6 DEF TakeResult
<1>7. ASSUME GiveUp PROVE CompletionTypes'
  BY <1>7 DEF GiveUp
<1>8. ASSUME Block PROVE CompletionTypes'
  BY <1>8 DEF Block
<1>9. ASSUME WakeUp PROVE CompletionTypes'
  BY <1>9 DEF WakeUp
<1>10. ASSUME Expire PROVE CompletionTypes'
  BY <1>10 DEF Expire
<1>11. ASSUME NEW w \in Wakers \cup {current}, BeginPoll(w), handle \in {"idle", "pending"} PROVE CompletionTypes'
  BY <1>11 DEF BeginPoll
<1>12. ASSUME PollPending PROVE CompletionTypes'
  BY <1>12 DEF PollPending
<1>13. ASSUME Leave PROVE CompletionTypes'
  BY <1>13 DEF Leave, DropArc
<1>14. ASSUME DropHandle PROVE CompletionTypes'
  BY <1>14 DEF DropHandle, DropArc
<1>15. CASE UNCHANGED vars
  BY <1>15 DEF vars
<1> QED
  BY <1>1, <1>2, <1>3, <1>4, <1>5, <1>6, <1>7, <1>8, <1>9, <1>10, <1>11, <1>12, <1>13, <1>14, <1>15
     DEF Next, Continue, Wait, Poll, TimeoutWakeup, SpuriousWakeup, PollFirst, PollAgain, PollUnasked, Freed

\* The flag is swapped by one callback first, and all others find it set.
LEMMA WinnerStep == CompletionInv /\ [Next]_vars => OneWinner'
<1> SUFFICES ASSUME CompletionInv, [Next]_vars PROVE OneWinner'
  OBVIOUS
<1> USE CompletionAssumption DEF Inner, Call, Owner, History, Goto, Working, Stored, CompletionInv, CompletionTypes, OneWinner, Owned, ContextHeld, ResultPlaced
<1>1. ASSUME NEW k \in Callbacks, Swap(k) PROVE OneWinner'
  BY <1>1 DEF Swap
<1>2. ASSUME NEW k \in Callbacks, Store(k) PROVE OneWinner'
  BY <1>2 DEF Store
<1>3. ASSUME NEW k \in Callbacks, Notify(k) PROVE OneWinner'
  BY <1>3 DEF Notify
<1>4. ASSUME NEW k \in Callbacks, Release(k) PROVE OneWinner'
  BY <1>4 DEF Release, DropArc
<1>5. ASSUME CallWait PROVE OneWinner'
  BY <1>5 DEF CallWait
<1>6. ASSUME NEW l \in {"lock", "poll"}, TakeResult(l) PROVE OneWinner'
  BY <1>6 DEF TakeResult
<1>7. ASSUME GiveUp PROVE OneWinner'
  BY <1>7 DEF GiveUp
<1>8. ASSUME Block PROVE OneWinner'
  BY <1>8 DEF Block
<1>9. ASSUME WakeUp PROVE OneWinner'
  BY <1>9 DEF WakeUp
<1>10. ASSUME Expire PROVE OneWinner'
  BY <1>10 DEF Expire
<1>11. ASSUME NEW w \in Wakers \cup {current}, BeginPoll(w), handle \in {"idle", "pending"} PROVE OneWinner'
  BY <1>11 DEF BeginPoll
<1>12. ASSUME PollPending PROVE OneWinner'
  BY <1>12 DEF PollPending
<1>13. ASSUME Leave PROVE OneWinner'
  BY <1>13 DEF Leave, DropArc
<1>14. ASSUME DropHandle PROVE OneWinner'
  BY <1>14 DEF DropHandle, DropArc
<1>15. CASE UNCHANGED vars
  BY <1>15 DEF vars
<1> QED
  BY <1>1, <1>2, <1>3, <1>4, <1>5, <1>6, <1>7, <1>8, <1>9, <1>10, <1>11, <1>12, <1>13, <1>14, <1>15
     DEF Next, Continue, Wait, Poll, TimeoutWakeup, SpuriousWakeup, PollFirst, PollAgain, PollUnasked, Freed

\* The count follows the winner and the handle.
LEMMA OwnedStep == CompletionInv /\ [Next]_vars => Owned'
<1> SUFFICES ASSUME CompletionInv, [Next]_vars PROVE Owned'
  OBVIOUS
<1> USE CompletionAssumption DEF Inner, Call, Owner, History, Goto, Working, CompletionInv, CompletionTypes, OneWinner, Owned, ContextHeld
<1>1. ASSUME NEW k \in Callbacks, Swap(k) PROVE Owned'
  BY <1>1 DEF Swap
<1>2. ASSUME NEW k \in Callbacks, Store(k) PROVE Owned'
  BY <1>2 DEF Store
<1>3. ASSUME NEW k \in Callbacks, Notify(k) PROVE Owned'
  BY <1>3 DEF Notify
<1>4. ASSUME NEW k \in Callbacks, Release(k) PROVE Owned'
  BY <1>4 DEF Release, DropArc
<1>5. ASSUME CallWait PROVE Owned'
  BY <1>5 DEF CallWait
<1>6. ASSUME NEW l \in {"lock", "poll"}, TakeResult(l) PROVE Owned'
  BY <1>6 DEF TakeResult
<1>7. ASSUME GiveUp PROVE Owned'
  BY <1>7 DEF GiveUp
<1>8. ASSUME Block PROVE Owned'
  BY <1>8 DEF Block
<1>9. ASSUME WakeUp PROVE Owned'
  BY <1>9 DEF WakeUp
<1>10. ASSUME Expire PROVE Owned'
  BY <1>10 DEF Expire
<1>11. ASSUME NEW w \in Wakers \cup {current}, BeginPoll(w), handle \in {"idle", "pending"} PROVE Owned'
  BY <1>11 DEF BeginPoll
<1>12. ASSUME PollPending PROVE Owned'
  BY <1>12 DEF PollPending
<1>13. ASSUME Leave PROVE Owned'
  BY <1>13 DEF Leave, DropArc
<1>14. ASSUME DropHandle PROVE Owned'
  BY <1>14 DEF DropHandle, DropArc
<1>15. CASE UNCHANGED vars
  BY <1>15 DEF vars
<1> QED
  BY <1>1, <1>2, <1>3, <1>4, <1>5, <1>6, <1>7, <1>8, <1>9, <1>10, <1>11, <1>12, <1>13, <1>14, <1>15
     DEF Next, Continue, Wait, Poll, TimeoutWakeup, SpuriousWakeup, PollFirst, PollAgain, PollUnasked, Freed

\* The winner's result moves from the slot to the owner, or is dropped.
LEMMA ResultPlacedStep == CompletionInv /\ [Next]_vars => ResultPlaced'
<1> SUFFICES ASSUME CompletionInv, [Next]_vars PROVE ResultPlaced'
  OBVIOUS
<1> USE CompletionAssumption DEF Inner, Call, Owner, History, Goto, Working, Stored, CompletionInv, CompletionTypes, OneWinner, Owned, ContextHeld, ResultPlaced
<1>1. ASSUME NEW k \in Callbacks, Swap(k) PROVE ResultPlaced'
  BY <1>1 DEF Swap
<1>2. ASSUME NEW k \in Callbacks, Store(k) PROVE ResultPlaced'
  BY <1>2 DEF Store
<1>3. ASSUME NEW k \in Callbacks, Notify(k) PROVE ResultPlaced'
  BY <1>3 DEF Notify
<1>4. ASSUME NEW k \in Callbacks, Release(k) PROVE ResultPlaced'
  BY <1>4 DEF Release, DropArc
<1>5. ASSUME CallWait PROVE ResultPlaced'
  BY <1>5 DEF CallWait
<1>6. ASSUME NEW l \in {"lock", "poll"}, TakeResult(l) PROVE ResultPlaced'
  BY <1>6 DEF TakeResult
<1>7. ASSUME GiveUp PROVE ResultPlaced'
  BY <1>7 DEF GiveUp
<1>8. ASSUME Block PROVE ResultPlaced'
  BY <1>8 DEF Block
<1>9. ASSUME WakeUp PROVE ResultPlaced'
  BY <1>9 DEF WakeUp
<1>10. ASSUME Expire PROVE ResultPlaced'
  BY <1>10 DEF Expire
<1>11. ASSUME NEW w \in Wakers \cup {current}, BeginPoll(w), handle \in {"idle", "pending"} PROVE ResultPlaced'
  BY <1>11 DEF BeginPoll
<1>12. ASSUME PollPending PROVE ResultPlaced'
  BY <1>12 DEF PollPending
<1>13. ASSUME Leave PROVE ResultPlaced'
  BY <1>13 DEF Leave, DropArc
<1>14. ASSUME DropHandle PROVE ResultPlaced'
  BY <1>14 DEF DropHandle, DropArc
<1>15. CASE UNCHANGED vars
  BY <1>15 DEF vars
<1> QED
  BY <1>1, <1>2, <1>3, <1>4, <1>5, <1>6, <1>7, <1>8, <1>9, <1>10, <1>11, <1>12, <1>13, <1>14, <1>15
     DEF Next, Continue, Wait, Poll, TimeoutWakeup, SpuriousWakeup, PollFirst, PollAgain, PollUnasked, Freed

\* Only the owner empties the slot while the handle is there.
LEMMA KeptInTimeStep == CompletionInv /\ [Next]_vars => KeptInTime'
<1> SUFFICES ASSUME CompletionInv, [Next]_vars PROVE KeptInTime'
  OBVIOUS
<1> USE CompletionAssumption DEF Inner, Call, Owner, History, Goto, Working, CompletionInv, CompletionTypes, OneWinner, Owned, ContextHeld, KeptInTime
<1>1. ASSUME NEW k \in Callbacks, Swap(k) PROVE KeptInTime'
  BY <1>1 DEF Swap
<1>2. ASSUME NEW k \in Callbacks, Store(k) PROVE KeptInTime'
  BY <1>2 DEF Store
<1>3. ASSUME NEW k \in Callbacks, Notify(k) PROVE KeptInTime'
  BY <1>3 DEF Notify
<1>4. ASSUME NEW k \in Callbacks, Release(k) PROVE KeptInTime'
  BY <1>4 DEF Release, DropArc
<1>5. ASSUME CallWait PROVE KeptInTime'
  BY <1>5 DEF CallWait
<1>6. ASSUME NEW l \in {"lock", "poll"}, TakeResult(l) PROVE KeptInTime'
  BY <1>6 DEF TakeResult
<1>7. ASSUME GiveUp PROVE KeptInTime'
  BY <1>7 DEF GiveUp
<1>8. ASSUME Block PROVE KeptInTime'
  BY <1>8 DEF Block
<1>9. ASSUME WakeUp PROVE KeptInTime'
  BY <1>9 DEF WakeUp
<1>10. ASSUME Expire PROVE KeptInTime'
  BY <1>10 DEF Expire
<1>11. ASSUME NEW w \in Wakers \cup {current}, BeginPoll(w), handle \in {"idle", "pending"} PROVE KeptInTime'
  BY <1>11 DEF BeginPoll
<1>12. ASSUME PollPending PROVE KeptInTime'
  BY <1>12 DEF PollPending
<1>13. ASSUME Leave PROVE KeptInTime'
  BY <1>13 DEF Leave, DropArc
<1>14. ASSUME DropHandle PROVE KeptInTime'
  BY <1>14 DEF DropHandle, DropArc
<1>15. CASE UNCHANGED vars
  BY <1>15 DEF vars
<1> QED
  BY <1>1, <1>2, <1>3, <1>4, <1>5, <1>6, <1>7, <1>8, <1>9, <1>10, <1>11, <1>12, <1>13, <1>14, <1>15
     DEF Next, Continue, Wait, Poll, TimeoutWakeup, SpuriousWakeup, PollFirst, PollAgain, PollUnasked, Freed

\* The owner gives up after its time, when it has found the slot empty.
LEMMA TimeoutStep == CompletionInv /\ [Next]_vars => TimeoutIsLate'
<1> SUFFICES ASSUME CompletionInv, [Next]_vars PROVE TimeoutIsLate'
  OBVIOUS
<1> USE CompletionAssumption DEF Inner, Call, Owner, History, Goto, Working, CompletionInv, CompletionTypes, KeptInTime, TimeoutIsLate
<1>1. ASSUME NEW k \in Callbacks, Swap(k) PROVE TimeoutIsLate'
  BY <1>1 DEF Swap
<1>2. ASSUME NEW k \in Callbacks, Store(k) PROVE TimeoutIsLate'
  BY <1>2 DEF Store
<1>3. ASSUME NEW k \in Callbacks, Notify(k) PROVE TimeoutIsLate'
  BY <1>3 DEF Notify
<1>4. ASSUME NEW k \in Callbacks, Release(k) PROVE TimeoutIsLate'
  BY <1>4 DEF Release, DropArc
<1>5. ASSUME CallWait PROVE TimeoutIsLate'
  BY <1>5 DEF CallWait
<1>6. ASSUME NEW l \in {"lock", "poll"}, TakeResult(l) PROVE TimeoutIsLate'
  BY <1>6 DEF TakeResult
<1>7. ASSUME GiveUp PROVE TimeoutIsLate'
  BY <1>7 DEF GiveUp
<1>8. ASSUME Block PROVE TimeoutIsLate'
  BY <1>8 DEF Block
<1>9. ASSUME WakeUp PROVE TimeoutIsLate'
  BY <1>9 DEF WakeUp
<1>10. ASSUME Expire PROVE TimeoutIsLate'
  BY <1>10 DEF Expire
<1>11. ASSUME NEW w \in Wakers \cup {current}, BeginPoll(w), handle \in {"idle", "pending"} PROVE TimeoutIsLate'
  BY <1>11 DEF BeginPoll
<1>12. ASSUME PollPending PROVE TimeoutIsLate'
  BY <1>12 DEF PollPending
<1>13. ASSUME Leave PROVE TimeoutIsLate'
  BY <1>13 DEF Leave, DropArc
<1>14. ASSUME DropHandle PROVE TimeoutIsLate'
  BY <1>14 DEF DropHandle, DropArc
<1>15. CASE UNCHANGED vars
  BY <1>15 DEF vars
<1> QED
  BY <1>1, <1>2, <1>3, <1>4, <1>5, <1>6, <1>7, <1>8, <1>9, <1>10, <1>11, <1>12, <1>13, <1>14, <1>15
     DEF Next, Continue, Wait, Poll, TimeoutWakeup, SpuriousWakeup, PollFirst, PollAgain, PollUnasked, Freed

LEMMA CompletionInvariance == Spec => []CompletionInv
<1>1. CompletionInv /\ [Next]_vars => CompletionInv'
  BY CompletionTypesStep, WinnerStep, OwnedStep, ResultPlacedStep, KeptInTimeStep, TimeoutStep DEF CompletionInv
<1> QED
  BY <1>1, InitCompletionInv, PTL DEF Spec

\* The count of the Arc is the owner's reference and the context's, whatever the
\* duplicates and the owner do in between: what a callback touches after it has
\* given the mutex back is still allocated.
THEOREM ReferencesAreKept == Spec => []References
<1>1. CompletionInv => References
  <2> SUFFICES ASSUME CompletionInv PROVE References
    OBVIOUS
  <2> DEFINE working == {k \in Callbacks : pc[k] \in {"store", "notify", "release"}}
  <2> USE DEF CompletionInv, CompletionTypes, OneWinner, Working, Owned, ContextHeld
  <2>1. CASE first = NoCallback
    BY <2>1 DEF References
  <2>2. CASE first \in Callbacks /\ pc[first] \in Working
    <3>1. working = {first}
      BY <2>2
    <3>2. Cardinality(working) = 1
      BY <3>1, FS_Singleton
    <3> QED
      BY <3>2, <2>2, CompletionAssumption DEF References
  <2>3. CASE first \in Callbacks /\ pc[first] \notin Working
    <3>1. working = {}
      BY <2>3
    <3>2. Cardinality(working) = 0
      BY <3>1, FS_EmptySet
    <3> QED
      BY <3>2, <2>3, CompletionAssumption DEF References
  <2> QED
    BY <2>1, <2>2, <2>3
<1> QED
  BY <1>1, CompletionInvariance, PTL

\* The owner is answered with the first callback's result or not at all, and a
\* stored result is in the slot, with the owner or dropped, never in two places
\* and never lost: no order of duplicates, give-up and drop changes that.
THEOREM FirstResultWins == Spec => []FirstResultIsAnswer
<1>1. CompletionInv => FirstResultIsAnswer
  <2> SUFFICES ASSUME CompletionInv PROVE FirstResultIsAnswer
    OBVIOUS
  <2> USE DEF CompletionInv, CompletionTypes, OneWinner, ResultPlaced, Working, Stored
  <2>1. answer \in Callbacks => answer = first
    OBVIOUS
  <2>2. ASSUME NEW k \in Callbacks, pc[k] \in Stored
        PROVE  Cardinality({p \in {"slot", "answer", "dropped"} :
                   \/ p = "slot" /\ result = k
                   \/ p = "answer" /\ answer = k
                   \/ p = "dropped" /\ k \in dropped}) = 1
    <3> DEFINE places == {p \in {"slot", "answer", "dropped"} :
                   \/ p = "slot" /\ result = k
                   \/ p = "answer" /\ answer = k
                   \/ p = "dropped" /\ k \in dropped}
    <3>1. \/ result = k /\ answer # k /\ k \notin dropped
          \/ result # k /\ answer = k /\ k \notin dropped
          \/ result # k /\ answer # k /\ k \in dropped
      BY <2>2, CompletionAssumption
    <3>2. \/ places = {"slot"} \/ places = {"answer"} \/ places = {"dropped"}
      BY <3>1
    <3>3. Cardinality(places) = 1
      BY <3>2, FS_Singleton
    <3> QED
      BY <3>3
  <2> QED
    BY <2>1, <2>2 DEF FirstResultIsAnswer
<1> QED
  BY <1>1, CompletionInvariance, PTL

\* wait_timeout answers None only after its time and never for a result that was
\* stored in time, however the wakeups of the condition variable fall.
THEOREM TimeoutsAreLate == Spec => []TimeoutIsLate
<1>1. CompletionInv => TimeoutIsLate
  BY DEF CompletionInv
<1> QED
  BY <1>1, CompletionInvariance, PTL

=============================================================================
