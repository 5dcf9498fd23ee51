-------------------------------- MODULE ForeignCalls ------------------------------
(***************************************************************************)
(* The parts of the crate that stand between Rust and foreign code, side   *)
(* by side for model checking: a completion, a callback context, a call    *)
(* under panic_safe, a string call, and the parser of the JSON texts that  *)
(* come across.  Each behaviour is one of one of them; they share nothing, *)
(* so `part` chooses the one that moves.                                   *)
(***************************************************************************)
EXTENDS Completion, ForeignParts, Json

VARIABLE part

foreignVars == <<part, vars, contextVars, panicVars, stringVars, json>>

ForeignInit ==
    /\ part \in {"completion", "context", "panic", "string", "json"}
    /\ Init /\ Context!Init /\ Panic!Init /\ Text!Init /\ Start
    /\ part # "completion" => kind = "sync"     \* one idle completion is enough

ForeignNext ==
    /\ UNCHANGED part
    /\ \/ part = "completion" /\ Next /\ UNCHANGED <<contextVars, panicVars, stringVars, json>>
       \/ part = "context" /\ Context!Next /\ UNCHANGED <<vars, panicVars, stringVars, json>>
       \/ part = "panic" /\ Panic!Next /\ UNCHANGED <<vars, contextVars, stringVars, json>>
       \/ part = "string" /\ Text!Next /\ UNCHANGED <<vars, contextVars, panicVars, json>>
       \/ part = "json" /\ Parse /\ UNCHANGED <<vars, contextVars, panicVars, stringVars>>

\* The fairness of Completion, whose variables only its own part changes
ForeignSpec == ForeignInit /\ [][ForeignNext]_foreignVars /\ Fairness
=============================================================================
