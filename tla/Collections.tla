-------------------------------- MODULE Collections -------------------------------
(***************************************************************************)
(* The collections of src/collections side by side, for model checking.    *)
(* A behaviour is one of a SlotMap with its SecondaryMap, or one of a      *)
(* SmallVec or ArrayVec; they share nothing, so `part` chooses which one   *)
(* moves and the other stays as it was made.                               *)
(***************************************************************************)
EXTENDS SlotMap

CONSTANTS Cap, Kinds, MaxElements

ASSUME CollectionsAssumption == Cap \in Nat /\ MaxElements \in Nat

VARIABLES part, self, iter, made, gone, leaky, model, rest

V == INSTANCE SmallVec
vectors == <<self, iter, made, gone, leaky, model, rest>>

CollectionsInit == part \in {"slot_map", "small_vec"} /\ Init /\ V!Init

CollectionsNext ==
    /\ UNCHANGED part
    /\ \/ part = "slot_map" /\ Next /\ UNCHANGED vectors
       \/ part = "small_vec" /\ V!Next /\ UNCHANGED vars

CollectionsSpec == CollectionsInit /\ [][CollectionsNext]_<<part, vars, vectors>>

\* Every element of a SmallVec or ArrayVec has one owner, or was dropped or given
\* away once, whatever its calls moved, and is lost only to a panic.
OwnedOnce == V!OwnedOnce

\* The vector and its iterator hold the sequence that the calls made of them,
\* inline as on the heap.
HoldsItsSequence == V!HoldsItsSequence
=============================================================================
