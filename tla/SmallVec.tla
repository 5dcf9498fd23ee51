---------------------------------- MODULE SmallVec --------------------------------
(***************************************************************************)
(* src/collections/array_vec.rs and small_vec.rs: ArrayVec, an array of    *)
(* Cap cells of which the first len are initialised, and SmallVec, which   *)
(* is an ArrayVec until it must grow and a Vec from then on.               *)
(*                                                                         *)
(* Moving an element out of a cell leaves its bits behind, so the cells    *)
(* past len hold elements that somebody else owns.  An element is an       *)
(* identity and what == sees of it.  What std::vec::Vec does is external.  *)
(*                                                                         *)
(* Everything runs on one thread and the user's code that it calls (Drop,  *)
(* keep, an iterator) cannot see the vector, so an operation is one        *)
(* action; its failures are further outcomes of it.                        *)
(***************************************************************************)
EXTENDS Naturals, Sequences, FiniteSets, SequencesExt

CONSTANTS
    Cap,            \* CAP, N
    Kinds,          \* what == tells apart
    MaxElements     \* bound: the number of elements ever made

VARIABLES
    self,           \* the ArrayVec or SmallVec
    iter,           \* the IntoIter or Drain that was made last
    made,           \* number of elements made so far
    gone,           \* gone[id]: how often the element was dropped or given to the caller
    leaky,          \* a panic of the user's code has left elements without an owner
    model, rest     \* history: the sequences that self and iter should hold

Uninit == <<0, 0>>
None == [heap |-> FALSE, items |-> [i \in {} |-> Uninit], start |-> 0, end |-> 0]

\* ArrayVec::new and SmallVec::new
New(storage) ==
    [storage |-> storage, items |-> [i \in 0 .. Cap - 1 |-> Uninit], len |-> 0, vec |-> <<>>]

Init ==
    /\ self = New("array")
    /\ iter = None
    /\ made = 0
    /\ gone = [id \in 1 .. MaxElements |-> 0]
    /\ leaky = FALSE
    /\ model = <<>> /\ rest = <<>>

IsHeap(s) == s.storage = "heap"
as_slice(s) == IF IsHeap(s) THEN s.vec ELSE [i \in 1 .. s.len |-> s.items[i - 1]]
Size == Len(as_slice(self))
Remaining(it) == [i \in 1 .. it.end - it.start |-> it.items[it.start + i - 1]]

-----------------------------------------------------------------------------
(* The operations as functions of the vector                               *)

\* The elements are drained into a Vec, and an empty array is dropped.
heap(s) == IF IsHeap(s) THEN s ELSE [s EXCEPT !.storage = "heap", !.vec = as_slice(s), !.len = 0]

push(s, e) ==
    IF IsHeap(s) \/ s.len = Cap
    THEN [heap(s) EXCEPT !.vec = Append(@, e)]
    ELSE [s EXCEPT !.items[s.len] = e, !.len = @ + 1]

\* extend's loop: the elements of q are pushed one after the other.
Pushed(s, q) ==
    LET after[n \in 0 .. Len(q)] == IF n = 0 THEN s ELSE push(after[n - 1], q[n])
    IN  after[Len(q)]

reserve(s, additional) == IF ~IsHeap(s) /\ s.len + additional <= Cap THEN s ELSE heap(s)

remove(s, i) ==
    IF IsHeap(s)
    THEN [s EXCEPT !.vec = RemoveAt(@, i + 1)]
    ELSE [s EXCEPT !.len = @ - 1,
                   !.items = [j \in DOMAIN @ |-> IF j \in i .. s.len - 2 THEN @[j + 1] ELSE @[j]]]

insert(s, i, e) ==
    [s EXCEPT !.len = @ + 1,
              !.items = [j \in DOMAIN @ |-> CASE j = i -> e
                                              [] j \in i + 1 .. s.len -> @[j - 1]
                                              [] OTHER -> @[j]]]

\* Down to n elements, that is, n pops.
truncate(s, n) == IF IsHeap(s) THEN [s EXCEPT !.vec = SubSeq(@, 1, n)] ELSE [s EXCEPT !.len = n]

\* The loop of ArrayVec::retain after n elements; those at `kept` were kept.
RetainLoop(s, n, kept) ==
    LET after[i \in 0 .. n] ==
            IF i = 0
            THEN [s EXCEPT !.len = 0]
            ELSE LET p == after[i - 1]
                 IN  IF i - 1 \in kept
                     THEN [p EXCEPT !.items[p.len] = p.items[i - 1], !.len = @ + 1]
                     ELSE p
    IN  after[n]

\* Altered form: len keeps its value until the loop is through.
retain_late(s, n, kept) ==
    IF n < s.len THEN [RetainLoop(s, n, kept) EXCEPT !.len = s.len] ELSE RetainLoop(s, n, kept)

\* len is 0 at first: what is left when keep or a drop panics is forgotten.
retain(s, n, kept) == RetainLoop(s, n, kept)

\* dedup's loop over the slice: <<slice, kept>>
Swap(q, i, j) == [n \in DOMAIN q |-> CASE n = i -> q[j] [] n = j -> q[i] [] OTHER -> q[n]]

\* Altered form: an element is compared with the one before it.
dedup_neighbours(slice) ==
    LET after[n \in 1 .. Len(slice) + 1] ==
            IF n = 1
            THEN <<slice, 1>>
            ELSE LET q == after[n - 1][1]  kept == after[n - 1][2]
                 IN  IF n <= Len(slice) /\ q[n][2] # q[n - 1][2]
                     THEN <<Swap(q, kept + 1, n), kept + 1>>
                     ELSE after[n - 1]
    IN  after[Len(slice) + 1]

dedup(slice) ==
    LET after[n \in 1 .. Len(slice) + 1] ==
            IF n = 1
            THEN <<slice, 1>>
            ELSE LET q == after[n - 1][1]  kept == after[n - 1][2]
                 IN  IF n <= Len(slice) /\ q[n][2] # q[kept][2]
                     THEN <<Swap(q, kept + 1, n), kept + 1>>
                     ELSE after[n - 1]
    IN  after[Len(slice) + 1]

WithSlice(s, q) ==
    IF IsHeap(s) THEN [s EXCEPT !.vec = q]
    ELSE [s EXCEPT !.items = [j \in DOMAIN @ |-> IF j < s.len THEN q[j + 1] ELSE @[j]]]

\* drain(a .. b): what stays, and the iterator with what was moved out
drain(s, a, b) ==
    IF IsHeap(s)
    THEN [s EXCEPT !.vec = SubSeq(@, 1, a) \o SubSeq(@, b + 1, Len(@))]
    ELSE [s EXCEPT !.len = @ - (b - a),
                   !.items = [j \in DOMAIN @ |-> IF j \in a .. a + s.len - b - 1 THEN @[j + b - a] ELSE @[j]]]

IterOf(s, a, b) ==
    [heap |-> IsHeap(s), start |-> 0, end |-> b - a,
     items |-> [j \in 0 .. b - a - 1 |-> as_slice(s)[a + j + 1]]]

-----------------------------------------------------------------------------
(* Calls                                                                   *)

\* n elements that are not in the vector yet
Fresh(n) == {[i \in 1 .. n |-> <<made + i, ks[i]>>] : ks \in [1 .. n -> Kinds]}

\* How often the element `id` is in q
Times(q, id) == Cardinality({i \in DOMAIN q : q[i][1] = id})

\* The elements of q are dropped or given to the caller.
Leaves(q) == gone' = [id \in DOMAIN gone |-> gone[id] + Times(q, id)]

\* The elements of q at the places `idx`, counted from 0
Nth(idx, j) == CHOOSE i \in idx : Cardinality({k \in idx : k < i}) = j - 1
Picked(q, idx) == [j \in 1 .. Cardinality(idx) |-> q[Nth(idx, j) + 1]]

\* A Drain borrows the vector.
Idle == iter = None
IsArray == self.storage = "array"
NoPanic == UNCHANGED leaky
OnlySelf == UNCHANGED <<iter, rest>>

\* drop, which runs the destructor of every element even if one panics; and a
\* new ArrayVec or SmallVec
DropVec(storage) ==
    /\ Idle
    /\ self' = New(storage)
    /\ Leaves(as_slice(self))
    /\ model' = <<>>
    /\ UNCHANGED made /\ NoPanic /\ OnlySelf

\* ArrayVec's push, extend and collect: of n elements those that find it full are
\* dropped in a panic.
ArrayExtend(n) ==
    /\ Idle /\ IsArray /\ made + n <= MaxElements
    /\ \E q \in Fresh(n) :
          LET fits == IF Size + n > Cap THEN Cap - Size ELSE n
          IN  /\ self' = Pushed(self, SubSeq(q, 1, fits))
              /\ Leaves(SubSeq(q, fits + 1, n))
              /\ model' = model \o SubSeq(q, 1, fits)
    /\ made' = made + n
    /\ NoPanic /\ OnlySelf

\* SmallVec's extend and collect first make room for the iterator's size hint.
Extend(n, hint) ==
    /\ Idle /\ ~IsArray /\ made + n <= MaxElements
    /\ \E q \in Fresh(n) :
          /\ self' = Pushed(reserve(self, hint), q)
          /\ model' = model \o q
    /\ made' = made + n
    /\ UNCHANGED gone /\ NoPanic /\ OnlySelf

Push == Extend(1, 0)

Reserve(additional) ==
    /\ Idle /\ ~IsArray
    /\ self' = reserve(self, additional)
    /\ UNCHANGED <<made, gone, model>> /\ NoPanic /\ OnlySelf

\* From<Vec>: a Vec of a small capacity is collected inline.
FromVec(n, capacity) ==
    /\ Idle /\ ~IsArray /\ Size = 0 /\ made + n <= MaxElements
    /\ n <= capacity
    /\ \E q \in Fresh(n) :
          /\ self' = IF capacity <= Cap
                     THEN Pushed(reserve(New("inline"), n), q)
                     ELSE [New("heap") EXCEPT !.vec = q]
          /\ model' = q
    /\ made' = made + n
    /\ UNCHANGED gone /\ NoPanic /\ OnlySelf

\* ArrayVec::insert; out of bounds, or into a full array, it changes nothing.
Insert(i) ==
    /\ Idle /\ IsArray /\ Size < Cap /\ i <= Size /\ made < MaxElements
    /\ \E q \in Fresh(1) : self' = insert(self, i, q[1]) /\ model' = InsertAt(model, i + 1, q[1])
    /\ made' = made + 1
    /\ UNCHANGED gone /\ NoPanic /\ OnlySelf

RemoveElement(i) ==
    /\ Idle /\ ~IsArray /\ i < Size
    /\ self' = remove(self, i)
    /\ Leaves(<<as_slice(self)[i + 1]>>)
    /\ model' = RemoveAt(model, i + 1)
    /\ UNCHANGED made /\ NoPanic /\ OnlySelf

\* The elements are popped one by one down to n; a drop that panics ends this at
\* `stop`, but a Vec drops all in any case.
Truncated(s, n, stop) ==
    LET m == IF IsHeap(s) THEN n ELSE stop
    IN  self' = truncate(s, m) /\ Leaves(SubSeq(as_slice(s), m + 1, Size))

\* pop, truncate and clear; of these an ArrayVec offers pop and clear.
Truncate(n, stop) ==
    /\ Idle /\ n < Size /\ stop \in n .. Size - 1
    /\ IsArray => n = 0 \/ n = Size - 1
    /\ Truncated(self, n, stop)
    /\ model' = SubSeq(model, 1, IF IsHeap(self) THEN n ELSE stop)
    /\ UNCHANGED made /\ NoPanic /\ OnlySelf

Dedup(stop) ==
    /\ Idle /\ ~IsArray /\ Size > 0
    /\ LET d == dedup(as_slice(self))
       IN  /\ stop = d[2] \/ stop \in d[2] .. Size - 1
           /\ Truncated(WithSlice(self, d[1]), d[2], stop)
           /\ model' = IF stop = d[2] \/ IsHeap(self)
                       THEN Picked(model, {i \in 0 .. Size - 1 : i = 0 \/ model[i + 1][2] # model[i][2]})
                       ELSE SubSeq(d[1], 1, stop)
    /\ UNCHANGED made /\ NoPanic /\ OnlySelf

\* retain sees n elements: all, or up to one whose test or drop panics, which is
\* dropped then.  A Vec that panics keeps what it has not dropped, as if
\* the rest had passed the test.
Retain(n, kept) ==
    /\ Idle /\ ~IsArray /\ n \in 1 .. Size /\ kept \subseteq 0 .. n - 1
    /\ n < Size => ~IsHeap(self) /\ n - 1 \notin kept
    /\ self' = IF IsHeap(self) THEN [self EXCEPT !.vec = Picked(@, kept)] ELSE retain(self, n, kept)
    /\ Leaves(Picked(as_slice(self), (0 .. n - 1) \ kept))
    /\ leaky' = (leaky \/ n < Size)
    /\ model' = Picked(model, kept)
    /\ UNCHANGED made /\ OnlySelf

\* into_iter, and drain of a range: the elements are moved into the iterator.
IntoIter ==
    /\ Idle /\ Size > 0
    /\ self' = New(IF IsArray THEN "array" ELSE "inline")
    /\ iter' = IterOf(self, 0, Size)
    /\ model' = <<>> /\ rest' = model
    /\ UNCHANGED <<made, gone>> /\ NoPanic

Drain(a, b) ==
    /\ Idle /\ a < b /\ b <= Size
    /\ self' = drain(self, a, b)
    /\ iter' = IterOf(self, a, b)
    /\ model' = SubSeq(model, 1, a) \o SubSeq(model, b + 1, Len(model))
    /\ rest' = SubSeq(model, a + 1, b)
    /\ UNCHANGED <<made, gone>> /\ NoPanic

next ==
    /\ iter.start # iter.end
    /\ iter' = [iter EXCEPT !.start = @ + 1]
    /\ Leaves(<<iter.items[iter.start]>>)
    /\ rest' = Tail(rest)
    /\ UNCHANGED <<self, made, model>> /\ NoPanic

next_back ==
    /\ iter.start # iter.end
    /\ iter' = [iter EXCEPT !.end = @ - 1]
    /\ Leaves(<<iter.items[iter.end - 1]>>)
    /\ rest' = Front(rest)
    /\ UNCHANGED <<self, made, model>> /\ NoPanic

\* The rest is dropped up to `stop`, where a drop may panic: array_vec::IntoIter
\* forgets what comes after it, those of Vec do not.
DropIter(stop) ==
    LET q == Remaining(iter)
    IN  /\ ~Idle /\ stop \in 0 .. Len(q)
        /\ stop < Len(q) => ~iter.heap /\ stop > 0
        /\ iter' = None
        /\ Leaves(SubSeq(q, 1, stop))
        /\ leaky' = (leaky \/ stop < Len(q))
        /\ rest' = <<>>
        /\ UNCHANGED <<self, made, model>>

-----------------------------------------------------------------------------

Next ==
    \/ \E storage \in {"array", "inline"} : DropVec(storage)
    \/ Push
    \/ \E n \in 0 .. MaxElements, hint \in 0 .. Cap + 1 : Extend(n, hint) \/ FromVec(n, Cap + hint)
    \/ \E n \in 0 .. MaxElements : Reserve(n) \/ Insert(n) \/ ArrayExtend(n) \/ RemoveElement(n)
    \/ \E n, stop \in 0 .. MaxElements : Truncate(n, stop) \/ Drain(n, stop)
    \/ \E stop \in 0 .. MaxElements : Dedup(stop) \/ DropIter(stop)
    \/ \E n \in 1 .. MaxElements : \E kept \in SUBSET (0 .. n - 1) : Retain(n, kept)
    \/ IntoIter \/ next \/ next_back

-----------------------------------------------------------------------------
(* Properties                                                              *)

\* Every element has one owner: it is in the vector, or in the iterator, or has
\* been dropped or handed to the caller, once.  None is dropped twice although
\* moved elements leave their bits behind in the cells, and none is lost
\* except to a panic of the user's code.
OwnedOnce ==
    \A id \in 1 .. made :
        LET owners == gone[id] + Times(as_slice(self), id) + Times(Remaining(iter), id)
        IN  owners <= 1 /\ (owners = 0 => leaky)

\* The vector is the sequence its calls made of it, on whichever side of the
\* inline capacity it is, and so is what the iterator still has to give.
HoldsItsSequence == as_slice(self) = model /\ Remaining(iter) = rest
=============================================================================
