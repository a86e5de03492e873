-------------------------------- MODULE Vec --------------------------------
(***************************************************************************)
(* std/vec.zc: a growable array.  A program makes any sequence of calls on *)
(* the vectors in Handle; a call that panics ends it (`exited`).           *)
(*                                                                         *)
(* Iterators copy data and len and are only modelled as loops over an      *)
(* unchanged vector: for, forEach and fold read what collect collects.     *)
(*                                                                         *)
(* The comment above pop (vec.zc:275) says that it returns 0 if the vector *)
(* is empty; the code ends the program, and that is what is modelled.      *)
(***************************************************************************)
EXTENDS Buffers

CONSTANTS Handle,   \* the vectors of the program
          Nothing,  \* what void functions return, and Option::None
          MinCap,   \* the first capacity: 8 in the code
          MaxLen,   \* the longest vector a program builds (a bound)
          Times     \* the factors it multiplies vectors by (a bound)

VecAssumption == /\ Nothing \notin Val \cup {Junk}
                 /\ MinCap \in Nat \ {0} /\ MaxLen \in Nat /\ Times \subseteq Nat

VARIABLES vec,     \* the struct Vec of every handle
          ret,     \* what the last call returned
          exited   \* a panic has ended the program

vars == <<vec, ret, exited>>

New == [data |-> Alloc(0), len |-> 0, cap |-> 0]

WithCapacity(n) == [data |-> Alloc(n), len |-> 0, cap |-> n]

Grow(v) ==
    LET cap == IF v.cap = 0 THEN MinCap ELSE 2 * v.cap
    IN  [v EXCEPT !.data = Realloc(v.data, cap), !.cap = cap]

\* Mutant: the capacity is doubled once.
DoubledOnce(cap, n) == IF cap = 0 THEN MinCap ELSE 2 * cap

\* The capacity found by doubling until n items fit, which fewer than n rounds achieve.
Doubled(cap, n) ==
    LET grown[k \in 0..n] == IF k = 0 THEN IF cap = 0 THEN MinCap ELSE cap
                             ELSE IF grown[k - 1] < n THEN 2 * grown[k - 1] ELSE grown[k - 1]
    IN  grown[n]

GrowToFit(v, n) ==
    IF v.cap >= n THEN v
    ELSE LET cap == Doubled(v.cap, n)
         IN  [v EXCEPT !.data = Realloc(v.data, cap), !.cap = cap]

Room(v) == IF v.len >= v.cap THEN Grow(v) ELSE v

Pushed(v, x) ==
    LET w == Room(v) IN [w EXCEPT !.data = Store(w.data, w.len, x), !.len = @ + 1]

Inserted(v, i, x) ==
    LET w == Room(v)
        shifted == IF i < w.len THEN Copied(w.data, i + 1, w.data, i, w.len - i) ELSE w.data
    IN  [w EXCEPT !.data = Store(shifted, i, x), !.len = @ + 1]

Removed(v, i) ==
    LET shifted == IF i < v.len - 1 THEN Copied(v.data, i, v.data, i + 1, v.len - i - 1)
                   ELSE v.data
    IN  [v EXCEPT !.data = Dropped(shifted, v.len - 1), !.len = @ - 1]

Appended(v, other) ==
    LET w == GrowToFit(v, v.len + other.len)
    IN  [w EXCEPT !.data = Copied(w.data, w.len, other.data, 0, other.len),
                  !.len = @ + other.len]

Cloned(v) ==
    IF v.len = 0 THEN New
    ELSE [data |-> Copied(Alloc(v.len), 0, v.data, 0, v.len), len |-> v.len, cap |-> v.len]

\* collect: a vector grown to the items that remain, which are pushed on it.
Collected(v) ==
    LET out == IF v.len > 0 THEN GrowToFit(New, v.len) ELSE New
    IN  [out EXCEPT !.data = Copied(out.data, 0, v.data, 0, v.len), !.len = v.len]

\* v * n, where each copy of v is appended, and v *= n, where v is copied in place.
Repeated(v, n) ==
    LET result[k \in 0..n] == IF k = 0 THEN WithCapacity(v.len * n)
                              ELSE Appended(result[k - 1], Cloned(v))
    IN  result[n]

RepeatedInPlace(v, n) ==
    IF n = 0 THEN [v EXCEPT !.data = Dropped(v.data, 0), !.len = 0]
    ELSE LET w == GrowToFit(v, v.len * n)
         IN  [w EXCEPT !.data = [i \in DOMAIN w.data |->
                                    IF i < v.len * n THEN Load(w.data, i % v.len) ELSE w.data[i]],
                       !.len = v.len * n]

-----------------------------------------------------------------------------
Init == vec = [h \in Handle |-> New] /\ ret = Nothing /\ exited = FALSE

Set(h, v, r) == vec' = [vec EXCEPT ![h] = v] /\ ret' = r /\ UNCHANGED exited

\* A panic: the message and exit(1).
Panic == exited' = TRUE /\ UNCHANGED <<vec, ret>>

Push(h, x) == vec[h].len < MaxLen /\ Set(h, Pushed(vec[h], x), Nothing)

Insert(h, i, x) ==
    \/ i > vec[h].len /\ Panic
    \/ i <= vec[h].len /\ vec[h].len < MaxLen /\ Set(h, Inserted(vec[h], i, x), Nothing)

Pop(h) ==
    \/ vec[h].len = 0 /\ Panic
    \/ vec[h].len > 0 /\ LET n == vec[h].len - 1
                         IN  Set(h, [vec[h] EXCEPT !.data = Dropped(@, n), !.len = n],
                                 Load(vec[h].data, n))

PopOpt(h) == IF vec[h].len = 0 THEN Set(h, vec[h], Nothing) ELSE Pop(h)

Remove(h, i) ==
    \/ i >= vec[h].len /\ Panic
    \/ i < vec[h].len /\ Set(h, Removed(vec[h], i), Load(vec[h].data, i))

\* get, index and get_ref; first and last are the ends.
Get(h, i) ==
    \/ i >= vec[h].len /\ Panic
    \/ i < vec[h].len /\ Set(h, vec[h], Load(vec[h].data, i))

Put(h, i, x) ==
    \/ i >= vec[h].len /\ Panic
    \/ i < vec[h].len /\ Set(h, [vec[h] EXCEPT !.data = Store(@, i, x)], Nothing)

\* append takes the items of the other vector, which the caller gives up.
Append(h, g) ==
    /\ h # g /\ vec[h].len + vec[g].len <= MaxLen
    /\ vec' = [vec EXCEPT ![h] = Appended(vec[h], vec[g]), ![g] = New]
    /\ ret' = Nothing /\ UNCHANGED exited

AddAssign(h, g) ==
    /\ vec[h].len + vec[g].len <= MaxLen
    /\ Set(h, Appended(vec[h], Cloned(vec[g])), Nothing)

Add(r, h, g) ==
    /\ vec[h].len + vec[g].len <= MaxLen
    /\ Set(r, Appended(Cloned(vec[h]), Cloned(vec[g])), Nothing)

Mul(r, h, n) == vec[h].len * n <= MaxLen /\ Set(r, Repeated(vec[h], n), Nothing)

MulAssign(h, n) == vec[h].len * n <= MaxLen /\ Set(h, RepeatedInPlace(vec[h], n), Nothing)

\* The loop runs while i < j for j = len - 1 of an unsigned type: an empty vector must
\* not be reversed (the swaps would be far outside of its buffer).
Reverse(h) ==
    /\ vec[h].len > 0
    /\ Set(h, [vec[h] EXCEPT !.data = [i \in DOMAIN @ |-> IF i < vec[h].len
                                                          THEN Load(@, vec[h].len - 1 - i)
                                                          ELSE @[i]]], Nothing)

Clone(r, h) == Set(r, Cloned(vec[h]), Nothing)

Collect(r, h) == Set(r, Collected(vec[h]), Nothing)

Clear(h) == Set(h, [vec[h] EXCEPT !.data = Dropped(@, 0), !.len = 0], Nothing)

\* free, forget and drop; a vector made anew by with_capacity.
Free(h) == Set(h, New, Nothing)
Renew(h, n) == n <= MaxLen /\ Set(h, WithCapacity(n), Nothing)

Next ==
    /\ ~exited
    /\ \E h \in Handle :
        \/ Pop(h) \/ PopOpt(h) \/ Reverse(h) \/ Clear(h) \/ Free(h)
        \/ \E x \in Val : Push(h, x)
        \/ \E i \in 0..vec[h].len + 1 : Remove(h, i) \/ Get(h, i)
        \/ \E i \in 0..vec[h].len + 1, x \in Val : Insert(h, i, x) \/ Put(h, i, x)
        \/ \E g \in Handle : Append(h, g) \/ AddAssign(h, g) \/ Clone(h, g) \/ Collect(h, g)
        \/ \E n \in Times : MulAssign(h, n) \/ Renew(h, n)
        \/ \E g \in Handle, n \in Times : Mul(h, g, n)
        \/ \E g, k \in Handle : Add(h, g, k)

Spec == Init /\ [][Next]_vars

-----------------------------------------------------------------------------
\* The items of a vector, as a reader of the struct finds them.
Items(v) == [i \in 1..v.len |-> Load(v.data, i - 1)]

List == INSTANCE Lists WITH
            list <- [h \in Handle |-> Items(vec[h])],
            Calls <- {"pushBack", "popBack", "insert", "remove", "get", "set", "reverse",
                      "concat", "repeat", "copy", "clear"}

\* Every vector holds the sequence of items that the calls on it built, however often its
\* buffer was moved: inserting, removing, appending and repeating shift and copy the right
\* items, calls on one vector never show in another, and what is returned is that sequence's.
VecIsList == List!Spec
=============================================================================
