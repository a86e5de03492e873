------------------------------- MODULE Stack -------------------------------
(***************************************************************************)
(* std/stack.zc.  A program makes any sequence of calls on the stacks in   *)
(* Handle.  The comment above pop (stack.zc:49) says that an empty stack   *)
(* gives 0; the code gives Option::None, which is what is modelled.        *)
(***************************************************************************)
EXTENDS Buffers

CONSTANTS Handle,   \* the stacks of the program
          Nothing,  \* what void functions return, and Option::None
          MinCap,   \* the first capacity: 8 in the code
          MaxLen    \* the most values a program pushes on a stack (a bound)

StackAssumption == /\ Nothing \notin Val \cup {Junk}
                   /\ MinCap \in Nat \ {0} /\ MaxLen \in Nat

VARIABLES stk,  \* the struct Stack of every handle; null: its data is NULL
          ret   \* what the last call returned

vars == <<stk, ret>>

New == [data |-> Alloc(0), null |-> TRUE, len |-> 0, cap |-> 0]

\* Mutant: free resets the capacity that push doubles, but not the pointer.
FreedKeepsData(s) == [s EXCEPT !.data = Dropped(@, 0), !.len = 0, !.cap = 0]

\* free leaves the capacity as it is: push tests the pointer.
Freed(s) == [s EXCEPT !.data = Alloc(0), !.null = TRUE, !.len = 0]

\* push allocates when there is no buffer and doubles a full one.
Room(s) ==
    LET t == IF s.null THEN [s EXCEPT !.data = Alloc(MinCap), !.null = FALSE, !.cap = MinCap] ELSE s
    IN  IF t.len = t.cap THEN [t EXCEPT !.data = Realloc(@, 2 * t.cap), !.cap = 2 * @] ELSE t

Pushed(s, x) ==
    LET t == Room(s) IN [t EXCEPT !.data = Store(@, t.len, x), !.len = @ + 1]

Cloned(s) == [data |-> Copied(Alloc(s.cap), 0, s.data, 0, s.len), null |-> FALSE,
              len |-> s.len, cap |-> s.cap]

-----------------------------------------------------------------------------
Init == stk = [h \in Handle |-> New] /\ ret = Nothing

Set(h, s, r) == stk' = [stk EXCEPT ![h] = s] /\ ret' = r

Push(h, x) == stk[h].len < MaxLen /\ Set(h, Pushed(stk[h], x), Nothing)

Pop(h) ==
    \/ stk[h].len = 0 /\ Set(h, stk[h], Nothing)
    \/ stk[h].len > 0 /\ LET n == stk[h].len - 1
                         IN  Set(h, [stk[h] EXCEPT !.data = Dropped(@, n), !.len = n],
                                 Load(stk[h].data, n))

\* The clone of a stack that never had a buffer is a buffer of no slots, which push doubles
\* to no slots: such a stack must not be cloned.
Clone(r, h) == stk[h].cap > 0 /\ Set(r, Cloned(stk[h]), Nothing)

Clear(h) == Set(h, [stk[h] EXCEPT !.data = Dropped(@, 0), !.len = 0], Nothing)

\* free and drop.
Free(h) == Set(h, Freed(stk[h]), Nothing)

Next == \E h \in Handle :
    \/ Pop(h) \/ Clear(h) \/ Free(h)
    \/ \E x \in Val : Push(h, x)
    \/ \E g \in Handle : Clone(h, g)

Spec == Init /\ [][Next]_vars

-----------------------------------------------------------------------------
Items(s) == [i \in 1..s.len |-> Load(s.data, i - 1)]

List == INSTANCE Lists WITH
            list <- [h \in Handle |-> Items(stk[h])], Times <- {},
            Calls <- {"pushBack", "popBack", "copy", "clear"}

\* Values come back last one first and unchanged, through every growth, clear, free and
\* reuse of a stack, and whatever is done with its clone.
StackIsList == List!Spec
=============================================================================
