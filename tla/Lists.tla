------------------------------- MODULE Lists -------------------------------
(***************************************************************************)
(* What the sequential containers of std promise: every handle holds a     *)
(* sequence of values of its own, changed only by the calls made on that   *)
(* handle, and `ret` is what the last call returned.  Vec, Stack and Queue *)
(* are shown to implement it, each with the calls that it offers.          *)
(***************************************************************************)
EXTENDS Integers, Sequences

CONSTANTS Handle,   \* the containers of the program
          Val,      \* the values stored in them
          Nothing,  \* returned by void functions, and for Option::None
          Times,    \* the factors lists are repeated by
          Calls     \* the calls this kind of container has

VARIABLES list, ret

vars == <<list, ret>>

Becomes(h, s, r) == list' = [list EXCEPT ![h] = s] /\ ret' = r

Has(call) == call \in Calls

Init == list = [h \in Handle |-> <<>>] /\ ret = Nothing

PushBack(h, v) == Has("pushBack") /\ Becomes(h, Append(list[h], v), Nothing)

PopBack(h) ==
    /\ Has("popBack")
    /\ \/ list[h] = <<>> /\ Becomes(h, <<>>, Nothing)
       \/ /\ list[h] # <<>>
          /\ Becomes(h, SubSeq(list[h], 1, Len(list[h]) - 1), list[h][Len(list[h])])

PopFront(h) ==
    /\ Has("popFront")
    /\ \/ list[h] = <<>> /\ Becomes(h, <<>>, Nothing)
       \/ list[h] # <<>> /\ Becomes(h, Tail(list[h]), Head(list[h]))

Insert(h, i, v) ==
    /\ Has("insert")
    /\ Becomes(h, SubSeq(list[h], 1, i) \o <<v>> \o SubSeq(list[h], i + 1, Len(list[h])), Nothing)

Remove(h, i) ==
    /\ Has("remove") /\ i < Len(list[h])
    /\ Becomes(h, SubSeq(list[h], 1, i) \o SubSeq(list[h], i + 2, Len(list[h])), list[h][i + 1])

Get(h, i) == Has("get") /\ i < Len(list[h]) /\ Becomes(h, list[h], list[h][i + 1])

Set(h, i, v) ==
    /\ Has("set") /\ i < Len(list[h])
    /\ Becomes(h, [list[h] EXCEPT ![i + 1] = v], Nothing)

Reverse(h) ==
    /\ Has("reverse")
    /\ Becomes(h, [i \in 1..Len(list[h]) |-> list[h][Len(list[h]) + 1 - i]], Nothing)

\* The list of r becomes that of h followed by that of g; with Move, g's is given up.
Concat(r, h, g) == Has("concat") /\ Becomes(r, list[h] \o list[g], Nothing)
Move(h, g) ==
    /\ Has("concat") /\ h # g
    /\ list' = [list EXCEPT ![h] = @ \o list[g], ![g] = <<>>] /\ ret' = Nothing

\* The list of r becomes n copies of that of h.
Repeat(r, h, n) ==
    /\ Has("repeat")
    /\ Becomes(r, [i \in 1..n * Len(list[h]) |-> list[h][((i - 1) % Len(list[h])) + 1]], Nothing)

Copy(r, h) == Has("copy") /\ Becomes(r, list[h], Nothing)

Clear(h) == Has("clear") /\ Becomes(h, <<>>, Nothing)

Next == \E h \in Handle :
    \/ PopBack(h) \/ PopFront(h) \/ Reverse(h) \/ Clear(h)
    \/ \E v \in Val : PushBack(h, v)
    \/ \E i \in 0..Len(list[h]) : Remove(h, i) \/ Get(h, i)
    \/ \E i \in 0..Len(list[h]), v \in Val : Insert(h, i, v) \/ Set(h, i, v)
    \/ \E g \in Handle : Move(h, g) \/ Copy(h, g) \/ \E n \in Times : Repeat(h, g, n)
    \/ \E g, k \in Handle : Concat(h, g, k)

Spec == Init /\ [][Next]_vars
=============================================================================
