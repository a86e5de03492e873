------------------------------- MODULE Queue -------------------------------
(***************************************************************************)
(* std/queue.zc: a ring buffer.  A program makes any sequence of calls on  *)
(* the queues in Handle.                                                   *)
(***************************************************************************)
EXTENDS Buffers

CONSTANTS Handle,   \* the queues of the program
          Nothing,  \* what void functions return, and Option::None
          MinCap,   \* the first capacity: 8 in the code
          MaxLen    \* the most items a program keeps in a queue (a bound)

ASSUME QueueAssumption == /\ Nothing \notin Val \cup {Junk}
                          /\ MinCap \in Nat \ {0} /\ MaxLen \in Nat

VARIABLES queue,  \* the struct Queue of every handle
          ret     \* what the last call returned

vars == <<queue, ret>>

New == [data |-> Alloc(0), cap |-> 0, head |-> 0, tail |-> 0, count |-> 0]

\* Mutant: the items are copied as if they never wrapped round the end.
UnrolledOnePart(q, n) == Copied(Alloc(n), 0, q.data, q.head, q.count)

\* The items of q, oldest first, at the beginning of a buffer of n slots.
Unrolled(q, n) ==
    IF q.count = 0 THEN Alloc(n)
    ELSE IF q.tail > q.head THEN Copied(Alloc(n), 0, q.data, q.head, q.count)
    ELSE LET first == q.cap - q.head
         IN  Copied(Copied(Alloc(n), 0, q.data, q.head, first), first, q.data, 0, q.tail)

\* _grow
Grown(q) ==
    LET cap == IF q.cap = 0 THEN MinCap ELSE 2 * q.cap
    IN  [data |-> Unrolled(q, cap), cap |-> cap, head |-> 0, tail |-> q.count, count |-> q.count]

Room(q) == IF q.count = q.cap THEN Grown(q) ELSE q

Pushed(q, x) ==
    LET r == Room(q)
    IN  [r EXCEPT !.data = Store(r.data, r.tail, x), !.tail = (r.tail + 1) % r.cap,
                  !.count = r.count + 1]

\* The value is the caller's: its slot is read no more.
Popped(q) == [q EXCEPT !.data = Store(q.data, q.head, Junk), !.head = (q.head + 1) % q.cap,
                       !.count = q.count - 1]

Cloned(q) == [data |-> Unrolled(q, q.cap), cap |-> q.cap, head |-> 0, tail |-> q.count,
              count |-> q.count]

-----------------------------------------------------------------------------
Init == queue = [h \in Handle |-> New] /\ ret = Nothing

Set(h, q, r) == queue' = [queue EXCEPT ![h] = q] /\ ret' = r

Push(h, x) == queue[h].count < MaxLen /\ Set(h, Pushed(queue[h], x), Nothing)

Pop(h) ==
    \/ queue[h].count = 0 /\ Set(h, queue[h], Nothing)
    \/ queue[h].count > 0 /\ Set(h, Popped(queue[h]), Load(queue[h].data, queue[h].head))

\* tail becomes count, which is no slot when the queue is full: after a pop, push would
\* store behind the buffer.  A full queue must not be cloned.
Clone(r, h) ==
    /\ queue[h].count < queue[h].cap \/ queue[h].cap = 0
    /\ Set(r, Cloned(queue[h]), Nothing)

Clear(h) == Set(h, [queue[h] EXCEPT !.data = Dropped(queue[h].data, 0), !.head = 0, !.tail = 0,
                                    !.count = 0], Nothing)

\* free and drop.
Free(h) == Set(h, New, Nothing)

Next == \E h \in Handle :
    \/ Pop(h) \/ Clear(h) \/ Free(h)
    \/ \E x \in Val : Push(h, x)
    \/ \E g \in Handle : Clone(h, g)

Spec == Init /\ [][Next]_vars

-----------------------------------------------------------------------------
\* The i-th oldest item is in the i-th slot from head on, round the end of the buffer.
Items(q) == [i \in 1..q.count |-> Load(q.data, (q.head + i - 1) % q.cap)]

List == INSTANCE Lists WITH
            list <- [h \in Handle |-> Items(queue[h])], Times <- {},
            Calls <- {"pushBack", "popFront", "copy", "clear"}

\* Values come back in the order they were pushed and unchanged, wherever head and tail stand
\* when the buffer grows or is copied, and whatever is done with a clone.
QueueIsList == List!Spec
=============================================================================
