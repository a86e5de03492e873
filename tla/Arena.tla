------------------------------- MODULE Arena -------------------------------
(***************************************************************************)
(* The arena of utils/zalloc.h: a list of blocks that is only filled at its *)
(* head and given back all at once, down to a mark.                        *)
(*                                                                         *)
(* Sizes are in units that include the padding and headers of an            *)
(* allocation.  An allocation is known by its block's place in the list, by *)
(* where it starts and by its size: a block is inserted only in front of    *)
(* blocks that hold nothing.                                               *)
(***************************************************************************)
EXTENDS Naturals, Sequences, Functions

CONSTANT FirstBlock   \* ZARENA_DEFAULT_BLOCK_SIZE, in units

ASSUME FirstBlockAssumption == FirstBlock \in Nat \ {0}

Block == [capacity : Nat, used : Nat]

\* head = 0 is the NULL of an arena that was never used.
Empty == [blocks |-> << >>, head |-> 0]

IsArena(a) == /\ a \in [blocks : Seq(Block), head : Nat]
              /\ a.head <= Len(a.blocks)
              /\ \A i \in DOMAIN a.blocks :
                    /\ a.blocks[i].used <= a.blocks[i].capacity
                    /\ i > a.head => a.blocks[i].used = 0

InHead(a, n) == /\ a.head # 0
                /\ a.blocks[a.head].used + n <= a.blocks[a.head].capacity

InNext(a, n) == /\ a.head \in 1..Len(a.blocks) - 1
                /\ n <= a.blocks[a.head + 1].capacity

\* The block made for n units: twice the head's capacity, or as much as it takes.
NewBlock(a, n) ==
    LET twice == IF a.head = 0 THEN FirstBlock ELSE 2 * a.blocks[a.head].capacity
    IN  [capacity |-> IF twice < n THEN n ELSE twice, used |-> n]

UseHead(a, n) == [blocks |-> [a.blocks EXCEPT ![a.head].used = @ + n], head |-> a.head]

UseNext(a, n) == [blocks |-> [a.blocks EXCEPT ![a.head + 1].used = n], head |-> a.head + 1]

UseNew(a, n) == [blocks |-> [i \in 1..Len(a.blocks) + 1 |->
                                IF i <= a.head THEN a.blocks[i]
                                ELSE IF i = a.head + 1 THEN NewBlock(a, n)
                                ELSE a.blocks[i - 1]],
                 head |-> a.head + 1]

Alloc(a, n) == IF InHead(a, n) THEN UseHead(a, n)
               ELSE IF InNext(a, n) THEN UseNext(a, n)
               ELSE UseNew(a, n)

\* Where Alloc(a, n) put the n units.
Allocated(a, n) == LET b == Alloc(a, n)
                   IN  [block |-> b.head, at |-> b.blocks[b.head].used - n, size |-> n]

Save(a) == [block |-> a.head, used |-> IF a.head = 0 THEN 0 ELSE a.blocks[a.head].used]

RestoreHeadOnly(a, mark) == IF mark.block = 0 THEN a ELSE [a EXCEPT !.head = mark.block]

Restore(a, mark) ==
    IF mark.block = 0 THEN a
    ELSE [blocks |-> [i \in DOMAIN a.blocks |->
                        [a.blocks[i] EXCEPT !.used = IF i < mark.block THEN @
                                                     ELSE IF i = mark.block THEN mark.used
                                                     ELSE 0]],
          head |-> mark.block]

\* total_alloc
Total(a) == SumFunction([i \in 1..a.head |-> a.blocks[i].used])

\* The allocation r has not been given back ...
Live(a, r) == /\ r.block \in 1..a.head
              /\ r.at + r.size <= a.blocks[r.block].used

\* ... and shares no unit with s.
Apart(r, s) == r.block = s.block => r.at + r.size <= s.at \/ s.at + s.size <= r.at
=============================================================================
