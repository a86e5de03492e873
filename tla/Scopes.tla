------------------------------- MODULE Scopes -------------------------------
(***************************************************************************)
(* What `defer` promises a running Zen C function: a deferred action stays  *)
(* pending while the block that registered it is open, and leaving blocks,  *)
(* in whatever way, runs the actions of exactly those blocks, last one      *)
(* first.                                                                  *)
(***************************************************************************)
EXTENDS Naturals, Sequences

CONSTANT Defer  \* the actions that can be deferred

VARIABLES
    pending,  \* the deferred actions of the open blocks, in order of registration
    marks,    \* for every open block, the number of actions pending when it was opened
    ran       \* the actions that the last step ran, in the order it ran them

scopes == <<pending, marks, ran>>

Open == Len(marks)

\* The actions pending beyond the first n, last one first.
Unwound(n) == [i \in 1..Len(pending) - n |-> pending[Len(pending) - i + 1]]

Init == pending = <<>> /\ marks = <<0>> /\ ran = <<>>

Enter == /\ marks' = Append(marks, Len(pending))
         /\ pending' = pending
         /\ ran' = <<>>

Register(d) == /\ Open > 0
               /\ pending' = Append(pending, d)
               /\ marks' = marks
               /\ ran' = <<>>

\* All but the n outermost blocks are left.
Leave(n) == /\ n < Open
            /\ pending' = SubSeq(pending, 1, marks[n + 1])
            /\ marks' = SubSeq(marks, 1, n)
            /\ ran' = Unwound(marks[n + 1])

\* The innermost block is left and entered again: the next iteration of a loop.
Repeat == /\ Open > 0
          /\ pending' = SubSeq(pending, 1, marks[Open])
          /\ marks' = marks
          /\ ran' = Unwound(marks[Open])

\* Nothing is left or registered.
Work == pending' = pending /\ marks' = marks /\ ran' = <<>>

Next == Enter \/ (\E d \in Defer : Register(d)) \/ (\E n \in 0..Open : Leave(n)) \/ Repeat \/ Work

Spec == Init /\ [][Next]_scopes
=============================================================================
