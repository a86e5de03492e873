----------------------------- MODULE Containers -----------------------------
(***************************************************************************)
(* The sequential containers of std side by side: queues, vectors and      *)
(* stacks with the same handles and values, whose memory is Buffers'.      *)
(***************************************************************************)
EXTENDS Queue

CONSTANT Times   \* the factors vectors are multiplied by (a bound)

VARIABLES vec, got, exited,   \* the vectors, what the last call returned, and Vec's panic
          stk, top            \* the stacks, and what the last call returned

V == INSTANCE Vec WITH ret <- got
S == INSTANCE Stack WITH ret <- top

ASSUME VecsAssumption == V!VecAssumption
ASSUME StacksAssumption == S!StackAssumption

\* Every vector holds the sequence its calls built (module Vec implements module Lists):
\* vec.zc shifts, copies and moves the right items, whatever its buffer went through.
VecIsList == V!VecIsList

\* Every stack holds the sequence its calls built (module Stack implements module Lists):
\* stack.zc returns the items in the opposite order of the pushes, and clones share nothing.
StackIsList == S!StackIsList
=============================================================================
