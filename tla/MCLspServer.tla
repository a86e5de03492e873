---------------------------- MODULE MCLspServer ----------------------------
(* Instances of LspServer for TLC. *)
EXTENDS LspServer, TLC

CONSTANTS p1, p2, t1, t2

Sizes == [t \in Text |-> 1]

\* Sound: no property is a liveness property.
Symmetry == Permutations(Path)
=============================================================================
