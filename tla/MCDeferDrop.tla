---------------------------- MODULE MCDeferDrop ----------------------------
(* Instances of DeferDrop for TLC. *)
EXTENDS DeferDrop

CONSTANTS x, y, v1, v2, v3

\* The names are alike: every property is a safety property.
Names == Permutations(Name)
=============================================================================
