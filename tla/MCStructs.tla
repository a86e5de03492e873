----------------------------- MODULE MCStructs -----------------------------
(* Three types for TLC, where the name of c begins with the name of b. *)
EXTENDS Structs

CONSTANTS a, b, c

BeginsDef == {<<a, a>>, <<b, b>>, <<c, c>>, <<c, b>>}
=============================================================================
