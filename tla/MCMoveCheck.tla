---------------------------- MODULE MCMoveCheck ----------------------------
(* Instances of MoveCheck for TLC. *)
EXTENDS MoveCheck

CONSTANTS x, xf

\* Every event, and the events of loops and branches alone.
Loops == {"use", "move", "assign", "if", "else", "endif", "loop", "while", "do", "break",
          "continue", "endloop", "return"}

VarOwner == [p \in {x} |-> {x}]
FieldOwner == [p \in {x, xf} |-> IF p = xf THEN {x, xf} ELSE {x}]
=============================================================================
