------------------------------ MODULE MCPasses ------------------------------
(***************************************************************************)
(* Two passes of the compiler for TLC, one of which a behaviour follows:   *)
(* the reading of the source files (Imports), or the code generation of a  *)
(* function (DeferDrop).                                                   *)
(***************************************************************************)
EXTENDS MCDeferDrop, Imports

CONSTANTS main, m1, m2, std, h,                   \* five files, of which h is a header ...
          main_name, name, std_name, dir1, dir2,  \* ... and their names
          t1, t2, t3, t4                          \* names of types

VARIABLE pass

\* m1, m2 and the header have the same name, and m2 and the header the same directory.
BaseDef == [f \in {main, m1, m2, std, h} |->
                CASE f = main -> main_name [] f = std -> std_name [] OTHER -> name]
QualifiedDef == [BaseDef EXCEPT ![m1] = dir1, ![m2] = dir2, ![h] = dir2]

\* Imports in all styles; dir1 is an alias that is also the name of a directory.
ItemDef ==
    {[op |-> "drop"], [op |-> "plain", file |-> main], [op |-> "plain", file |-> h],
     [op |-> "all", file |-> m1],
     [op |-> "as", file |-> m2, alias |-> dir1, export |-> TRUE]}
    \cup [op : {"plain"}, file : {m1, m2}]
    \cup [op : {"as"}, file : {m1, m2, h}, alias : {name}, export : {FALSE}]
    \cup [op : {"only"}, file : {m1, m2}, symbol : {t1}, local : {t2}]

\* All types have names of their own; or only m2's has.
NamingsDef == {[f \in {main, m1, m2, std} |->
                    CASE f = m1 -> t1 [] f = m2 -> t2 [] f = std -> t4 [] OTHER -> t3],
               [f \in {main, m1, m2, std} |-> IF f = m2 THEN t1 ELSE t2]}

Start == /\ pass \in {"files", "function"} /\ Init /\ ReadInit
         /\ pass = "files" => useCpp = FALSE
         /\ pass = "function" => text[Main] = <<>> /\ struct[Main] = t2 /\ extra = NoFile

Pass == \/ pass = "files" /\ ReadNext /\ UNCHANGED <<pass, vars>>
        \/ pass = "function" /\ Next /\ UNCHANGED <<pass, readVars>>

PassSpec == Start /\ [][Pass]_<<pass, vars, readVars>>
=============================================================================
