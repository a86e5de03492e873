---------------------------- MODULE SourceFiles ----------------------------
(***************************************************************************)
(* The files of a program, their names, and what may be written in them.   *)
(***************************************************************************)
EXTENDS Naturals, FiniteSets

CONSTANTS
    Main,       \* the input file ...
    Module,     \* ... the other source files ...
    Extra,      \* the files that may also be on the command line
    Std,        \* ... a file of std that `impl Drop` or a loop over an array asks for
    Header,     \* C headers
    Base,       \* of every file, extract_module_name
    Qualified,  \* of every file, the name of its directory and its base
    Symbol,     \* the names of types
    Item,       \* what may be written in a file, see AnyItem
    Namings,    \* the choices of the type that each file declares
    MaxItems,   \* how much is written in all files (a bound)
    NoPrefix, NoFile

Source == Module \cup {Main, Std}
File == Source \cup Header
ModuleName == {Base[f] : f \in File} \cup {Qualified[f] : f \in File}

\* A prefix is a name, or one with a number behind it.
Prefix == ModuleName \cup (ModuleName \X (Nat \ {0, 1}))

AnyItem == [op : {"plain", "all"}, file : File]
    \cup [op : {"as"}, file : File, alias : ModuleName, export : BOOLEAN]
    \cup [op : {"only"}, file : File, symbol : Symbol, local : Symbol]
    \cup {[op |-> "drop"]}

ASSUME ImportsAssumption ==
    /\ IsFiniteSet(File) /\ Main \notin Module /\ Std \notin Module \cup {Main}
    /\ Extra \subseteq Module /\ Header \cap Source = {}
    /\ NoFile \notin File /\ NoPrefix \notin Prefix
    /\ Item \subseteq AnyItem /\ Namings \subseteq [Source -> Symbol] /\ MaxItems \in Nat

\* An alias behind a prefix, `p__a` in the code and a pair here, is not a name of its own.
ASSUME NamesAssumption == ModuleName \cap (Prefix \X ModuleName) = {}
=============================================================================
