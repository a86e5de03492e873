------------------------------ MODULE Imports ------------------------------
(***************************************************************************)
(* How the source files of a program are read: parse_import reads a file   *)
(* in the middle of another one, load_std_module reads one that no import  *)
(* names, bodies of functions wait until all declarations are known        *)
(* (parse_pending_bodies), and the driver then reads the extra files of    *)
(* the command line.  A file imported with a name of its own declares its  *)
(* types behind a prefix; a body finds a type by its name, the prefix of   *)
(* the file that it was written in, and what the imports registered.       *)
(*                                                                         *)
(* The text of a file is its imports and `impl Drop`s, then a struct with  *)
(* its methods, which stand for the bodies of the file.                    *)
(***************************************************************************)
EXTENDS SourceFiles, Sequences

VARIABLES
    text,      \* what is written in each file
    struct,    \* the type that it declares
    reads,     \* how often it was read
    extra,     \* the extra file of the command line
    turn,      \* the file that the driver is at, "main" or "extra"
    phase,     \* "parse" (top level), "bodies", "done", "error"
    reading,   \* the files that are being read
    prefix,    \* current_module_prefix
    parsing,   \* currently_parsing
    imported,  \* imported_files
    prefixes,  \* module_prefixes
    modules,   \* of an alias, or an alias behind a prefix: the file and its base_name
    selective, \* selective_imports: of a local name, the prefix and the name of a type
    types,     \* the structs parsed
    redefined, \* "Redefinition of struct" was reported
    pending,   \* pending_bodies
    body       \* the body that is being parsed

given == <<text, struct, reads, extra, turn>>
context == <<phase, reading, prefix>>
files == <<parsing, imported, prefixes>>
names == <<modules, selective, types, redefined>>
bodies == <<pending, body>>
readVars == <<given, context, files, names, bodies>>

Here == reading[Len(reading)]
Pop == SubSeq(reading, 1, Len(reading) - 1)

\* zmap_put, and the same behind a zmap_get that finds nothing.
Put(map, key, val) == [k \in DOMAIN map \cup {key} |-> IF k = key THEN val ELSE map[k]]
PutNew(map, key, val) == IF key \in DOMAIN map THEN map ELSE Put(map, key, val)

FilesRead == {f \in Source : reads[f] > 0}
Places == {p \in FilesRead \X (1..MaxItems) : p[2] <= Len(text[p[1]])}

\* A file is opened for the first time: its text, of what the bound leaves.
Texts(f) == IF f = Std \/ reads[f] > 0 THEN {text[f]}
            ELSE UNION {[1..n -> Item] : n \in 0..(MaxItems - Cardinality(Places))}

\* A file that is being read: its place, how it was asked for, and the prefix to go back to.
OpenFile == [file : Source, at : Nat \ {0}, by : {"root", "std", "plain", "as", "only", "all"},
             prefix : Prefix \cup {NoPrefix}]

FilesTypeOK ==
    /\ text \in [Source -> Seq(Item)] /\ \A f \in Source : Len(text[f]) <= MaxItems
    /\ struct \in Namings /\ reads \in [Source -> Nat] /\ extra \in Extra \cup {NoFile}
    /\ turn \in {"main", "extra"} /\ phase \in {"parse", "bodies", "done", "error"}
    /\ reading \in Seq(OpenFile) /\ prefix \in Prefix \cup {NoPrefix}
    /\ parsing \subseteq Source /\ imported \subseteq File
    /\ prefixes \in [File -> Prefix \cup {NoPrefix}]
    /\ \A a \in DOMAIN modules : modules[a] \in [file : File, base : Prefix]
    /\ \A s \in DOMAIN selective : selective[s] \in (Prefix \cup {NoPrefix}) \X Symbol
    /\ types \subseteq [prefix : Prefix \cup {NoPrefix}, name : Symbol, file : Source]
    /\ redefined \in BOOLEAN
    /\ pending \in Seq([file : Source, prefix : Prefix \cup {NoPrefix}])
    /\ body \in [file : Source \cup {NoFile}, prefix : Prefix \cup {NoPrefix}]

Opening(f, by) == [file |-> f, at |-> 1, by |-> by, prefix |-> prefix]

ReadInit ==
    /\ \E t \in UNION {[1..n -> Item] : n \in 0..MaxItems} :
           text = [f \in Source |-> IF f = Main THEN t ELSE <<>>]
    /\ struct \in Namings
    /\ reads = [f \in Source |-> IF f = Main THEN 1 ELSE 0]
    /\ extra \in Extra \cup {NoFile}
    /\ turn = "main" /\ phase = "parse" /\ prefix = NoPrefix
    /\ reading = <<[file |-> Main, at |-> 1, by |-> "root", prefix |-> NoPrefix]>>
    /\ parsing = {} /\ imported = {} /\ prefixes = [f \in File |-> NoPrefix]
    /\ modules = <<>> /\ selective = <<>> /\ types = {} /\ redefined = FALSE
    /\ pending = <<>> /\ body = [file |-> NoFile, prefix |-> NoPrefix]

-----------------------------------------------------------------------------
(* Prefixes *)

\* Nobody else owns the prefix p.
Free(f, p) == \A g \in File \ {f} : prefixes[g] # p

\* Mutant: nobody asks who owns the prefix.
BaseFor(f) == IF prefixes[f] # NoPrefix THEN prefixes[f] ELSE Base[f]

\* module_prefix_for
PrefixFor(f) ==
    IF prefixes[f] # NoPrefix THEN prefixes[f]
    ELSE IF Free(f, Base[f]) THEN Base[f]
    ELSE IF Free(f, Qualified[f]) THEN Qualified[f]
    ELSE <<Qualified[f], CHOOSE n \in 2..(Cardinality(File) + 1) :
                             /\ Free(f, <<Qualified[f], n>>)
                             /\ \A m \in 2..(n - 1) : ~Free(f, <<Qualified[f], m>>)>>

Allot(f) == prefixes' = [prefixes EXCEPT ![f] = PrefixFor(f)]

-----------------------------------------------------------------------------
(* parse_import *)

AtItem(i) == phase = "parse" /\ Here.at <= Len(text[Here.file]) /\ text[Here.file][Here.at] = i
Importing(i) == AtItem(i) /\ i.op # "drop"

Behind(s) == [s EXCEPT ![Len(s)].at = @ + 1]
Advance == reading' = Behind(reading) /\ UNCHANGED <<phase, prefix>>

\* The alias of a header; the prefix of its symbols is asked for, and never used.
AliasHeader(i) ==
    IF i.op = "as" /\ i.alias \notin DOMAIN modules
    THEN modules' = Put(modules, i.alias, [file |-> i.file, base |-> PrefixFor(i.file)])
         /\ Allot(i.file)
    ELSE UNCHANGED <<modules, prefixes>>

\* Mutant: like load_std_module, it also skips a file that is being read.
ImportSkipped(i) ==
    /\ Importing(i) /\ i.file \in imported \cup parsing
    /\ IF i.file \in Header THEN AliasHeader(i) ELSE UNCHANGED <<modules, prefixes>>
    /\ Advance
    /\ UNCHANGED <<given, parsing, imported, selective, types, redefined, bodies>>

\* Mutant: the alias of a header is skipped like that of a module.
ImportForgotten(i) ==
    /\ Importing(i) /\ i.file \in imported
    /\ Advance
    /\ UNCHANGED <<given, files, names, bodies>>

\* The file is not read again: of the import, the alias of a header is left.
ImportAgain(i) ==
    /\ Importing(i) /\ i.file \in imported
    /\ IF i.file \in Header THEN AliasHeader(i) ELSE UNCHANGED <<modules, prefixes>>
    /\ Advance
    /\ UNCHANGED <<given, parsing, imported, selective, types, redefined, bodies>>

\* zpanic_at ends the program.
Circular(i) ==
    /\ Importing(i) /\ i.file \notin imported /\ i.file \in parsing
    /\ phase' = "error"
    /\ UNCHANGED <<given, reading, prefix, files, names, bodies>>

\* Mutant: the names are looked for behind the name of the file.
SelectBase(i) == IF i.op = "only"
                 THEN selective' = Put(selective, i.local, <<Base[i.file], i.symbol>>)
                 ELSE UNCHANGED selective

Select(i) == IF i.op = "only"
             THEN selective' = Put(selective, i.local, <<PrefixFor(i.file), i.symbol>>)
             ELSE UNCHANGED selective

ImportHeader(i) ==
    /\ Importing(i) /\ i.file \in Header \ imported
    /\ imported' = imported \cup {i.file}
    /\ Select(i)
    /\ IF i.op = "only" THEN Allot(i.file) /\ UNCHANGED modules ELSE AliasHeader(i)
    /\ Advance
    /\ UNCHANGED <<given, parsing, types, redefined, bodies>>

\* Mutant: what is exported is looked for behind the name of the file.
AliasBase(i) ==
    LET own == [file |-> i.file, base |-> PrefixFor(i.file)]
        named == PutNew(modules, i.alias, own)
    IN  CASE i.op = "as" -> IF i.export /\ prefix # NoPrefix
                            THEN PutNew(named, <<prefix, i.alias>>,
                                        [own EXCEPT !.base = Base[i.file]])
                            ELSE named
          [] i.op = "plain" -> PutNew(modules, Base[i.file],
                                      [file |-> i.file, base |-> Base[i.file]])
          [] OTHER -> modules

\* Mutant: the prefix is looked up before module_prefix_for has allotted it.
AliasUnallotted(i) ==
    LET own == [file |-> i.file, base |-> prefixes[i.file]]
        named == PutNew(modules, i.alias, own)
    IN  CASE i.op = "as" -> IF i.export /\ prefix # NoPrefix
                            THEN PutNew(named, <<prefix, i.alias>>, own) ELSE named
          [] i.op = "plain" -> PutNew(modules, Base[i.file],
                                      [file |-> i.file, base |-> Base[i.file]])
          [] OTHER -> modules

\* What an import registers: its alias, or the name of the file; and re_export_propagated.
Alias(i) ==
    LET own == [file |-> i.file, base |-> PrefixFor(i.file)]
        named == PutNew(modules, i.alias, own)
    IN  CASE i.op = "as" -> IF i.export /\ prefix # NoPrefix
                            THEN PutNew(named, <<prefix, i.alias>>, own) ELSE named
          [] i.op = "plain" -> PutNew(modules, Base[i.file],
                                      [file |-> i.file, base |-> Base[i.file]])
          [] OTHER -> modules

\* Mutant: the file is not marked as being read.
OpenUnmarked(i) ==
    /\ Importing(i) /\ i.file \in Source \ (imported \cup parsing)
    /\ Select(i)
    /\ modules' = Alias(i)
    /\ IF i.op = "plain" THEN prefix' = NoPrefix /\ UNCHANGED prefixes
       ELSE prefix' = PrefixFor(i.file) /\ Allot(i.file)
    /\ reading' = Append(Behind(reading), Opening(i.file, i.op))
    /\ \E t \in Texts(i.file) : text' = [text EXCEPT ![i.file] = t]
    /\ reads' = [reads EXCEPT ![i.file] = @ + 1]
    /\ UNCHANGED <<struct, extra, turn, phase, parsing, imported, types, redefined, bodies>>

Open(i) ==
    /\ Importing(i) /\ i.file \in Source \ (imported \cup parsing)
    /\ parsing' = parsing \cup {i.file}
    /\ Select(i)
    /\ modules' = Alias(i)
    /\ IF i.op = "plain" THEN prefix' = NoPrefix /\ UNCHANGED prefixes
       ELSE prefix' = PrefixFor(i.file) /\ Allot(i.file)
    /\ reading' = Append(Behind(reading), Opening(i.file, i.op))
    /\ \E t \in Texts(i.file) : text' = [text EXCEPT ![i.file] = t]
    /\ reads' = [reads EXCEPT ![i.file] = @ + 1]
    /\ UNCHANGED <<struct, extra, turn, phase, imported, types, redefined, bodies>>

-----------------------------------------------------------------------------
(* load_std_module: the prefix stays that of the file that asks *)

LoadStd(below) ==
    IF Std \in imported \cup parsing
    THEN reading' = below /\ UNCHANGED <<reads, parsing>>
    ELSE /\ reading' = Append(below, Opening(Std, "std"))
         /\ parsing' = parsing \cup {Std}
         /\ reads' = [reads EXCEPT ![Std] = @ + 1]

ImplDrop ==
    /\ AtItem([op |-> "drop"])
    /\ LoadStd(Behind(reading))
    /\ UNCHANGED <<text, struct, extra, turn, phase, prefix, imported, prefixes, names, bodies>>

-----------------------------------------------------------------------------
(* The declarations of a file, and its end *)

\* parse_struct and parse_function: the name gets the prefix, the body waits.
DeclareTypes ==
    /\ phase \in {"parse", "bodies"} /\ reading # <<>> /\ Here.at = Len(text[Here.file]) + 1
    /\ LET t == [prefix |-> prefix, name |-> struct[Here.file], file |-> Here.file]
       IN  /\ redefined' = (redefined \/ \E u \in types : u.prefix = t.prefix /\ u.name = t.name)
           /\ types' = types \cup {t}
    /\ pending' = Append(pending, [file |-> Here.file, prefix |-> prefix])
    /\ Advance
    /\ UNCHANGED <<given, files, modules, selective, body>>

\* re_export_wildcard_symbols
WildcardSymbols ==
    LET found == {t.name : t \in {u \in types : u.prefix = prefix}}
    IN  [s \in DOMAIN selective \cup found |->
             IF s \in DOMAIN selective THEN selective[s] ELSE <<prefix, s>>]

\* Mutant: the file is not marked as imported.
EndOfFileUnmarked ==
    /\ phase \in {"parse", "bodies"} /\ reading # <<>> /\ Here.at = Len(text[Here.file]) + 2
    /\ IF Here.by = "root" THEN phase' = "bodies" /\ UNCHANGED parsing
       ELSE parsing' = parsing \ {Here.file} /\ UNCHANGED phase
    /\ selective' = IF Here.by = "all" THEN WildcardSymbols ELSE selective
    /\ prefix' = Here.prefix
    /\ reading' = Pop
    /\ UNCHANGED <<given, imported, prefixes, modules, types, redefined, bodies>>

EndOfFile ==
    /\ phase \in {"parse", "bodies"} /\ reading # <<>> /\ Here.at = Len(text[Here.file]) + 2
    /\ IF Here.by = "root" THEN phase' = "bodies" /\ UNCHANGED <<parsing, imported>>
       ELSE /\ parsing' = parsing \ {Here.file} /\ imported' = imported \cup {Here.file}
            /\ UNCHANGED phase
    /\ selective' = IF Here.by = "all" THEN WildcardSymbols ELSE selective
    /\ prefix' = Here.prefix
    /\ reading' = Pop
    /\ UNCHANGED <<given, prefixes, modules, types, redefined, bodies>>

-----------------------------------------------------------------------------
(* parse_pending_bodies *)

\* Mutant: the prefix of the file is not put back for its bodies.
ParseBodyHere ==
    /\ phase = "bodies" /\ reading = <<>> /\ pending # <<>>
    /\ body' = [Head(pending) EXCEPT !.prefix = prefix] /\ pending' = Tail(pending)
    /\ UNCHANGED <<given, context, files, names>>

\* The body is parsed; an array in a loop asks for std.
ParseBody ==
    /\ phase = "bodies" /\ reading = <<>> /\ pending # <<>>
    /\ body' = Head(pending) /\ pending' = Tail(pending) /\ prefix' = Head(pending).prefix
    /\ UNCHANGED <<given, phase, reading, files, names>>

LoopOverArray ==
    /\ phase = "bodies" /\ reading = <<>> /\ body.file \in Source /\ reads[Std] = 0
    /\ LoadStd(<<>>)
    /\ UNCHANGED <<text, struct, extra, turn, phase, prefix, imported, prefixes, names, bodies>>

\* The extra file of the command line, unless an import has read it.
ReadExtra ==
    /\ phase = "bodies" /\ reading = <<>> /\ pending = <<>> /\ extra # NoFile /\ turn = "main"
    /\ turn' = "extra" /\ prefix' = NoPrefix
    /\ body' = [file |-> NoFile, prefix |-> NoPrefix]
    /\ imported' = imported \cup {Main, extra}
    /\ IF extra \in imported
       THEN UNCHANGED <<text, reads, phase, reading>>
       ELSE /\ phase' = "parse"
            /\ reading' = <<[file |-> extra, at |-> 1, by |-> "root", prefix |-> NoPrefix]>>
            /\ \E t \in Texts(extra) : text' = [text EXCEPT ![extra] = t]
            /\ reads' = [reads EXCEPT ![extra] = @ + 1]
    /\ UNCHANGED <<struct, extra, parsing, prefixes, names, pending>>

Finish ==
    /\ phase = "bodies" /\ reading = <<>> /\ pending = <<>> /\ (extra = NoFile \/ turn = "extra")
    /\ phase' = "done" /\ prefix' = NoPrefix
    /\ UNCHANGED <<given, reading, files, names, bodies>>

Import(i) == ImportAgain(i) \/ Circular(i) \/ ImportHeader(i) \/ Open(i)

ReadNext == \/ \E i \in Item : Import(i)
            \/ ImplDrop \/ DeclareTypes \/ EndOfFile
            \/ ParseBody \/ LoopOverArray \/ ReadExtra \/ Finish

ReadSpec == ReadInit /\ [][ReadNext]_readVars

-----------------------------------------------------------------------------
Imports(f) == {text[p[1]][p[2]] : p \in {q \in Places : q[1] = f}} \ {[op |-> "drop"]}
Written == UNION {Imports(f) : f \in FilesRead}

\* What an extra file is imported from is not a cycle: it counts as imported.
Follows(f, g) == ~(turn = "extra" /\ g = extra) /\ \E i \in Imports(f) : i.file = g

\* In every set of files, some file imports none of the set.
Acyclic == \A S \in (SUBSET FilesRead) \ {{}} : \E f \in S : \A g \in S : ~Follows(f, g)

\* currently_parsing: a cycle of imports is reported, and nothing else is; the input file is
\* not marked while it is read, but a cycle through it is found when it comes round again.
CyclesReported == /\ phase = "error" => ~Acyclic
                  /\ phase = "done" => Acyclic

\* imported_files: however many files import a file and in whatever way, it is read once; and
\* so is the input file, which is in none of the sets while it is read, in a program that has
\* no circular import.
ReadOnce == /\ \A f \in Source \ {Main} : reads[f] <= 1
            /\ phase = "done" => reads[Main] = 1

\* The parser's recursion ends: no file is entered while it is being read, but for the
\* input file, once.
DepthBounded == Len(reading) <= Cardinality(Source) + 1

\* module_prefix_for: files of the same name do not share a prefix.
PrefixesDistinct == \A f, g \in File : f # g /\ prefixes[f] = prefixes[g] => prefixes[f] = NoPrefix

\* The type that a body behind the prefix p means by s, and by a::s.
Resolve(p, s) ==
    IF p = NoPrefix /\ s \in DOMAIN selective THEN selective[s]
    ELSE IF p = NoPrefix \/ \E t \in types : t.prefix = NoPrefix /\ t.name = s
    THEN <<NoPrefix, s>> ELSE <<p, s>>
Through(a, s) == IF a \in DOMAIN modules THEN <<modules[a].base, s>> ELSE <<a, s>>

\* It is the type of the file f, and of no other.
Finds(ref, f) == {t.file : t \in {u \in types : <<u.prefix, u.name>> = ref}} = {f}

\* Nothing else that was read declares a type of this name, or selects one by this name.
Unshadowed(f) == /\ \A g \in FilesRead \ {f} : struct[g] # struct[f]
                 /\ \A i \in Written : i.op = "only" /\ i.local = struct[f]
                                           => i.file = f /\ i.symbol = struct[f]

\* A body's own type is found by its name, whatever was read between the declaration and the
\* body and with whatever prefixes, unless the name is shadowed.
OwnTypeFound == body.file \in Source /\ Unshadowed(body.file)
                    => Finds(Resolve(body.prefix, struct[body.file]), body.file)

\* Every import of i's file is written like i.
Alike(i) == \A j \in Written : j.file = i.file => j = i

\* Nothing else takes the name that i introduces.
Unclaimed(i) ==
    \A j \in Written :
        CASE i.op = "as" -> /\ j.op = "as" /\ j.alias = i.alias => j.file = i.file
                            /\ j.op = "plain" /\ Base[j.file] = i.alias => j.file \in Header
          [] i.op = "only" -> j.op = "only" /\ j.local = i.local => j = i
          [] OTHER -> TRUE

\* What the import i says a body can write for the type of i's file.
Meant(i) == CASE i.op = "as" -> Through(i.alias, struct[i.file])
              [] i.op = "only" -> Resolve(body.prefix, i.local)
              [] OTHER -> Resolve(body.prefix, struct[i.file])

\* An import gives a body what it says, whatever was read before, if every import of the file
\* is written alike and the names are not taken; the names that `{ ... }` and `*` import hold
\* in bodies without a prefix; and an extra file is not imported by a name.
ImportsBind ==
    body.file \in Source =>
        \A i \in Imports(body.file) :
            /\ i.file \in Module /\ Alike(i) /\ Unclaimed(i) /\ Unshadowed(i.file)
            /\ i.op \in {"only", "all"} => body.prefix = NoPrefix
            /\ i.op \in {"only", "as"} => i.file # extra
            /\ i.op = "only" => i.symbol = struct[i.file]
            => Finds(Meant(i), i.file)

\* export import: who imports a file by the name a finds behind a::b what that file exports
\* as b, if the exporting import is the one that reads the file.
ExportsBind ==
    body.file \in Source =>
        \A i \in Imports(body.file) : \A j \in Imports(i.file) :
            /\ i.op = "as" /\ i.file \in Module \ {extra} /\ Alike(i) /\ Unclaimed(i)
            /\ j.op = "as" /\ j.export /\ j.file \in Module \ {extra} /\ Unshadowed(j.file)
            /\ \A f \in FilesRead \ {i.file} : \A k \in Imports(f) : k.file # j.file
            /\ \A k \in Imports(i.file) : k.file = j.file \/ (k.op = "as" /\ k.alias = j.alias)
                                            => k = j
            => Finds(Through(<<modules[i.alias].base, j.alias>>, struct[j.file]), j.file)

\* The alias of a header is registered, also by an import that does not read it again.
HeaderAliased ==
    body.file \in Source =>
        \A i \in Imports(body.file) :
            i.op = "as" /\ i.file \in Header /\ Unclaimed(i) => /\ i.alias \in DOMAIN modules
                                                                /\ modules[i.alias].file = i.file
=============================================================================
