--------------------------- MODULE Imports_proof ---------------------------
(***************************************************************************)
(* Proofs about Imports, for any files, names and texts.                   *)
(*                                                                         *)
(* The files that are being read are a path of imports (PathInv), and each *)
(* but the root is marked (MarkInv).  Files that have been read import     *)
(* only such files, and in no circle (CycleInv), so that a circle must     *)
(* come round to a file that is being read.  Only the input file can be    *)
(* read twice at a time, and its second reading ends in the error          *)
(* (AgainInv).  A type carries the prefix of its file, which no other file *)
(* has (PrefixInv, TypesInv), and so do the bodies (BodiesInv).  Behind    *)
(* every alias and every file that is being read stands the import that    *)
(* registered or opened it (NamesInv, FramesInv), so that a type has the   *)
(* prefix which that import asked for (GivenInv); what a file has passed   *)
(* it has declared and registered (DeclaresInv, SeenInv), and bodies are   *)
(* parsed when everything but std has been read (LateInv).                 *)
(***************************************************************************)
EXTENDS Imports, FiniteSetTheorems, SequenceTheorems,
        WellFoundedInduction, TLAPS

-----------------------------------------------------------------------------
(* Numbers, items and prefixes *)

Less == OpToRel(<, Nat)

\* The library's relation is the order of the numbers.
LEMMA LessIsLess == \A x, y \in Nat : y < x => <<y, x>> \in Less
BY DEF OpToRel, Less

\* It is well-founded.
LEMMA LessWellFounded == IsWellFoundedOn(Less, Nat)
BY NatLessThanWellFounded DEF Less

\* Every set of numbers has a least one.
LEMMA Least ==
    ASSUME NEW S, S \subseteq Nat, S # {}
    PROVE  \E x \in S : \A y \in S : x <= y
<1>1. PICK x \in S : \A y \in S : ~(<<y, x>> \in Less)
    BY LessWellFounded, WFMin
<1>2. \A y \in S : x <= y
    <2> TAKE y \in S
    <2>1. x \in Nat /\ y \in Nat OBVIOUS
    <2>2. ~(y < x) BY <1>1, <2>1, LessIsLess
    <2> QED BY <2>1, <2>2
<1> QED BY <1>2

\* What an item has, by what it is.
LEMMA ItemType ==
    ASSUME NEW i \in Item
    PROVE  /\ i.op \in {"plain", "all", "as", "only", "drop"}
           /\ i.op = "drop" <=> i = [op |-> "drop"]
           /\ i.op # "drop" => i.file \in File
           /\ i.op = "as" => i.alias \in ModuleName /\ i.export \in BOOLEAN
           /\ i.op = "only" => i.symbol \in Symbol /\ i.local \in Symbol
BY ImportsAssumption DEF ImportsAssumption, AnyItem

\* The files and the names of files that the assumption speaks of.
LEMMA FileFacts ==
    /\ Main \in Source /\ Std \in Source /\ Source \subseteq File /\ Header \subseteq File
    /\ Extra \subseteq Source /\ Main # Std /\ Main \notin Extra /\ Std \notin Extra
    /\ NoFile \notin Source /\ NoPrefix \notin Prefix /\ ModuleName \subseteq Prefix
    /\ IsFiniteSet(File) /\ IsFiniteSet(Source) /\ Cardinality(Source) \in Nat
    /\ \A f \in File : Base[f] \in ModuleName /\ Qualified[f] \in ModuleName
<1>1. IsFiniteSet(Source)
    BY ImportsAssumption, FS_Subset DEF ImportsAssumption, File
<1> QED BY <1>1, ImportsAssumption, FS_CardinalityType DEF ImportsAssumption, Source, File, ModuleName, Prefix

\* There are fewer files than numbers to put behind a name.
LEMMA Numbered ==
    ASSUME prefixes \in [File -> Prefix \cup {NoPrefix}], NEW f \in File, NEW q
    PROVE  \E n \in 2..(Cardinality(File) + 1) :
               /\ Free(f, <<q, n>>)
               /\ \A m \in 2..(n - 1) : ~Free(f, <<q, m>>)
<1> DEFINE C == Cardinality(File)
           N == 2..(C + 1)
           S == {n \in N : Free(f, <<q, n>>)}
<1>1. IsFiniteSet(File) /\ C \in Nat
    BY FileFacts, FS_CardinalityType
<1>2. IsFiniteSet(File \ {f}) /\ Cardinality(File \ {f}) = C - 1
    BY <1>1, FS_RemoveElement
<1>3. IsFiniteSet(N) /\ Cardinality(N) = C
    <2>1. C >= 1 BY <1>1, <1>2, FS_CardinalityType
    <2>2. 2 \in Int /\ C + 1 \in Int /\ ~(2 > C + 1) BY <1>1, <2>1
    <2>3. IsFiniteSet(2..(C + 1)) /\ Cardinality(2..(C + 1)) = IF 2 > C + 1 THEN 0 ELSE (C + 1) - 2 + 1
        BY <2>2, FS_Interval
    <2> QED BY <2>2, <2>3, <1>1
<1>4. S # {}
    <2> SUFFICES ASSUME \A n \in N : \E g \in File \ {f} : prefixes[g] = <<q, n>>
                 PROVE  FALSE
        BY DEF Free
    <2> DEFINE own == [n \in N |-> CHOOSE g \in File \ {f} : prefixes[g] = <<q, n>>]
    <2>1. \A n \in N : own[n] \in File \ {f} /\ prefixes[own[n]] = <<q, n>>
        OBVIOUS
    <2>2. own \in [N -> File \ {f}]
        BY <2>1
    <2>3. C - 1 < C BY <1>1
    <2> HIDE DEF own, N
    <2>4. \E x, y \in N : x # y /\ own[x] = own[y]
        BY <2>2, <2>3, <1>2, <1>3, FS_PigeonHole
    <2> QED BY <2>1, <2>4
<1>5. S \subseteq Nat
    BY <1>1
<1> HIDE DEF S
<1>6. PICK n \in S : \A m \in S : n <= m
    BY <1>4, <1>5, Least
<1>7. n \in N /\ Free(f, <<q, n>>)
    BY DEF S
<1>8. \A m \in 2..(n - 1) : ~Free(f, <<q, m>>)
    BY <1>1, <1>6, <1>7 DEF S
<1> QED BY <1>7, <1>8

\* module_prefix_for: the prefix is one, stays, and is nobody else's.
LEMMA PrefixForFacts ==
    ASSUME prefixes \in [File -> Prefix \cup {NoPrefix}], NEW f \in File
    PROVE  /\ PrefixFor(f) \in Prefix
           /\ IF prefixes[f] # NoPrefix THEN PrefixFor(f) = prefixes[f] ELSE Free(f, PrefixFor(f))
<1> DEFINE q == Qualified[f]
           Good(n) == /\ Free(f, <<q, n>>)
                      /\ \A m \in 2..(n - 1) : ~Free(f, <<q, m>>)
           n == CHOOSE n \in 2..(Cardinality(File) + 1) : Good(n)
<1>1. n \in 2..(Cardinality(File) + 1) /\ Good(n)
    BY Numbered
<1>2. Cardinality(File) \in Nat
    BY FileFacts, FS_CardinalityType
<1>3. \A x \in 2..(Cardinality(File) + 1) : x \in Nat \ {0, 1} BY <1>2
<1>4. PrefixFor(f) = IF prefixes[f] # NoPrefix THEN prefixes[f]
                     ELSE IF Free(f, Base[f]) THEN Base[f]
                     ELSE IF Free(f, q) THEN q ELSE <<q, n>>
    BY DEF PrefixFor
<1> HIDE DEF n, Good
<1>5. q \in ModuleName /\ Base[f] \in ModuleName /\ <<q, n>> \in Prefix
    BY <1>1, <1>3, FileFacts DEF Prefix
<1> HIDE DEF q
<1>6. Free(f, <<q, n>>) BY <1>1 DEF Good
<1> QED BY <1>4, <1>5, <1>6, FileFacts

-----------------------------------------------------------------------------
(* The files that are being read *)

\* The top of the stack moves on; the other files and what they are stay.
LEMMA MovedFacts ==
    ASSUME NEW s \in Seq(OpenFile), s # <<>>
    PROVE  /\ Behind(s) \in Seq(OpenFile) /\ Len(Behind(s)) = Len(s)
           /\ \A n \in 1..(Len(s) - 1) : Behind(s)[n] = s[n]
           /\ LET t == Behind(s)[Len(s)]
                  o == s[Len(s)]
              IN  t.file = o.file /\ t.by = o.by /\ t.prefix = o.prefix /\ t.at = o.at + 1
<1>1. Len(s) \in 1..Len(s) /\ s[Len(s)] \in OpenFile OBVIOUS
<1>2. [s[Len(s)] EXCEPT !.at = @ + 1] \in OpenFile BY <1>1 DEF OpenFile
<1> QED BY <1>1, <1>2 DEF Behind, OpenFile

\* The file on top ends.
LEMMA PopFacts ==
    ASSUME NEW s \in Seq(OpenFile), s # <<>>
    PROVE  LET t == SubSeq(s, 1, Len(s) - 1)
           IN  /\ t \in Seq(OpenFile) /\ Len(t) = Len(s) - 1
               /\ \A n \in 1..(Len(s) - 1) : t[n] = s[n]
<1> DEFINE d == Len(s) - 1
           t == SubSeq(s, 1, d)
<1>1. Len(s) \in Nat /\ d \in Nat /\ d <= Len(s) OBVIOUS
<1>2. 1 \in 1..(Len(s) + 1) /\ d \in (1 - 1)..Len(s) BY <1>1
<1>3. /\ t \in Seq(OpenFile)
      /\ Len(t) = IF 1 <= d THEN d - 1 + 1 ELSE 0
      /\ \A i \in 1 .. d - 1 + 1 : t[i] = s[1 + i - 1]
    BY <1>2, SubSeqProperties
<1> HIDE DEF t, d
<1>4. Len(t) = d BY <1>1, <1>3
<1>5. \A n \in 1..d : n \in 1 .. d - 1 + 1 /\ 1 + n - 1 = n BY <1>1
<1>6. \A n \in 1..d : t[n] = s[n] BY <1>3, <1>5
<1> QED BY <1>3, <1>4, <1>6 DEF t, d

\* A file is entered.
LEMMA FrameType ==
    ASSUME FilesTypeOK, NEW f \in Source, NEW by \in {"std", "plain", "as", "only", "all"}
    PROVE  /\ Opening(f, by) \in OpenFile
           /\ Opening(f, by).file = f /\ Opening(f, by).at = 1 /\ Opening(f, by).by = by
           /\ Opening(f, by).prefix = prefix
<1>1. prefix \in Prefix \cup {NoPrefix} BY DEF FilesTypeOK
<1> QED BY <1>1 DEF Opening, OpenFile

\* What a file that is opened may hold.
LEMMA TextType ==
    ASSUME FilesTypeOK, NEW f \in Source, NEW t \in Texts(f)
    PROVE  t \in Seq(Item) /\ Len(t) <= MaxItems
<1>1. CASE f = Std \/ reads[f] > 0
    BY <1>1 DEF Texts, FilesTypeOK
<1>2. CASE ~(f = Std \/ reads[f] > 0)
    <2>0. MaxItems \in Nat BY ImportsAssumption DEF ImportsAssumption
    <2>1. IsFiniteSet(FilesRead) /\ IsFiniteSet(1..MaxItems)
        <3>1. FilesRead \subseteq Source BY DEF FilesRead
        <3>2. IsFiniteSet(FilesRead) BY <3>1, FileFacts, FS_Subset
        <3>3. 1 \in Int /\ MaxItems \in Int BY <2>0
        <3> QED BY <3>2, <3>3, FS_Interval
    <2>2. IsFiniteSet(FilesRead \X (1..MaxItems)) BY <2>1, FS_Product
    <2>3. IsFiniteSet(Places) BY <2>2, FS_Subset DEF Places
    <2>4. Cardinality(Places) \in Nat BY <2>3, FS_CardinalityType
    <2>5. PICK n \in 0..(MaxItems - Cardinality(Places)) : t \in [1..n -> Item]
        BY <1>2 DEF Texts
    <2>6. n \in Nat /\ n <= MaxItems BY <2>0, <2>4, <2>5
    <2> QED BY <2>5, <2>6
<1> QED BY <1>1, <1>2

Frames == 1..Len(reading)
Opened(n) == reading[n].file
Same(n) == /\ reading'[n].file = reading[n].file /\ reading'[n].by = reading[n].by
           /\ reading'[n].prefix = reading[n].prefix

\* The file on top goes on.
LEMMA Advances ==
    ASSUME FilesTypeOK, reading # <<>>, reading' = Behind(reading)
    PROVE  /\ reading' \in Seq(OpenFile) /\ Len(reading) \in Nat \ {0} /\ Len(reading') = Len(reading)
           /\ \A n \in Frames : Same(n)
           /\ \A n \in 1..(Len(reading) - 1) : reading'[n] = reading[n]
           /\ reading'[Len(reading)].at = reading[Len(reading)].at + 1
<1>1. reading \in Seq(OpenFile) BY DEF FilesTypeOK
<1>2. Len(reading) \in Nat \ {0} BY <1>1
<1>3. \A n \in Frames : n \in 1..(Len(reading) - 1) \/ n = Len(reading) BY <1>2 DEF Frames
<1> QED BY <1>1, <1>2, <1>3, MovedFacts DEF Same

\* The file on top goes on, and another one is read.
LEMMA Enters ==
    ASSUME FilesTypeOK, reading # <<>>, NEW f \in Source, NEW by \in {"std", "plain", "as", "only", "all"},
           reading' = Append(Behind(reading), Opening(f, by))
    PROVE  /\ reading' \in Seq(OpenFile) /\ Len(reading) \in Nat \ {0} /\ Len(reading') = Len(reading) + 1
           /\ \A n \in Frames : Same(n)
           /\ \A n \in 1..(Len(reading) - 1) : reading'[n] = reading[n]
           /\ reading'[Len(reading)].at = reading[Len(reading)].at + 1
           /\ LET t == reading'[Len(reading')]
              IN  t.file = f /\ t.at = 1 /\ t.by = by /\ t.prefix = prefix
<1> DEFINE m == Behind(reading)
           t == Opening(f, by)
<1>1. reading \in Seq(OpenFile) BY DEF FilesTypeOK
<1>2. Len(reading) \in Nat \ {0} BY <1>1
<1>3. \A n \in Frames : n \in 1..(Len(reading) - 1) \/ n = Len(reading) BY <1>2 DEF Frames
<1>4. t \in OpenFile /\ t.file = f /\ t.at = 1 /\ t.by = by /\ t.prefix = prefix BY FrameType
<1>5. /\ m \in Seq(OpenFile) /\ Len(m) = Len(reading)
      /\ \A n \in 1..(Len(reading) - 1) : m[n] = reading[n]
      /\ m[Len(reading)].file = reading[Len(reading)].file /\ m[Len(reading)].by = reading[Len(reading)].by
      /\ m[Len(reading)].prefix = reading[Len(reading)].prefix
      /\ m[Len(reading)].at = reading[Len(reading)].at + 1
    BY <1>1, MovedFacts
<1> HIDE DEF m, t
<1>6. /\ reading' = Append(m, t) /\ reading' \in Seq(OpenFile) /\ Len(reading') = Len(reading) + 1
      /\ \A n \in Frames : reading'[n] = m[n]
      /\ reading'[Len(reading) + 1] = t
    BY <1>4, <1>5 DEF m, t, Frames
<1> QED BY <1>2, <1>3, <1>4, <1>5, <1>6 DEF Same

\* The file on top ends.
LEMMA Leaves ==
    ASSUME FilesTypeOK, reading # <<>>, reading' = Pop
    PROVE  /\ reading' \in Seq(OpenFile) /\ Len(reading) \in Nat \ {0} /\ Len(reading') = Len(reading) - 1
           /\ \A n \in 1..(Len(reading) - 1) : reading'[n] = reading[n]
<1>1. reading \in Seq(OpenFile) BY DEF FilesTypeOK
<1>2. Len(reading) \in Nat \ {0} BY <1>1
<1> QED BY <1>1, <1>2, PopFacts DEF Pop

-----------------------------------------------------------------------------
(* Types, and who is at the bottom of the stack *)

\* A value in the range is put into a map.
LEMMA PutType ==
    ASSUME NEW map, NEW V, \A k \in DOMAIN map : map[k] \in V, NEW key, NEW val \in V
    PROVE  /\ DOMAIN Put(map, key, val) = DOMAIN map \cup {key}
           /\ \A k \in DOMAIN Put(map, key, val) : Put(map, key, val)[k] \in V
           /\ \A k \in DOMAIN PutNew(map, key, val) : PutNew(map, key, val)[k] \in V
BY DEF Put, PutNew

\* The types that TypeOK gives the two maps of the imports.
ModuleType == [file : File, base : Prefix]
SelectType == (Prefix \cup {NoPrefix}) \X Symbol

\* What an import selects.
LEMMA Selects ==
    ASSUME FilesTypeOK, NEW i \in Item, i.op # "drop", Select(i)
    PROVE  \A s \in DOMAIN selective' : selective'[s] \in SelectType
<1>1. \A s \in DOMAIN selective : selective[s] \in SelectType BY DEF FilesTypeOK, SelectType
<1>2. CASE i.op = "only"
    <2>1. i.file \in File /\ i.symbol \in Symbol BY <1>2, ItemType
    <2>2. prefixes \in [File -> Prefix \cup {NoPrefix}] BY DEF FilesTypeOK
    <2>3. PrefixFor(i.file) \in Prefix BY <2>1, <2>2, PrefixForFacts
    <2> DEFINE val == <<PrefixFor(i.file), i.symbol>>
               new == Put(selective, i.local, val)
    <2>4. val \in SelectType BY <2>1, <2>3 DEF SelectType
    <2> HIDE DEF val
    <2>5. \A s \in DOMAIN new : new[s] \in SelectType BY <1>1, <2>4, PutType
    <2> QED BY <1>2, <2>5 DEF Select, val
<1> QED BY <1>1, <1>2 DEF Select

\* What an import names.
LEMMA Aliases ==
    ASSUME FilesTypeOK, NEW i \in Item, i.op # "drop"
    PROVE  \A a \in DOMAIN Alias(i) : Alias(i)[a] \in ModuleType
<1> DEFINE own == [file |-> i.file, base |-> PrefixFor(i.file)]
           base == [file |-> i.file, base |-> Base[i.file]]
           named == PutNew(modules, i.alias, own)
<1>1. \A a \in DOMAIN modules : modules[a] \in ModuleType BY DEF FilesTypeOK, ModuleType
<1>2. i.file \in File BY ItemType
<1>3. prefixes \in [File -> Prefix \cup {NoPrefix}] BY DEF FilesTypeOK
<1>4. PrefixFor(i.file) \in Prefix BY <1>2, <1>3, PrefixForFacts
<1>5. own \in ModuleType BY <1>2, <1>4 DEF ModuleType
<1>6. base \in ModuleType BY <1>2, FileFacts DEF ModuleType
<1> HIDE DEF own, base
<1>7. \A a \in DOMAIN named : named[a] \in ModuleType BY <1>1, <1>5, PutType
<1> HIDE DEF named
<1>8. Alias(i) = CASE i.op = "as" -> IF i.export /\ prefix # NoPrefix
                                     THEN PutNew(named, <<prefix, i.alias>>, own) ELSE named
                   [] i.op = "plain" -> PutNew(modules, Base[i.file], base)
                   [] OTHER -> modules
    BY DEF Alias, named, own, base
<1> DEFINE both == PutNew(named, <<prefix, i.alias>>, own)
           plain == PutNew(modules, Base[i.file], base)
<1>9. \A a \in DOMAIN both : both[a] \in ModuleType BY <1>5, <1>7, PutType
<1>10. \A a \in DOMAIN plain : plain[a] \in ModuleType BY <1>1, <1>6, PutType
<1> HIDE DEF both, plain, ModuleType
<1>11. Alias(i) \in {both, named, plain, modules} BY <1>8 DEF both, plain
<1> QED BY <1>1, <1>7, <1>9, <1>10, <1>11

\* A file gets its prefix: the others keep theirs.
LEMMA Allots ==
    ASSUME FilesTypeOK, NEW f \in File, Allot(f)
    PROVE  /\ prefixes' \in [File -> Prefix \cup {NoPrefix}]
           /\ PrefixFor(f) \in Prefix /\ prefixes'[f] = PrefixFor(f) /\ prefixes'[f] # NoPrefix
           /\ \A g \in File \ {f} : prefixes'[g] = prefixes[g]
           /\ IF prefixes[f] # NoPrefix THEN prefixes'[f] = prefixes[f]
              ELSE \A g \in File \ {f} : prefixes'[g] # prefixes'[f]
<1>1. prefixes \in [File -> Prefix \cup {NoPrefix}] BY DEF FilesTypeOK
<1>2. /\ PrefixFor(f) \in Prefix
      /\ IF prefixes[f] # NoPrefix THEN PrefixFor(f) = prefixes[f] ELSE Free(f, PrefixFor(f))
    BY <1>1, PrefixForFacts
<1> QED BY <1>1, <1>2, FileFacts DEF Allot, Free

\* The alias of a header.
LEMMA AliasHeaderType ==
    ASSUME FilesTypeOK, NEW i \in Item, i.op # "drop", AliasHeader(i)
    PROVE  /\ \A a \in DOMAIN modules' : modules'[a] \in ModuleType
           /\ prefixes' \in [File -> Prefix \cup {NoPrefix}]
<1>1. \A a \in DOMAIN modules : modules[a] \in ModuleType BY DEF FilesTypeOK, ModuleType
<1>2. CASE i.op = "as" /\ i.alias \notin DOMAIN modules
    <2>1. i.file \in File BY ItemType
    <2>2. Allot(i.file) BY <1>2 DEF AliasHeader
    <2> DEFINE val == [file |-> i.file, base |-> PrefixFor(i.file)]
    <2>3. val \in ModuleType BY <2>1, <2>2, Allots DEF ModuleType
    <2>4. modules' = Put(modules, i.alias, val) BY <1>2 DEF AliasHeader
    <2> HIDE DEF val
    <2> QED BY <1>1, <2>1, <2>2, <2>3, <2>4, Allots, PutType
<1> QED BY <1>1, <1>2 DEF AliasHeader, FilesTypeOK

\* What `*` selects.
LEMMA WildcardType ==
    ASSUME FilesTypeOK
    PROVE  \A s \in DOMAIN WildcardSymbols : WildcardSymbols[s] \in SelectType
<1>1. \A t \in types : t.name \in Symbol BY DEF FilesTypeOK
<1> QED BY <1>1 DEF FilesTypeOK, WildcardSymbols, SelectType

\* Who is at the bottom of the stack: the file of the driver, or the std file that a body asks
\* for.
RootInv ==
    /\ phase = "parse" => reading # <<>>
    /\ phase = "bodies" => Len(reading) <= 1
    /\ phase = "done" => reading = <<>>
    /\ turn = "extra" => extra \in Extra
    /\ \A n \in Frames :
        /\ reading[n].by = "root" <=> n = 1 /\ phase # "bodies"
        /\ reading[n].by = "root" => Opened(n) = IF turn = "main" THEN Main ELSE extra
        /\ reading[n].by = "std" => Opened(n) = Std

\* The first state has the types.
LEMMA InitType == ReadInit => FilesTypeOK /\ RootInv
<1> SUFFICES ASSUME ReadInit PROVE FilesTypeOK /\ RootInv OBVIOUS
<1> USE DEF ReadInit
<1>0. MaxItems \in Nat /\ Namings \subseteq [Source -> Symbol]
    BY ImportsAssumption DEF ImportsAssumption
<1>1. PICK n \in 0..MaxItems : \E t \in [1..n -> Item] :
                                  text = [f \in Source |-> IF f = Main THEN t ELSE <<>>]
    OBVIOUS
<1>2. PICK t \in [1..n -> Item] : text = [f \in Source |-> IF f = Main THEN t ELSE <<>>]
    BY <1>1
<1>3. t \in Seq(Item) /\ Len(t) <= MaxItems BY <1>0
<1>4. text \in [Source -> Seq(Item)] /\ \A f \in Source : Len(text[f]) <= MaxItems
    BY <1>0, <1>2, <1>3
<1> DEFINE r == [file |-> Main, at |-> 1, by |-> "root", prefix |-> NoPrefix]
<1>5. r \in OpenFile BY FileFacts DEF OpenFile
<1>6. reading = <<r>> /\ r.by = "root" /\ r.file = Main OBVIOUS
<1> HIDE DEF r
<1>7. reading \in Seq(OpenFile) /\ Len(reading) = 1 /\ reading[1] = r BY <1>5, <1>6
<1>8. RootInv BY <1>6, <1>7 DEF RootInv, Frames, Opened
<1>9. reads \in [Source -> Nat] /\ prefixes \in [File -> Prefix \cup {NoPrefix}] OBVIOUS
<1>10. pending \in Seq([file : Source, prefix : Prefix \cup {NoPrefix}]) OBVIOUS
<1>11. body \in [file : Source \cup {NoFile}, prefix : Prefix \cup {NoPrefix}] OBVIOUS
<1>12. (\A a \in DOMAIN modules : modules[a] \in [file : File, base : Prefix])
       /\ \A a \in DOMAIN selective : selective[a] \in (Prefix \cup {NoPrefix}) \X Symbol
    OBVIOUS
<1>13. struct \in Namings /\ extra \in Extra \cup {NoFile} /\ turn = "main" /\ phase = "parse"
       /\ prefix = NoPrefix /\ parsing = {} /\ imported = {} /\ types = {} /\ redefined = FALSE
    OBVIOUS
<1> QED BY <1>4, <1>7, <1>8, <1>9, <1>10, <1>11, <1>12, <1>13 DEF FilesTypeOK

\* An import: the file that has it is there, and goes on.
LEMMA AtFacts ==
    ASSUME FilesTypeOK, RootInv, NEW i \in Item, AtItem(i)
    PROVE  /\ reading # <<>> /\ Len(reading) \in Frames /\ Here \in OpenFile
           /\ phase = "parse" /\ Here.at \in 1..Len(text[Here.file]) /\ text[Here.file][Here.at] = i
<1>1. reading # <<>> /\ reading \in Seq(OpenFile) BY DEF AtItem, RootInv, FilesTypeOK
<1>2. Len(reading) \in Frames /\ Here \in OpenFile BY <1>1 DEF Frames, Here
<1>3. Here.file \in Source /\ Here.at \in Nat \ {0} BY <1>2 DEF OpenFile
<1>4. Len(text[Here.file]) \in Nat BY <1>3 DEF FilesTypeOK
<1> QED BY <1>1, <1>2, <1>3, <1>4 DEF AtItem

\* The types are kept.
LEMMA TypeStep == FilesTypeOK /\ RootInv /\ [ReadNext]_readVars => FilesTypeOK'
<1> SUFFICES ASSUME FilesTypeOK, RootInv, [ReadNext]_readVars PROVE FilesTypeOK' OBVIOUS
<1> USE DEF given, context, files, names, bodies
<1>0. reads \in [Source -> Nat] /\ parsing \subseteq Source /\ imported \subseteq File
    BY DEF FilesTypeOK
<1>1. ASSUME NEW i \in Item, ImportAgain(i) PROVE FilesTypeOK'
    <2>1. reading # <<>> /\ i.op # "drop" /\ i.file \in File
        BY <1>1, AtFacts, ItemType DEF ImportAgain, Importing
    <2>2. reading' \in Seq(OpenFile)
        BY <1>1, <2>1, Advances DEF ImportAgain, Advance
    <2>3. /\ \A a \in DOMAIN modules' : modules'[a] \in ModuleType
          /\ prefixes' \in [File -> Prefix \cup {NoPrefix}]
        BY <1>1, <2>1, AliasHeaderType DEF ImportAgain, FilesTypeOK, ModuleType
    <2> QED BY <1>1, <2>2, <2>3 DEF ImportAgain, Advance, FilesTypeOK, ModuleType
<1>2. ASSUME NEW i \in Item, Circular(i) PROVE FilesTypeOK'
    BY <1>2 DEF Circular, FilesTypeOK
<1>3. ASSUME NEW i \in Item, ImportHeader(i) PROVE FilesTypeOK'
    <2>1. reading # <<>> /\ i.op # "drop" /\ i.file \in File
        BY <1>3, AtFacts, ItemType DEF ImportHeader, Importing
    <2>2. reading' \in Seq(OpenFile)
        BY <1>3, <2>1, Advances DEF ImportHeader, Advance
    <2>3. /\ \A a \in DOMAIN modules' : modules'[a] \in ModuleType
          /\ prefixes' \in [File -> Prefix \cup {NoPrefix}]
        BY <1>3, <2>1, AliasHeaderType, Allots DEF ImportHeader, FilesTypeOK, ModuleType
    <2>4. \A s \in DOMAIN selective' : selective'[s] \in SelectType
        BY <1>3, <2>1, Selects DEF ImportHeader
    <2> QED BY <1>3, <2>1, <2>2, <2>3, <2>4 DEF ImportHeader, Advance, FilesTypeOK, ModuleType, SelectType
<1>4. ASSUME NEW i \in Item, Open(i) PROVE FilesTypeOK'
    <2>1. reading # <<>> /\ i.op \in {"plain", "as", "only", "all"} /\ i.file \in Source
        BY <1>4, AtFacts, ItemType DEF Open, Importing
    <2>2. reading' \in Seq(OpenFile)
        BY <1>4, <2>1, Enters DEF Open
    <2>3. \A a \in DOMAIN modules' : modules'[a] \in ModuleType
        BY <1>4, <2>1, Aliases DEF Open
    <2>4. \A s \in DOMAIN selective' : selective'[s] \in SelectType
        BY <1>4, <2>1, Selects DEF Open
    <2>5. prefixes' \in [File -> Prefix \cup {NoPrefix}] /\ prefix' \in Prefix \cup {NoPrefix}
        BY <1>4, <2>1, Allots, FileFacts DEF Open, FilesTypeOK
    <2>6. text' \in [Source -> Seq(Item)] /\ \A f \in Source : Len(text'[f]) <= MaxItems
        BY <1>4, <2>1, TextType DEF Open, FilesTypeOK
    <2>7. reads' \in [Source -> Nat] BY <1>4, <2>1 DEF Open, FilesTypeOK
    <2>8. parsing' \subseteq Source BY <1>4, <2>1 DEF Open, FilesTypeOK
    <2> QED BY <1>4, <2>2, <2>3, <2>4, <2>5, <2>6, <2>7, <2>8 DEF Open, FilesTypeOK, ModuleType, SelectType
<1>5. CASE ImplDrop
    <2>1. reading # <<>>
        BY <1>5, AtFacts, FileFacts DEF ImplDrop, AtItem, RootInv
    <2>2. reading' \in Seq(OpenFile)
        BY <1>5, <2>1, Advances, Enters, FileFacts DEF ImplDrop, LoadStd
    <2>3. reads' \in [Source -> Nat] /\ parsing' \subseteq Source
        BY <1>5, <1>0, FileFacts DEF ImplDrop, LoadStd
    <2> QED BY <1>5, <2>2, <2>3 DEF ImplDrop, FilesTypeOK
<1>6. CASE DeclareTypes
    <2>1. reading # <<>> /\ reading \in Seq(OpenFile) BY <1>6 DEF DeclareTypes, FilesTypeOK
    <2>2. Here \in OpenFile BY <2>1 DEF Here
    <2>3. Here.file \in Source BY <2>2 DEF OpenFile
    <2>4. reading' \in Seq(OpenFile) BY <1>6, <2>1, Advances DEF DeclareTypes, Advance
    <2>5. struct[Here.file] \in Symbol
        BY <2>3, ImportsAssumption DEF FilesTypeOK, ImportsAssumption
    <2>6. types' \subseteq [prefix : Prefix \cup {NoPrefix}, name : Symbol, file : Source]
        BY <1>6, <2>3, <2>5 DEF DeclareTypes, FilesTypeOK
    <2>7. pending' \in Seq([file : Source, prefix : Prefix \cup {NoPrefix}])
        BY <1>6, <2>3 DEF DeclareTypes, FilesTypeOK
    <2>8. redefined' \in BOOLEAN BY <1>6 DEF DeclareTypes, FilesTypeOK
    <2> QED BY <1>6, <2>4, <2>6, <2>7, <2>8 DEF DeclareTypes, Advance, FilesTypeOK
<1>7. CASE EndOfFile
    <2>1. reading # <<>> /\ reading \in Seq(OpenFile) BY <1>7 DEF EndOfFile, FilesTypeOK
    <2>2. Here \in OpenFile BY <2>1 DEF Here
    <2>3. Here.file \in Source /\ Here.prefix \in Prefix \cup {NoPrefix} BY <2>2 DEF OpenFile
    <2>4. reading' \in Seq(OpenFile) BY <1>7, <2>1, Leaves DEF EndOfFile
    <2>5. \A s \in DOMAIN selective' : selective'[s] \in SelectType
        <3>1. \A s \in DOMAIN selective : selective[s] \in SelectType BY DEF FilesTypeOK, SelectType
        <3> QED BY <1>7, <3>1, WildcardType DEF EndOfFile
    <2>6. parsing' \subseteq Source /\ imported' \subseteq File
        BY <1>7, <2>3, FileFacts DEF EndOfFile, FilesTypeOK
    <2>7. phase' \in {"parse", "bodies", "done", "error"} /\ prefix' \in Prefix \cup {NoPrefix}
        BY <1>7, <2>3 DEF EndOfFile, FilesTypeOK
    <2> QED BY <1>7, <2>4, <2>5, <2>6, <2>7 DEF EndOfFile, FilesTypeOK, SelectType
<1>8. CASE ParseBody
    <2> DEFINE P == [file : Source, prefix : Prefix \cup {NoPrefix}]
    <2>1. pending \in Seq(P) /\ pending # <<>> BY <1>8 DEF ParseBody, FilesTypeOK
    <2> HIDE DEF P
    <2>2. Head(pending) \in P /\ Tail(pending) \in Seq(P) BY <2>1
    <2> USE DEF P
    <2> QED BY <1>8, <2>2 DEF ParseBody, FilesTypeOK
<1>9. CASE LoopOverArray
    <2>1. reading' \in Seq(OpenFile)
        <3>1. Opening(Std, "std") \in OpenFile BY FrameType, FileFacts
        <3>2. reading' = <<>> \/ reading' = Append(<<>>, Opening(Std, "std"))
            BY <1>9 DEF LoopOverArray, LoadStd
        <3>3. \A r \in OpenFile : Append(<<>>, r) \in Seq(OpenFile) OBVIOUS
        <3>4. <<>> \in Seq(OpenFile) OBVIOUS
        <3> QED BY <3>1, <3>2, <3>3, <3>4
    <2>2. reads' \in [Source -> Nat] /\ parsing' \subseteq Source
        BY <1>9, <1>0, FileFacts DEF LoopOverArray, LoadStd
    <2> QED BY <1>9, <2>1, <2>2 DEF LoopOverArray, FilesTypeOK
<1>10. CASE ReadExtra
    <2>1. extra \in Source BY <1>10, FileFacts DEF ReadExtra, FilesTypeOK
    <2> DEFINE r == [file |-> extra, at |-> 1, by |-> "root", prefix |-> NoPrefix]
    <2>2. r \in OpenFile /\ (reading' = reading \/ reading' = <<r>>)
        BY <1>10, <2>1 DEF ReadExtra, OpenFile
    <2> HIDE DEF r
    <2>3. reading' \in Seq(OpenFile)
        <3>1. <<r>> \in Seq(OpenFile) BY <2>2
        <3> QED BY <2>2, <3>1 DEF FilesTypeOK
    <2>4. text' \in [Source -> Seq(Item)] /\ \A f \in Source : Len(text'[f]) <= MaxItems
        BY <1>10, <2>1, TextType DEF ReadExtra, FilesTypeOK
    <2>5. reads' \in [Source -> Nat] /\ imported' \subseteq File
        <3>1. reads' = reads \/ reads' = [reads EXCEPT ![extra] = @ + 1] BY <1>10 DEF ReadExtra
        <3>2. imported' = imported \cup {Main, extra} BY <1>10 DEF ReadExtra
        <3>3. reads' \in [Source -> Nat] BY <1>0, <3>1
        <3>4. imported' \subseteq File BY <1>0, <2>1, <3>2, FileFacts DEF File
        <3> QED BY <3>3, <3>4
    <2>6. body' \in [file : Source \cup {NoFile}, prefix : Prefix \cup {NoPrefix}]
          /\ turn' \in {"main", "extra"} /\ prefix' \in Prefix \cup {NoPrefix}
          /\ phase' \in {"parse", "bodies", "done", "error"}
        BY <1>10 DEF ReadExtra, FilesTypeOK
    <2> QED BY <1>10, <2>3, <2>4, <2>5, <2>6 DEF ReadExtra, FilesTypeOK
<1>11. CASE Finish
    BY <1>11 DEF Finish, FilesTypeOK
<1>12. CASE UNCHANGED readVars
    BY <1>12 DEF readVars, FilesTypeOK
<1> QED BY <1>1, <1>2, <1>3, <1>4, <1>5, <1>6, <1>7, <1>8, <1>9, <1>10, <1>11, <1>12
        DEF ReadNext, Import

\* A step that only moves the top of the stack on, or changes nothing of it.
Stays == reading' = reading \/ (reading # <<>> /\ reading' = Behind(reading))

\* The same files are being read then.
LEMMA StaysFacts ==
    ASSUME FilesTypeOK, Stays
    PROVE  /\ Len(reading') = Len(reading) /\ (reading = <<>> <=> reading' = <<>>) /\ Frames' = Frames
           /\ \A n \in Frames : Same(n)
<1>1. reading \in Seq(OpenFile) BY DEF FilesTypeOK
<1>2. CASE reading' = reading BY <1>2 DEF Same, Frames
<1>3. CASE reading # <<>> /\ reading' = Behind(reading)
    <2>1. reading' \in Seq(OpenFile) /\ Len(reading) # 0 /\ Len(reading') = Len(reading)
        BY <1>3, Advances
    <2>2. reading' # <<>> BY <2>1
    <2> QED BY <1>3, <2>1, <2>2, Advances DEF Frames
<1> QED BY <1>2, <1>3 DEF Stays

\* A step that opens and closes no file keeps it.
LEMMA RootKept ==
    ASSUME FilesTypeOK, RootInv, turn' = turn, extra' = extra,
           phase' = phase \/ (phase = "parse" /\ phase' = "error"), Stays
    PROVE  RootInv'
BY StaysFacts DEF RootInv, Opened, Same

\* A step that enters the file f.
Entered(f, by) ==
    /\ Len(reading) \in Nat \ {0} /\ Len(reading') = Len(reading) + 1 /\ reading' # <<>>
    /\ \A n \in Frames : Same(n)
    /\ Frames' = Frames \cup {Len(reading')} /\ Len(reading') \notin Frames \cup {1}
    /\ reading'[Len(reading')].file = f /\ reading'[Len(reading')].by = by

\* What it does to the stack.
LEMMA EnteredFacts ==
    ASSUME FilesTypeOK, reading # <<>>, NEW f \in Source, NEW by \in {"std", "plain", "as", "only", "all"},
           reading' = Append(Behind(reading), Opening(f, by))
    PROVE  Entered(f, by)
<1>1. /\ reading' \in Seq(OpenFile) /\ Len(reading) \in Nat \ {0} /\ Len(reading') = Len(reading) + 1
      /\ \A n \in Frames : Same(n)
      /\ reading'[Len(reading')].file = f /\ reading'[Len(reading')].by = by
    BY Enters
<1> DEFINE L == Len(reading)
<1>2. L \in Nat \ {0} /\ Frames = 1..L /\ Frames' = 1..(L + 1) /\ Len(reading') = L + 1
    BY <1>1 DEF Frames
<1>3. reading' # <<>> BY <1>1
<1> HIDE DEF L
<1>4. Frames' = Frames \cup {Len(reading')} /\ Len(reading') \notin Frames \cup {1} BY <1>2
<1> QED BY <1>1, <1>3, <1>4 DEF Entered

\* A file is entered from another one.
LEMMA RootEnters ==
    ASSUME FilesTypeOK, RootInv, turn' = turn, extra' = extra, phase' = phase, phase = "parse", reading # <<>>,
           NEW f \in Source, NEW by \in {"std", "plain", "as", "only", "all"},
           by = "std" => f = Std, reading' = Append(Behind(reading), Opening(f, by))
    PROVE  RootInv'
<1>1. Entered(f, by) BY EnteredFacts
<1>2. ASSUME NEW n \in Frames'
      PROVE  /\ reading'[n].by = "root" <=> n = 1 /\ phase' # "bodies"
             /\ reading'[n].by = "root" => reading'[n].file = IF turn' = "main" THEN Main ELSE extra'
             /\ reading'[n].by = "std" => reading'[n].file = Std
    <2>1. CASE n \in Frames BY <1>1, <2>1 DEF RootInv, Opened, Same, Entered
    <2>2. CASE n = Len(reading') BY <1>1, <2>2 DEF Entered
    <2> QED BY <1>1, <2>1, <2>2 DEF Entered
<1>3. reading' # <<>> BY <1>1 DEF Entered
<1> QED BY <1>2, <1>3 DEF RootInv, Opened

\* A std file is entered for a body.
LEMMA BodyEnters ==
    ASSUME FilesTypeOK, reading = <<>>, NEW by, reading' = Append(<<>>, Opening(Std, by))
    PROVE  Frames' = {1} /\ reading' # <<>> /\ Len(reading') = 1 
           /\ reading'[1].file = Std /\ reading'[1].by = by /\ reading'[1].at = 1
<1> DEFINE t == Opening(Std, by)
<1>1. t.by = by /\ t.file = Std /\ t.at = 1 BY DEF Opening
<1> HIDE DEF t
<1>2. Len(reading') = 1 /\ reading'[1] = t /\ reading' # <<>> BY DEF t
<1> QED BY <1>1, <1>2 DEF Frames

\* The extra file is entered.
LEMMA ExtraEnters ==
    ASSUME FilesTypeOK, ReadExtra, extra \notin imported
    PROVE  Frames' = {1} /\ reading' # <<>> /\ Len(reading') = 1 
           /\ reading'[1].file = extra /\ reading'[1].by = "root" /\ reading'[1].at = 1
<1> DEFINE r == [file |-> extra, at |-> 1, by |-> "root", prefix |-> NoPrefix]
<1>1. reading' = <<r>> BY DEF ReadExtra
<1>2. r.by = "root" /\ r.file = extra /\ r.at = 1 OBVIOUS
<1> HIDE DEF r
<1>3. Len(reading') = 1 /\ reading'[1] = r /\ reading' # <<>> BY <1>1
<1> QED BY <1>2, <1>3 DEF Frames

\* A file ends.
LEMMA EndFacts ==
    ASSUME FilesTypeOK, RootInv, EndOfFile
    PROVE  /\ reading # <<>> /\ Len(reading) \in Nat \ {0} /\ Len(reading') = Len(reading) - 1
           /\ Len(reading) \in Frames /\ Frames' = Frames \ {Len(reading)}
           /\ \A n \in Frames' : reading'[n] = reading[n] /\ n < Len(reading)
           /\ reading' \in Seq(OpenFile) /\ Here = reading[Len(reading)] /\ Here \in OpenFile
           /\ Here.by = "root" <=> Len(reading) = 1 /\ phase # "bodies"
<1>1. /\ reading # <<>> /\ Len(reading) \in Nat \ {0} /\ Len(reading') = Len(reading) - 1
      /\ \A n \in 1..(Len(reading) - 1) : reading'[n] = reading[n]
      /\ reading' \in Seq(OpenFile) /\ reading \in Seq(OpenFile)
    BY Leaves DEF EndOfFile, FilesTypeOK
<1> DEFINE L == Len(reading)
<1>2. L \in Nat \ {0} /\ Frames = 1..L /\ Frames' = 1..(L - 1) BY <1>1 DEF Frames
<1> HIDE DEF L
<1>3. L \in Frames /\ Frames' = Frames \ {L} /\ \A n \in Frames' : n < L BY <1>2
<1>4. Here \in OpenFile BY <1>1 DEF Here
<1> QED BY <1>1, <1>2, <1>3, <1>4 DEF L, RootInv, Here

\* Who is at the bottom stays there.
LEMMA RootStep == FilesTypeOK /\ RootInv /\ [ReadNext]_readVars => RootInv'
<1> SUFFICES ASSUME FilesTypeOK, RootInv, [ReadNext]_readVars PROVE RootInv' OBVIOUS
<1> USE DEF given, context, files, names, bodies, Stays
<1>0. reading \in Seq(OpenFile) /\ Len(reading) \in Nat BY DEF FilesTypeOK
<1>1. ASSUME NEW i \in Item, ImportAgain(i) \/ ImportHeader(i) PROVE RootInv'
    <2>1. reading # <<>> BY <1>1, AtFacts DEF ImportAgain, ImportHeader, Importing
    <2> QED BY <1>1, <2>1, RootKept DEF ImportAgain, ImportHeader, Advance
<1>2. ASSUME NEW i \in Item, Circular(i) PROVE RootInv'
    BY <1>2, RootKept DEF Circular, Importing, AtItem
<1>3. ASSUME NEW i \in Item, Open(i) PROVE RootInv'
    <2>1. reading # <<>> /\ i.op \in {"plain", "as", "only", "all"} /\ i.file \in Source
        BY <1>3, AtFacts, ItemType DEF Open, Importing
    <2> QED BY <1>3, <2>1, RootEnters DEF Open, Importing, AtItem
<1>4. CASE ImplDrop
    <2>1. reading # <<>> /\ phase = "parse" BY <1>4 DEF ImplDrop, AtItem, RootInv
    <2>2. CASE Std \in imported \cup parsing
        BY <1>4, <2>1, <2>2, RootKept DEF ImplDrop, LoadStd
    <2>3. CASE Std \notin imported \cup parsing
        BY <1>4, <2>1, <2>3, RootEnters, FileFacts DEF ImplDrop, LoadStd
    <2> QED BY <2>2, <2>3
<1>5. CASE DeclareTypes
    BY <1>5, RootKept DEF DeclareTypes, Advance
<1>6. CASE EndOfFile
    <2>1. /\ reading # <<>> /\ Len(reading) \in Nat \ {0} /\ Len(reading') = Len(reading) - 1
          /\ Frames' = Frames \ {Len(reading)} /\ reading' \in Seq(OpenFile)
          /\ \A n \in Frames' : reading'[n] = reading[n]
          /\ Here.by = "root" <=> Len(reading) = 1 /\ phase # "bodies"
        BY <1>6, EndFacts
    <2>4. CASE Here.by = "root"
        <3>1. phase' = "bodies" /\ Len(reading') = 0 /\ Frames' = {}
            BY <1>6, <2>1, <2>4 DEF EndOfFile, Frames
        <3> QED BY <1>6, <3>1 DEF RootInv, EndOfFile
    <2>5. CASE Here.by # "root"
        <3>1. phase' = phase /\ phase \in {"parse", "bodies"} BY <1>6, <2>5 DEF EndOfFile
        <3>2. CASE phase = "parse"
            <4>1. Len(reading') # 0 BY <2>1, <2>5, <3>2
            <4>2. reading' # <<>> BY <4>1
            <4> QED BY <1>6, <2>1, <3>1, <3>2, <4>2 DEF RootInv, EndOfFile, Opened
        <3>3. CASE phase = "bodies"
            <4>1. Len(reading') <= 1 BY <2>1, <3>3 DEF RootInv
            <4> QED BY <1>6, <2>1, <3>1, <3>3, <4>1 DEF RootInv, EndOfFile, Opened
        <3> QED BY <3>1, <3>2, <3>3
    <2> QED BY <2>4, <2>5
<1>7. CASE ParseBody
    BY <1>7, RootKept DEF ParseBody
<1>8. CASE LoopOverArray
    <2>1. phase = "bodies" /\ phase' = phase /\ UNCHANGED <<turn, extra>> /\ reading = <<>>
        BY <1>8 DEF LoopOverArray
    <2>2. CASE reading' = <<>> BY <2>1, <2>2, RootKept
    <2>3. CASE reading' # <<>>
        <3>1. reading' = Append(<<>>, Opening(Std, "std")) BY <1>8, <2>3 DEF LoopOverArray, LoadStd
        <3> QED BY <2>1, <3>1, BodyEnters DEF RootInv, Opened
    <2> QED BY <2>2, <2>3
<1>9. CASE ReadExtra
    <2>1. extra \in Extra /\ turn' = "extra" /\ extra' = extra /\ phase = "bodies" /\ reading = <<>>
        BY <1>9 DEF ReadExtra, FilesTypeOK
    <2>2. CASE extra \in imported
        <3>1. reading' = <<>> /\ phase' = phase BY <1>9, <2>1, <2>2 DEF ReadExtra
        <3>2. Len(reading') = 0 /\ Frames' = {} BY <3>1 DEF Frames
        <3> QED BY <2>1, <3>1, <3>2 DEF RootInv
    <2>3. CASE extra \notin imported
        <3>1. phase' = "parse" BY <1>9, <2>3 DEF ReadExtra
        <3> QED BY <1>9, <2>1, <2>3, <3>1, ExtraEnters DEF RootInv, Opened
    <2> QED BY <2>2, <2>3
<1>10. CASE Finish
    <2>1. UNCHANGED <<turn, extra, reading>> /\ reading = <<>> /\ phase' = "done" BY <1>10 DEF Finish
    <2>2. Frames' = {} BY <2>1 DEF Frames
    <2> QED BY <2>1, <2>2 DEF RootInv
<1>11. CASE UNCHANGED readVars
    BY <1>11, RootKept DEF readVars
<1> QED BY <1>1, <1>2, <1>3, <1>4, <1>5, <1>6, <1>7, <1>8, <1>9, <1>10, <1>11 DEF ReadNext, Import

\* Every variable keeps its type: the prefixes are prefixes, what an import names is a file and
\* a prefix, what it selects a type, and every file that is read is one of the program's.
THEOREM TypeCorrect == ReadSpec => []FilesTypeOK
<1>1. ReadInit => FilesTypeOK /\ RootInv BY InitType
<1>2. FilesTypeOK /\ RootInv /\ [ReadNext]_readVars => (FilesTypeOK /\ RootInv)' BY TypeStep, RootStep
<1> QED BY <1>1, <1>2, PTL DEF ReadSpec

\* Files of one name do not share a prefix (module_prefix_for), whatever files there are.
THEOREM PrefixesDistinctAlways == ReadSpec => []PrefixesDistinct
<1> USE DEF given, context, files, names, bodies
<1>1. ReadInit => PrefixesDistinct BY DEF ReadInit, PrefixesDistinct
<1>2. ASSUME FilesTypeOK, RootInv, PrefixesDistinct, [ReadNext]_readVars PROVE PrefixesDistinct'
    <2>1. ASSUME NEW f \in File, Allot(f) PROVE PrefixesDistinct'
        BY <1>2, <2>1, Allots DEF PrefixesDistinct
    <2>2. CASE prefixes' = prefixes BY <1>2, <2>2 DEF PrefixesDistinct
    <2>3. ASSUME NEW i \in Item, Import(i) PROVE PrefixesDistinct'
        <3>1. (i.op # "drop" /\ i.file \in File) \/ Circular(i)
            BY <2>3, ItemType DEF Import, ImportAgain, ImportHeader, Open, Importing
        <3>2. prefixes' = prefixes \/ Allot(i.file)
            BY <2>3 DEF Import, ImportAgain, Circular, ImportHeader, Open, AliasHeader
        <3>3. CASE Circular(i) BY <2>2, <3>3 DEF Circular
        <3> QED BY <2>1, <2>2, <3>1, <3>2, <3>3
    <2>4. (\E i \in Item : Import(i)) \/ prefixes' = prefixes
        BY <1>2 DEF ReadNext, ImplDrop, DeclareTypes, EndOfFile, ParseBody, LoopOverArray, ReadExtra,
                    Finish, readVars
    <2> QED BY <2>2, <2>3, <2>4
<1>3. ReadInit => FilesTypeOK /\ RootInv BY InitType
<1>4. FilesTypeOK /\ RootInv /\ [ReadNext]_readVars => (FilesTypeOK /\ RootInv)' BY TypeStep, RootStep
<1> QED BY <1>1, <1>2, <1>3, <1>4, PTL DEF ReadSpec

-----------------------------------------------------------------------------
(* The files that are marked as being read, and how often a file is read *)

Inner == {n \in Frames : reading[n].by # "root"}

\* currently_parsing is what is on the stack above the file of the driver, once each.
MarkInv ==
    /\ \A n \in Inner : Opened(n) \in parsing
    /\ \A f \in parsing : \E n \in Inner : Opened(n) = f
    /\ \A m, n \in Inner : Opened(m) = Opened(n) => m = n
    /\ parsing \cap imported = {}

\* A file is read when it gets its mark, and loses it to another.
CountInv ==
    /\ \A f \in Source \ {Main} : reads[f] = IF f \in imported \cup parsing THEN 1 ELSE 0
    /\ reads[Main] > 0
    /\ turn = "extra" => Main \in imported /\ extra \in imported

\* No file is marked between two turns of the driver.
LEMMA NoneMarked == ASSUME FilesTypeOK, MarkInv, reading = <<>> PROVE parsing = {}
<1>1. Len(reading) = 0 OBVIOUS
<1>2. Inner = {} BY <1>1 DEF Inner, Frames
<1> QED BY <1>2 DEF MarkInv

\* The files on the stack stay.
LEMMA MarkKept ==
    ASSUME FilesTypeOK, MarkInv, Stays, parsing' = parsing, parsing \cap imported' = {}
    PROVE  MarkInv'
<1>1. Inner' = Inner /\ \A n \in Inner : reading'[n].file = reading[n].file
    BY StaysFacts DEF Inner, Same
<1> QED BY <1>1 DEF MarkInv, Opened

\* A file is entered that was not marked.
LEMMA MarkEnters ==
    ASSUME FilesTypeOK, MarkInv, NEW f, NEW by, Entered(f, by), by # "root", f \notin parsing \cup imported,
           parsing' = parsing \cup {f}, imported' = imported
    PROVE  MarkInv'
<1>1. /\ Inner' = Inner \cup {Len(reading')} /\ Len(reading') \notin Inner
      /\ \A n \in Inner : reading'[n].file = reading[n].file
      /\ reading'[Len(reading')].file = f
    BY DEF Inner, Entered, Same
<1>2. \A n \in Inner' : reading'[n].file \in parsing'
    BY <1>1 DEF MarkInv, Opened
<1>3. \A g \in parsing' : \E n \in Inner' : reading'[n].file = g
    BY <1>1 DEF MarkInv, Opened
<1>4. \A m, n \in Inner' : reading'[m].file = reading'[n].file => m = n
    BY <1>1 DEF MarkInv, Opened
<1>5. parsing' \cap imported' = {} BY DEF MarkInv
<1> QED BY <1>2, <1>3, <1>4, <1>5 DEF MarkInv, Opened

\* The marks stay those of the files on the stack.
LEMMA MarkStep == FilesTypeOK /\ RootInv /\ MarkInv /\ [ReadNext]_readVars => MarkInv'
<1> SUFFICES ASSUME FilesTypeOK, RootInv, MarkInv, [ReadNext]_readVars PROVE MarkInv' OBVIOUS
<1> USE DEF given, context, files, names, bodies
<1>0. parsing \cap imported = {} /\ parsing \subseteq Source /\ Header \cap Source = {}
    BY ImportsAssumption DEF MarkInv, FilesTypeOK, ImportsAssumption
<1>1. ASSUME NEW i \in Item, ImportAgain(i) \/ ImportHeader(i) PROVE MarkInv'
    <2>1. Stays BY <1>1, AtFacts DEF ImportAgain, ImportHeader, Importing, Advance, Stays
    <2>2. parsing' = parsing /\ imported' \subseteq imported \cup Header
        BY <1>1 DEF ImportAgain, ImportHeader
    <2> QED BY <1>0, <2>1, <2>2, MarkKept
<1>2. ASSUME NEW i \in Item, Circular(i) PROVE MarkInv'
    BY <1>0, <1>2, MarkKept DEF Circular, Stays
<1>3. ASSUME NEW i \in Item, Open(i) PROVE MarkInv'
    <2>1. reading # <<>> /\ i.op \in {"plain", "as", "only", "all"} /\ i.file \in Source
        BY <1>3, AtFacts, ItemType DEF Open, Importing
    <2>2. Entered(i.file, i.op) BY <1>3, <2>1, EnteredFacts DEF Open
    <2>3. i.file \notin parsing \cup imported /\ parsing' = parsing \cup {i.file} /\ imported' = imported
        BY <1>3 DEF Open
    <2>4. i.op # "root" BY <2>1
    <2> QED BY <2>2, <2>3, <2>4, MarkEnters
<1>4. CASE ImplDrop
    <2>1. reading # <<>> /\ imported' = imported BY <1>4 DEF ImplDrop, AtItem, RootInv
    <2>2. CASE Std \in imported \cup parsing
        BY <1>0, <1>4, <2>1, <2>2, MarkKept DEF ImplDrop, LoadStd, Stays
    <2>3. CASE Std \notin imported \cup parsing
        <3>1. reading' = Append(Behind(reading), Opening(Std, "std")) /\ parsing' = parsing \cup {Std}
            BY <1>4, <2>3 DEF ImplDrop, LoadStd
        <3>2. Entered(Std, "std") BY <2>1, <3>1, EnteredFacts, FileFacts
        <3> QED BY <2>1, <2>3, <3>1, <3>2, MarkEnters
    <2> QED BY <2>2, <2>3
<1>5. CASE DeclareTypes
    BY <1>0, <1>5, MarkKept DEF DeclareTypes, Advance, Stays
<1>6. CASE EndOfFile
    <2> DEFINE L == Len(reading)
    <2>1. /\ Frames' = Frames \ {L} /\ L \in Frames /\ Here = reading[L]
          /\ \A n \in Frames' : reading'[n] = reading[n]
        BY <1>6, EndFacts
    <2> HIDE DEF L
    <2>2. CASE Here.by = "root"
        <3>1. Inner' = Inner BY <2>1, <2>2 DEF Inner
        <3>2. \A n \in Inner : reading'[n].file = reading[n].file BY <2>1, <3>1 DEF Inner
        <3>3. parsing' = parsing /\ imported' = imported BY <1>6, <2>2 DEF EndOfFile
        <3> QED BY <3>1, <3>2, <3>3 DEF MarkInv, Opened
    <2>3. CASE Here.by # "root"
        <3>1. L \in Inner /\ Inner' = Inner \ {L} BY <2>1, <2>3 DEF Inner
        <3>2. \A n \in Inner' : reading'[n].file = reading[n].file BY <2>1 DEF Inner
        <3>3. parsing' = parsing \ {reading[L].file} /\ imported' = imported \cup {reading[L].file}
            BY <1>6, <2>1, <2>3 DEF EndOfFile
        <3>4. \A n \in Inner' : reading'[n].file \in parsing'
            BY <3>1, <3>2, <3>3 DEF MarkInv, Opened
        <3>5. \A g \in parsing' : \E n \in Inner' : reading'[n].file = g
            BY <3>1, <3>2, <3>3 DEF MarkInv, Opened
        <3>6. \A m, n \in Inner' : reading'[m].file = reading'[n].file => m = n
            BY <3>1, <3>2 DEF MarkInv, Opened
        <3>7. parsing' \cap imported' = {} BY <1>0, <3>3
        <3> QED BY <3>4, <3>5, <3>6, <3>7 DEF MarkInv, Opened
    <2> QED BY <2>2, <2>3
<1>7. CASE ParseBody
    BY <1>0, <1>7, MarkKept DEF ParseBody, Stays
<1>8. CASE LoopOverArray
    <2>1. reading = <<>> /\ imported' = imported BY <1>8 DEF LoopOverArray
    <2>2. parsing = {} BY <2>1, NoneMarked
    <2>3. CASE Std \in imported \cup parsing
        BY <1>0, <1>8, <2>1, <2>3, MarkKept DEF LoopOverArray, LoadStd, Stays
    <2>4. CASE Std \notin imported \cup parsing
        <3>1. reading' = Append(<<>>, Opening(Std, "std")) /\ parsing' = parsing \cup {Std}
            BY <1>8, <2>4 DEF LoopOverArray, LoadStd
        <3>2. Frames' = {1} /\ reading'[1].file = Std /\ reading'[1].by = "std"
            BY <2>1, <3>1, BodyEnters
        <3>3. Inner' = {1} BY <3>2 DEF Inner
        <3> QED BY <2>1, <2>2, <2>4, <3>1, <3>2, <3>3 DEF MarkInv, Opened
    <2> QED BY <2>3, <2>4
<1>9. CASE ReadExtra
    <2>1. reading = <<>> /\ parsing' = parsing BY <1>9 DEF ReadExtra
    <2>2. parsing = {} BY <2>1, NoneMarked
    <2>3. CASE extra \in imported
        BY <1>9, <2>1, <2>2, <2>3, MarkKept DEF ReadExtra, Stays
    <2>4. CASE extra \notin imported
        <3>1. Inner' = {} BY <1>9, <2>4, ExtraEnters DEF Inner
        <3> QED BY <2>1, <2>2, <3>1 DEF MarkInv
    <2> QED BY <2>3, <2>4
<1>10. CASE Finish
    BY <1>0, <1>10, MarkKept DEF Finish, Stays
<1>11. CASE UNCHANGED readVars
    BY <1>0, <1>11, MarkKept DEF readVars, Stays
<1> QED BY <1>1, <1>2, <1>3, <1>4, <1>5, <1>6, <1>7, <1>8, <1>9, <1>10, <1>11 DEF ReadNext, Import

\* The number of times stays what the marks say.
LEMMA CountStep == FilesTypeOK /\ RootInv /\ MarkInv /\ CountInv /\ [ReadNext]_readVars => CountInv'
<1> SUFFICES ASSUME FilesTypeOK, RootInv, MarkInv, CountInv, [ReadNext]_readVars PROVE CountInv' OBVIOUS
<1> USE DEF given, context, files, names, bodies
<1>0. /\ reads \in [Source -> Nat] /\ imported \subseteq File /\ Header \cap Source = {}
      /\ Main \in Source /\ Std \in Source \ {Main}
    BY ImportsAssumption, FileFacts DEF FilesTypeOK, ImportsAssumption
<1>1. ASSUME UNCHANGED <<reads, extra, turn, parsing>>, imported \subseteq imported',
             imported' \subseteq imported \cup Header
      PROVE  CountInv'
    BY <1>0, <1>1 DEF CountInv
<1>2. ASSUME NEW i \in Item, Import(i) PROVE CountInv'
    <2>1. CASE Open(i)
        <3>1. /\ i.file \in Source /\ reads' = [reads EXCEPT ![i.file] = @ + 1]
              /\ i.file \notin imported \cup parsing /\ parsing' = parsing \cup {i.file}
              /\ imported' = imported /\ turn' = turn /\ extra' = extra
            BY <2>1 DEF Open
        <3>2. \A f \in Source \ {Main} : reads'[f] = IF f \in imported' \cup parsing' THEN 1 ELSE 0
            BY <1>0, <3>1 DEF CountInv
        <3>3. reads'[Main] > 0 BY <1>0, <3>1 DEF CountInv
        <3> QED BY <3>1, <3>2, <3>3 DEF CountInv
    <2>2. CASE ~Open(i)
        BY <1>1, <1>2, <2>2 DEF Import, ImportAgain, Circular, ImportHeader
    <2> QED BY <2>1, <2>2
<1>3. CASE ImplDrop \/ LoopOverArray
    <2>1. \/ reads' = reads /\ parsing' = parsing
          \/ /\ Std \notin imported \cup parsing /\ parsing' = parsing \cup {Std}
             /\ reads' = [reads EXCEPT ![Std] = @ + 1]
        BY <1>3 DEF ImplDrop, LoopOverArray, LoadStd
    <2>2. UNCHANGED <<imported, turn, extra>> BY <1>3 DEF ImplDrop, LoopOverArray
    <2> QED BY <1>0, <2>1, <2>2 DEF CountInv
<1>4. CASE EndOfFile
    <2>1. UNCHANGED <<reads, turn, extra>> BY <1>4 DEF EndOfFile
    <2>2. CASE Here.by = "root" BY <1>1, <1>4, <2>1, <2>2 DEF EndOfFile
    <2>3. CASE Here.by # "root"
        <3>1. parsing' = parsing \ {Here.file} /\ imported' = imported \cup {Here.file}
            BY <1>4, <2>3 DEF EndOfFile
        <3>2. Here.file \in parsing
            BY <1>4, <2>3, EndFacts DEF MarkInv, Inner, Opened
        <3> QED BY <2>1, <3>1, <3>2 DEF CountInv
    <2> QED BY <2>2, <2>3
<1>5. CASE ReadExtra
    <2>1. /\ extra \in Extra /\ turn' = "extra" /\ extra' = extra /\ parsing' = parsing
          /\ imported' = imported \cup {Main, extra} /\ reading = <<>>
          /\ IF extra \in imported THEN reads' = reads ELSE reads' = [reads EXCEPT ![extra] = @ + 1]
        BY <1>5 DEF ReadExtra, FilesTypeOK
    <2>2. parsing = {} BY <2>1, NoneMarked
    <2>3. extra \in Source \ {Main} BY <2>1, FileFacts
    <2> QED BY <1>0, <2>1, <2>2, <2>3 DEF CountInv
<1>6. CASE DeclareTypes \/ ParseBody \/ Finish \/ UNCHANGED readVars
    BY <1>1, <1>6 DEF DeclareTypes, ParseBody, Finish, readVars
<1> QED BY <1>2, <1>3, <1>4, <1>5, <1>6 DEF ReadNext

Marks == FilesTypeOK /\ RootInv /\ MarkInv /\ CountInv

\* What was read stays, and so does what was imported.
LEMMA Growth ==
    ASSUME Marks, [ReadNext]_readVars
    PROVE  /\ \A f \in Source : reads[f] > 0 \/ f = Std => text'[f] = text[f]
           /\ imported \subseteq imported' /\ imported \cup parsing \subseteq imported' \cup parsing'
<1> USE DEF given, context, files, names, bodies
<1>0. text \in [Source -> Seq(Item)] /\ reads \in [Source -> Nat] BY DEF FilesTypeOK, Marks
<1>1. ASSUME NEW f \in Source, \E t \in Texts(f) : text' = [text EXCEPT ![f] = t]
      PROVE  \A g \in Source : reads[g] > 0 \/ g = Std => text'[g] = text[g]
    BY <1>0, <1>1 DEF Texts
<1>2. ASSUME NEW i \in Item, Import(i)
      PROVE  /\ \A f \in Source : reads[f] > 0 \/ f = Std => text'[f] = text[f]
             /\ imported \subseteq imported' /\ parsing \subseteq parsing'
    BY <1>1, <1>2 DEF Import, ImportAgain, Circular, ImportHeader, Open
<1>3. CASE ImplDrop \/ LoopOverArray
    BY <1>3 DEF ImplDrop, LoopOverArray, LoadStd
<1>4. CASE EndOfFile
    BY <1>4 DEF EndOfFile
<1>5. CASE ReadExtra
    <2>1. extra \in Source BY <1>5, FileFacts DEF ReadExtra, FilesTypeOK, Marks
    <2> QED BY <1>1, <1>5, <2>1 DEF ReadExtra
<1>6. CASE DeclareTypes \/ ParseBody \/ Finish \/ UNCHANGED readVars
    BY <1>6 DEF DeclareTypes, ParseBody, Finish, readVars
<1> QED BY <1>2, <1>3, <1>4, <1>5, <1>6 DEF ReadNext

\* A file is never read less often than before.
LEMMA ReadsGrow ==
    ASSUME Marks, [ReadNext]_readVars
    PROVE  struct' = struct /\ \A f \in Source : reads'[f] >= reads[f]
<1> USE DEF given, context, files, names, bodies
<1>0. reads \in [Source -> Nat] BY DEF Marks, FilesTypeOK
<1>1. ASSUME NEW f, reads' = reads \/ reads' = [reads EXCEPT ![f] = @ + 1]
      PROVE  \A g \in Source : reads'[g] >= reads[g]
    BY <1>0, <1>1
<1>2. struct' = struct /\ (reads' = reads \/ \E f : reads' = [reads EXCEPT ![f] = @ + 1])
    BY DEF ReadNext, Import, ImportAgain, Circular, ImportHeader, Open, ImplDrop, DeclareTypes, EndOfFile,
           ParseBody, LoopOverArray, LoadStd, ReadExtra, Finish, readVars
<1> QED BY <1>1, <1>2

\* Every file on the stack has been read.
LEMMA OnStack ==
    ASSUME Marks
    PROVE  \A n \in Frames : reading[n] \in OpenFile /\ Opened(n) \in Source /\ reads[Opened(n)] > 0
<1> TAKE n \in Frames
<1>1. reading[n] \in OpenFile BY DEF Marks, FilesTypeOK, Frames
<1>2. Opened(n) \in Source BY <1>1 DEF OpenFile, Opened
<1>3. CASE n \in Inner
    <2>1. Opened(n) \in parsing BY <1>3 DEF Marks, MarkInv
    <2>2. reads[Opened(n)] = 1 \/ Opened(n) = Main BY <1>2, <2>1 DEF Marks, CountInv
    <2>3. reads[Main] > 0 BY DEF Marks, CountInv
    <2> QED BY <1>1, <1>2, <2>2, <2>3
<1>4. CASE n \notin Inner
    <2>1. Opened(n) = Main \/ (Opened(n) = extra /\ turn = "extra" /\ extra # Main)
        BY <1>4, FileFacts DEF Marks, RootInv, Inner, FilesTypeOK
    <2>2. reads[Main] > 0 /\ (turn = "extra" => extra \in imported) BY DEF Marks, CountInv
    <2>3. Opened(n) # Main => reads[Opened(n)] = 1 BY <1>2, <2>1, <2>2 DEF Marks, CountInv
    <2> QED BY <1>1, <1>2, <2>2, <2>3
<1> QED BY <1>1, <1>2, <1>3, <1>4

-----------------------------------------------------------------------------
(* How far the files on the stack have got *)

Settled(i) == IF i.op = "drop" THEN Std \in imported \cup parsing ELSE i.file \in imported

\* The same after the step.
SettledNext(i) == IF i.op = "drop" THEN Std \in imported' \cup parsing' ELSE i.file \in imported'

\* What is written in f before the place k needs nothing any more.
Past(f, k) == \A j \in 1..Len(text[f]) : j < k => Settled(text[f][j])

\* The file n waits for the next one, which the item before its place asks for.
Waits(n) ==
    /\ reading[n].at - 1 \in 1..Len(text[Opened(n)])
    /\ Past(Opened(n), reading[n].at - 1)
    /\ LET i == text[Opened(n)][reading[n].at - 1]
       IN  IF i.op = "drop" THEN reading[n + 1].by = "std" ELSE i.file = Opened(n + 1)

\* The file on top is at its place, and has no import open.
Runs(n) == reading[n].at <= Len(text[Opened(n)]) + 2 /\ Past(Opened(n), reading[n].at)

PathInv == /\ text[Std] = <<>>
           /\ \A n \in Frames : IF n = Len(reading) THEN Runs(n) ELSE Waits(n)

\* A file that waits goes on waiting.
LEMMA WaitsKept ==
    ASSUME Marks, [ReadNext]_readVars, NEW n \in Frames, n + 1 \in Frames, Waits(n),
           reading'[n] = reading[n], Same(n + 1)
    PROVE  Waits(n)'
<1>1. Opened(n) \in Source /\ reads[Opened(n)] > 0 BY OnStack
<1> DEFINE f == reading[n].file
           k == reading[n].at - 1
<1>2. f \in Source /\ reads[f] > 0 /\ k \in 1..Len(text[f]) /\ Past(f, k)
      /\ IF text[f][k].op = "drop" THEN reading[n + 1].by = "std" ELSE text[f][k].file = reading[n + 1].file
    BY <1>1 DEF Waits, Opened
<1>3. text'[f] = text[f] /\ \A j \in 1..Len(text[f]) : j < k => SettledNext(text[f][j])
    BY <1>2, Growth DEF Past, Settled, SettledNext
<1>4. reading'[n].file = f /\ reading'[n].at - 1 = k OBVIOUS
<1>5. reading'[n + 1].by = reading[n + 1].by /\ reading'[n + 1].file = reading[n + 1].file BY DEF Same
<1> HIDE DEF f, k
<1> QED BY <1>2, <1>3, <1>4, <1>5 DEF Waits, Past, Opened, Settled, SettledNext

\* What runs, runs on.
LEMMA RunsKept ==
    ASSUME Marks, [ReadNext]_readVars, NEW n \in Frames, Runs(n), reading'[n] = reading[n]
    PROVE  Runs(n)'
<1> DEFINE f == reading[n].file
           k == reading[n].at
<1>1. f \in Source /\ reads[f] > 0 /\ k <= Len(text[f]) + 2 /\ Past(f, k)
    BY OnStack DEF Runs, Opened
<1>2. text'[f] = text[f] /\ \A j \in 1..Len(text[f]) : j < k => SettledNext(text[f][j])
    BY <1>1, Growth DEF Past, Settled, SettledNext
<1>3. reading'[n].file = f /\ reading'[n].at = k OBVIOUS
<1> HIDE DEF f, k
<1> QED BY <1>1, <1>2, <1>3 DEF Runs, Past, Opened, Settled, SettledNext

\* A step that does not touch the stack.
LEMMA PathKept == ASSUME Marks, PathInv, [ReadNext]_readVars, reading' = reading PROVE PathInv'
<1>1. Frames' = Frames /\ Len(reading') = Len(reading) /\ Len(reading) \in Nat BY DEF Frames, Marks, FilesTypeOK
<1>2. text'[Std] = <<>> BY Growth, FileFacts DEF PathInv
<1>3. ASSUME NEW n \in Frames, n = Len(reading) PROVE Runs(n)' BY <1>3, RunsKept DEF PathInv
<1>4. ASSUME NEW n \in Frames, n # Len(reading) PROVE Waits(n)'
    <2>1. n + 1 \in Frames BY <1>1, <1>4 DEF Frames
    <2> QED BY <1>4, <2>1, WaitsKept DEF PathInv, Same
<1> QED BY <1>1, <1>2, <1>3, <1>4 DEF PathInv

\* The top goes on over an item that is settled, or over the declarations.
LEMMA PathAdvances ==
    ASSUME Marks, PathInv, [ReadNext]_readVars, reading # <<>>, reading' = Behind(reading),
           \/ Here.at \in 1..Len(text[Here.file]) /\ SettledNext(text[Here.file][Here.at])
           \/ Here.at = Len(text[Here.file]) + 1
    PROVE  PathInv'
<1> DEFINE L == Len(reading)
<1>1. /\ L \in Nat \ {0} /\ Len(reading') = L /\ \A n \in Frames : Same(n)
      /\ \A n \in 1..(L - 1) : reading'[n] = reading[n]
      /\ reading'[L].at = reading[L].at + 1
    BY Advances DEF Marks
<1>2. Frames = 1..L /\ Frames' = Frames /\ L \in Frames BY <1>1 DEF Frames
<1>3. text'[Std] = <<>> BY Growth, FileFacts DEF PathInv
<1>4. ASSUME NEW n \in Frames, n # L PROVE Waits(n)'
    <2>1. n + 1 \in Frames /\ n \in 1..(L - 1) BY <1>1, <1>2, <1>4
    <2> QED BY <1>1, <1>4, <2>1, WaitsKept DEF PathInv
<1>5. ASSUME NEW n \in Frames, n = L PROVE Runs(n)'
    <2> DEFINE f == reading[n].file
               k == reading[n].at
    <2>1. f \in Source /\ reads[f] > 0 /\ k \in Nat \ {0} /\ Past(f, k)
        BY <1>5, OnStack DEF PathInv, Runs, Opened, OpenFile
    <2>2. text'[f] = text[f] /\ \A j \in 1..Len(text[f]) : j < k => SettledNext(text[f][j])
        BY <2>1, Growth DEF Past, Settled, SettledNext
    <2>3. reading'[n].file = f /\ reading'[n].at = k + 1 BY <1>1, <1>5 DEF Same
    <2>4. (k \in 1..Len(text[f]) /\ SettledNext(text[f][k])) \/ k = Len(text[f]) + 1
        BY <1>5 DEF Here
    <2>5. Len(text[f]) \in Nat BY <2>1 DEF Marks, FilesTypeOK
    <2> HIDE DEF f, k, L
    <2>6. \A j \in 1..Len(text[f]) : j < k + 1 => j < k \/ j = k BY <2>1, <2>5
    <2>7. k + 1 <= Len(text[f]) + 2 BY <2>1, <2>4, <2>5
    <2>8. \A j \in 1..Len(text[f]) : j < k + 1 => SettledNext(text[f][j])
        BY <2>1, <2>2, <2>4, <2>5, <2>6 DEF Settled, SettledNext
    <2> QED BY <2>2, <2>3, <2>7, <2>8 DEF Runs, Past, Opened, Settled, SettledNext
<1> QED BY <1>1, <1>2, <1>3, <1>4, <1>5 DEF PathInv

\* The top asks for a file, which is entered.
LEMMA PathEnters ==
    ASSUME Marks, PathInv, [ReadNext]_readVars, reading # <<>>,
           NEW f \in Source, NEW by \in {"std", "plain", "as", "only", "all"},
           reading' = Append(Behind(reading), Opening(f, by)), Here.at \in 1..Len(text[Here.file]),
           IF text[Here.file][Here.at].op = "drop" THEN by = "std" ELSE text[Here.file][Here.at].file = f
    PROVE  PathInv'
<1> DEFINE L == Len(reading)
<1>1. /\ L \in Nat \ {0} /\ Len(reading') = L + 1 /\ \A n \in Frames : Same(n)
      /\ \A n \in 1..(L - 1) : reading'[n] = reading[n]
      /\ reading'[L].at = reading[L].at + 1
      /\ reading'[L + 1].at = 1 /\ reading'[L + 1].file = f /\ reading'[L + 1].by = by
    BY Enters DEF Marks
<1>2. Frames = 1..L /\ Frames' = Frames \cup {L + 1} /\ L \in Frames /\ L + 1 \notin Frames
    BY <1>1 DEF Frames
<1>3. text'[Std] = <<>> BY Growth, FileFacts DEF PathInv
<1>4. ASSUME NEW n \in Frames, n # L PROVE Waits(n)'
    <2>1. n + 1 \in Frames /\ n \in 1..(L - 1) BY <1>1, <1>2, <1>4
    <2> QED BY <1>1, <1>4, <2>1, WaitsKept DEF PathInv
<1>5. ASSUME NEW n \in Frames, n = L PROVE Waits(n)'
    <2> DEFINE g == reading[n].file
               k == reading[n].at
    <2>1. g \in Source /\ reads[g] > 0 /\ k \in Nat \ {0} /\ Past(g, k)
        BY <1>5, OnStack DEF PathInv, Runs, Opened, OpenFile
    <2>2. text'[g] = text[g] /\ \A j \in 1..Len(text[g]) : j < k => SettledNext(text[g][j])
        BY <2>1, Growth DEF Past, Settled, SettledNext
    <2>3. reading'[n].file = g /\ reading'[n].at - 1 = k BY <1>1, <1>5, <2>1 DEF Same
    <2>4. k \in 1..Len(text[g])
          /\ IF text[g][k].op = "drop" THEN by = "std" ELSE text[g][k].file = f
        BY <1>5 DEF Here
    <2>5. reading'[n + 1].file = f /\ reading'[n + 1].by = by BY <1>1, <1>5
    <2> HIDE DEF g, k
    <2> QED BY <2>2, <2>3, <2>4, <2>5 DEF Waits, Past, Opened, Settled, SettledNext
<1>6. ASSUME NEW n, n = L + 1 PROVE Runs(n)'
    <2>1. reading'[n].at = 1 /\ reading'[n].file = f BY <1>1, <1>6
    <2>2. text' \in [Source -> Seq(Item)] BY TypeStep DEF Marks, FilesTypeOK
    <2>3. Len(text'[f]) \in Nat BY <2>2
    <2> QED BY <2>1, <2>3 DEF Runs, Past, Opened
<1>7. \A n \in Frames : n # L + 1 BY <1>2
<1> QED BY <1>1, <1>2, <1>3, <1>4, <1>5, <1>6, <1>7 DEF PathInv

\* A file is entered at the bottom.
LEMMA PathStarts ==
    ASSUME Marks, PathInv, [ReadNext]_readVars, Frames' = {1}, Len(reading') = 1, reading'[1].at = 1
    PROVE  PathInv'
<1>1. text'[Std] = <<>> BY Growth, FileFacts DEF PathInv
<1>2. ASSUME NEW n, n = 1 PROVE Runs(n)'
    <2>1. text' \in [Source -> Seq(Item)] /\ reading' \in Seq(OpenFile) BY TypeStep DEF Marks, FilesTypeOK
    <2>2. reading'[1] \in OpenFile BY <2>1, Len(reading') = 1, 1 \in 1..1, ElementOfSeq
    <2>3. Len(text'[reading'[1].file]) \in Nat BY <2>1, <2>2 DEF OpenFile
    <2> QED BY <1>2, <2>3 DEF Runs, Past, Opened
<1> QED BY <1>1, <1>2 DEF PathInv

\* The file on top ends: the file below had waited for it, and goes on.
LEMMA PathLeaves ==
    ASSUME Marks, PathInv, [ReadNext]_readVars, EndOfFile
    PROVE  PathInv'
<1> DEFINE L == Len(reading)
<1>1. /\ L \in Nat \ {0} /\ Len(reading') = L - 1 /\ L \in Frames /\ Frames' = Frames \ {L}
      /\ \A n \in Frames' : reading'[n] = reading[n] /\ n < L
      /\ Here = reading[L] /\ (Here.by = "root" <=> L = 1 /\ phase # "bodies")
    BY EndFacts DEF Marks
<1>2. Frames = 1..L /\ Frames' \subseteq Frames BY <1>1 DEF Frames
<1>3. text'[Std] = <<>> BY Growth, FileFacts DEF PathInv
<1>4. ASSUME NEW n \in Frames', n # L - 1 PROVE Waits(n)'
    <2>1. n \in Frames /\ n + 1 \in Frames' /\ n + 1 \in Frames /\ n # L BY <1>1, <1>2, <1>4
    <2>2. reading'[n] = reading[n] /\ Same(n + 1) BY <1>1, <2>1 DEF Same
    <2> QED BY <2>1, <2>2, WaitsKept DEF PathInv
<1>5. ASSUME NEW n \in Frames', n = L - 1 PROVE Runs(n)'
    <2> DEFINE g == reading[n].file
               k == reading[n].at
    <2>1. n \in Frames /\ n # L /\ n + 1 = L BY <1>1, <1>2, <1>5
    <2>2. Waits(n) BY <2>1 DEF PathInv
    <2>3. g \in Source /\ reads[g] > 0 /\ k \in Nat \ {0} BY <2>1, OnStack DEF Opened, OpenFile
    <2>4. /\ k - 1 \in 1..Len(text[g]) /\ Past(g, k - 1)
          /\ IF text[g][k - 1].op = "drop" THEN reading[L].by = "std" ELSE text[g][k - 1].file = reading[L].file
        BY <2>1, <2>2 DEF Waits, Opened
    <2>5. text'[g] = text[g] /\ \A j \in 1..Len(text[g]) : j < k - 1 => SettledNext(text[g][j])
        BY <2>3, <2>4, Growth DEF Past, Settled, SettledNext
    <2>6. Here.by # "root" /\ reading[L].file \in imported'
        <3>1. L # 1 BY <1>1, <1>2, <2>1
        <3>2. Here.by # "root" BY <1>1, <3>1
        <3> QED BY <1>1, <3>2 DEF EndOfFile
    <2>7. reading[L].by = "std" => reading[L].file = Std BY <1>1 DEF Marks, RootInv, Opened
    <2>8. SettledNext(text[g][k - 1]) BY <2>4, <2>6, <2>7 DEF SettledNext
    <2>9. reading'[n].file = g /\ reading'[n].at = k BY <1>1, <1>5
    <2>10. Len(text[g]) \in Nat BY <2>3 DEF Marks, FilesTypeOK
    <2> HIDE DEF g, k, L
    <2>11. \A j \in 1..Len(text[g]) : j < k => j < k - 1 \/ j = k - 1 BY <2>3, <2>10
    <2>12. k <= Len(text[g]) + 2 BY <2>3, <2>4, <2>10
    <2>13. \A j \in 1..Len(text[g]) : j < k => SettledNext(text[g][j])
        BY <2>5, <2>8, <2>11
    <2> QED BY <2>5, <2>9, <2>12, <2>13 DEF Runs, Past, Opened, Settled, SettledNext
<1> QED BY <1>1, <1>3, <1>4, <1>5 DEF PathInv

\* The files on the stack lead to each other.
LEMMA PathStep == Marks /\ PathInv /\ [ReadNext]_readVars => PathInv'
<1> SUFFICES ASSUME Marks, PathInv, [ReadNext]_readVars PROVE PathInv' OBVIOUS
<1> USE DEF given, context, files, names, bodies
<1>0. FilesTypeOK /\ RootInv BY DEF Marks
<1>1. ASSUME NEW i \in Item, ImportAgain(i) \/ ImportHeader(i) PROVE PathInv'
    <2>1. reading # <<>> /\ Here.at \in 1..Len(text[Here.file]) /\ text[Here.file][Here.at] = i
        BY <1>0, <1>1, AtFacts DEF ImportAgain, ImportHeader, Importing
    <2>2. SettledNext(i) BY <1>1 DEF ImportAgain, ImportHeader, Importing, SettledNext
    <2>3. reading' = Behind(reading) BY <1>1 DEF ImportAgain, ImportHeader, Advance
    <2> QED BY <2>1, <2>2, <2>3, PathAdvances
<1>2. ASSUME NEW i \in Item, Circular(i) PROVE PathInv'
    BY <1>2, PathKept DEF Circular
<1>3. ASSUME NEW i \in Item, Open(i) PROVE PathInv'
    <2>1. /\ reading # <<>> /\ Here.at \in 1..Len(text[Here.file]) /\ text[Here.file][Here.at] = i
          /\ i.op \in {"plain", "as", "only", "all"} /\ i.file \in Source
        BY <1>0, <1>3, AtFacts, ItemType DEF Open, Importing
    <2>2. reading' = Append(Behind(reading), Opening(i.file, i.op)) BY <1>3 DEF Open
    <2> QED BY <2>1, <2>2, PathEnters
<1>4. CASE ImplDrop
    <2>1. /\ reading # <<>> /\ Here.at \in 1..Len(text[Here.file])
          /\ text[Here.file][Here.at] = [op |-> "drop"]
        <3>1. reading \in Seq(OpenFile) /\ reading # <<>> BY <1>0, <1>4 DEF ImplDrop, AtItem, RootInv, FilesTypeOK
        <3>2. Here \in OpenFile BY <3>1 DEF Here
        <3>3. Here.at \in Nat \ {0} /\ Len(text[Here.file]) \in Nat
            BY <1>0, <3>2 DEF OpenFile, FilesTypeOK
        <3> QED BY <1>4, <3>1, <3>3 DEF ImplDrop, AtItem
    <2>2. imported' = imported BY <1>4 DEF ImplDrop
    <2>3. CASE Std \in imported \cup parsing
        <3>1. reading' = Behind(reading) /\ parsing' = parsing BY <1>4, <2>3 DEF ImplDrop, LoadStd
        <3>2. SettledNext(text[Here.file][Here.at]) BY <2>1, <2>2, <2>3, <3>1 DEF SettledNext
        <3> QED BY <2>1, <3>1, <3>2, PathAdvances
    <2>4. CASE Std \notin imported \cup parsing
        <3>1. reading' = Append(Behind(reading), Opening(Std, "std")) BY <1>4, <2>4 DEF ImplDrop, LoadStd
        <3> QED BY <2>1, <3>1, PathEnters, FileFacts
    <2> QED BY <2>3, <2>4
<1>5. CASE DeclareTypes
    BY <1>5, PathAdvances DEF DeclareTypes, Advance
<1>6. CASE EndOfFile
    BY <1>6, PathLeaves
<1>7. CASE LoopOverArray
    <2>1. reading = <<>> /\ reading' \in {<<>>, Append(<<>>, Opening(Std, "std"))}
        BY <1>7 DEF LoopOverArray, LoadStd
    <2> QED BY <1>0, <2>1, PathKept, PathStarts, BodyEnters
<1>8. CASE ReadExtra
    BY <1>0, <1>8, PathKept, PathStarts, ExtraEnters DEF ReadExtra
<1>9. CASE ParseBody \/ Finish \/ UNCHANGED readVars
    BY <1>9, PathKept DEF ParseBody, Finish, readVars
<1> QED BY <1>1, <1>2, <1>3, <1>4, <1>5, <1>6, <1>7, <1>8, <1>9 DEF ReadNext, Import

-----------------------------------------------------------------------------
(* The input file *)

\* The input file has no mark while the driver reads it.  If an import reads it again, it gets
\* one, and comes round to the import that led to it before it can end.
AgainInv ==
    /\ turn = "main" => Main \notin imported
    /\ Main \in parsing \/ reads[Main] = 1
    /\ Main \in parsing => \/ phase = "error"
                           \/ /\ phase = "parse" /\ turn = "main" /\ Len(reading) > 1
                              /\ Here.file = Main /\ Here.at < reading[1].at

\* When it is read again, what is left of it on top is settled, up to the import that is not.
LEMMA ComesRound ==
    ASSUME Marks, PathInv, AgainInv, Main \in parsing, phase # "error"
    PROVE  /\ Here.at \in 1..Len(text[Here.file]) /\ text[Here.file][Here.at] \in Item
           /\ LET i == text[Here.file][Here.at]
              IN  IF Here.at + 1 < reading[1].at THEN Settled(i)
                  ELSE i.op # "drop" /\ i.file \in parsing
<1> DEFINE L == Len(reading)
           a == reading[1].at - 1
<1>1. /\ phase = "parse" /\ turn = "main" /\ L > 1 /\ Here.file = Main /\ Here.at < reading[1].at
    BY DEF AgainInv
<1>2. reading \in Seq(OpenFile) /\ L \in Nat BY DEF Marks, FilesTypeOK
<1>3. 1 \in Frames /\ 2 \in Frames /\ L \in Frames /\ Here = reading[L] BY <1>1, <1>2 DEF Frames, Here
<1>4. Here.at \in Nat \ {0} /\ reading[1].at \in Nat \ {0} BY <1>3, OnStack DEF OpenFile
<1>5. reading[1].by = "root" /\ reading[1].file = Main BY <1>1, <1>3 DEF Marks, RootInv, Opened
<1>6. Waits(1) BY <1>1, <1>3 DEF PathInv
<1>7. /\ a \in 1..Len(text[Main]) /\ Past(Main, a)
      /\ IF text[Main][a].op = "drop" THEN reading[2].by = "std" ELSE text[Main][a].file = reading[2].file
    BY <1>5, <1>6 DEF Waits, Opened
<1>8. Len(text[Main]) \in Nat /\ text[Main] \in Seq(Item) BY FileFacts DEF Marks, FilesTypeOK
<1>9. reading[2].file # Std
    <2> SUFFICES ASSUME reading[2].file = Std PROVE FALSE OBVIOUS
    <2>1. L # 2 BY <1>1, <1>3, FileFacts
    <2>2. Waits(2) BY <1>3, <2>1 DEF PathInv
    <2>3. reading[2].at - 1 \in 1..Len(text[Std]) BY <2>2 DEF Waits, Opened
    <2> QED BY <2>3 DEF PathInv
<1>10. reading[2].by # "std" BY <1>3, <1>9 DEF Marks, RootInv, Opened
<1>11. 2 \in Inner /\ reading[2].file \in parsing
    BY <1>1, <1>3 DEF Marks, RootInv, MarkInv, Inner, Opened
<1> HIDE DEF a
<1>12. a = reading[1].at - 1 BY DEF a
<1>13. Here.at \in 1..Len(text[Main]) BY <1>1, <1>4, <1>7, <1>8, <1>12
<1>14. text[Main][Here.at] \in Item BY <1>8, <1>13
<1>15. CASE Here.at + 1 < reading[1].at
    BY <1>1, <1>4, <1>7, <1>12, <1>13, <1>14, <1>15 DEF Past
<1>16. CASE ~(Here.at + 1 < reading[1].at)
    <2>1. Here.at = a BY <1>1, <1>4, <1>7, <1>8, <1>12, <1>16
    <2> QED BY <1>1, <1>7, <1>10, <1>11, <1>13, <1>14, <1>16, <2>1
<1> QED BY <1>15, <1>16

\* The input file comes round to a circular import, and is never marked otherwise.
LEMMA AgainStep == Marks /\ PathInv /\ AgainInv /\ [ReadNext]_readVars => AgainInv'
<1> SUFFICES ASSUME Marks, PathInv, AgainInv, [ReadNext]_readVars PROVE AgainInv' OBVIOUS
<1> USE DEF given, context, files, names, bodies
<1>0. /\ FilesTypeOK /\ RootInv /\ MarkInv /\ CountInv
      /\ reads \in [Source -> Nat] /\ Main \in Source /\ Main # Std /\ Header \cap Source = {}
      /\ reading \in Seq(OpenFile) /\ parsing \cap imported = {} /\ parsing \subseteq Source
    BY FileFacts, ImportsAssumption DEF Marks, FilesTypeOK, MarkInv, ImportsAssumption
\* Nothing of this changes.
<1>1. ASSUME UNCHANGED <<turn, reads, parsing, reading>>, Main \in imported' <=> Main \in imported,
             phase' = phase \/ phase' = "error" \/ Main \notin parsing
      PROVE  AgainInv'
    BY <1>1 DEF AgainInv, Here
\* The top goes on.
<1>2. ASSUME UNCHANGED <<turn, phase>>, Main \in imported' <=> Main \in imported,
             reads'[Main] = reads[Main], Main \in parsing' <=> Main \in parsing, reading # <<>>,
             \/ Main \notin parsing
             \/ phase = "error"
             \/ reading' = Behind(reading) /\ Here.at + 1 < reading[1].at
      PROVE  AgainInv'
    <2>1. CASE Main \notin parsing \/ phase = "error" BY <1>2, <2>1 DEF AgainInv
    <2>2. CASE Main \in parsing /\ reading' = Behind(reading) /\ Here.at + 1 < reading[1].at /\ phase # "error"
        <3>1. Len(reading) > 1 /\ Len(reading) \in Nat BY <1>0, <2>2 DEF AgainInv
        <3>2. /\ Len(reading') = Len(reading) /\ reading'[Len(reading)].at = reading[Len(reading)].at + 1
              /\ reading'[1] = reading[1] /\ \A n \in Frames : Same(n)
            BY <1>0, <1>2, <2>2, <3>1, Advances
        <3>3. Len(reading) \in Frames BY <3>1 DEF Frames
        <3>4. Here'.at = Here.at + 1 /\ Here'.file = Here.file BY <3>2, <3>3 DEF Here, Same
        <3>5. /\ phase = "parse" /\ turn = "main" /\ Here.file = Main
              /\ (turn = "main" => Main \notin imported)
            BY <2>2 DEF AgainInv
        <3>6. phase' = "parse" /\ turn' = "main" /\ Here'.file = Main /\ Len(reading') > 1
            BY <1>2, <3>1, <3>2, <3>4, <3>5
        <3>7. Here'.at < reading'[1].at
            <4>1. reading[1] \in OpenFile /\ Here \in OpenFile BY <1>0, <3>1 DEF Here
            <4>2. reading[1].at \in Nat /\ Here.at \in Nat BY <4>1 DEF OpenFile
            <4>3. reading'[1].at = reading[1].at BY <3>2
            <4> QED BY <2>2, <3>4, <4>2, <4>3
        <3> QED BY <1>2, <2>2, <3>5, <3>6, <3>7 DEF AgainInv
    <2> QED BY <1>2, <2>1, <2>2
<1>3. ASSUME NEW i \in Item, ImportAgain(i) \/ ImportHeader(i) PROVE AgainInv'
    <2>1. reading # <<>> /\ phase = "parse" /\ Here.at \in 1..Len(text[Here.file]) /\ text[Here.file][Here.at] = i
        BY <1>0, <1>3, AtFacts DEF ImportAgain, ImportHeader, Importing
    <2>2. /\ UNCHANGED <<turn, phase, parsing, reads>> /\ reading' = Behind(reading) /\ i.op # "drop"
          /\ Main \in imported' <=> Main \in imported
        BY <1>0, <1>3 DEF ImportAgain, ImportHeader, Advance, Importing
    <2>3. i.file \in imported \/ i.file \in Header \ imported
        BY <1>3 DEF ImportAgain, ImportHeader
    <2>4. Main \in parsing => Here.at + 1 < reading[1].at
        BY <1>0, <2>1, <2>2, <2>3, ComesRound
    <2> QED BY <1>2, <2>1, <2>2, <2>4
<1>4. ASSUME NEW i \in Item, Circular(i) PROVE AgainInv'
    BY <1>1, <1>4 DEF Circular
<1>5. ASSUME NEW i \in Item, Open(i) PROVE AgainInv'
    <2>1. /\ reading # <<>> /\ phase = "parse" /\ Here.at \in 1..Len(text[Here.file])
          /\ text[Here.file][Here.at] = i
          /\ i.op \in {"plain", "as", "only", "all"} /\ i.file \in Source
        BY <1>0, <1>5, AtFacts, ItemType DEF Open, Importing
    <2>2. /\ UNCHANGED <<turn, phase, imported>> /\ parsing' = parsing \cup {i.file}
          /\ reads' = [reads EXCEPT ![i.file] = @ + 1] /\ i.file \notin imported \cup parsing
          /\ reading' = Append(Behind(reading), Opening(i.file, i.op))
        BY <1>5 DEF Open
    <2>3. Main \notin parsing
        <3> SUFFICES ASSUME Main \in parsing PROVE FALSE OBVIOUS
        <3> QED BY <2>1, <2>2, ComesRound DEF Settled
    <2>4. CASE i.file # Main
        BY <1>0, <2>1, <2>2, <2>3, <2>4 DEF AgainInv
    <2>5. CASE i.file = Main
        <3>1. turn = "main" BY <1>0, <2>2, <2>5 DEF CountInv, FilesTypeOK
        <3> DEFINE L == Len(reading)
        <3>2. /\ L \in Nat \ {0} /\ Len(reading') = L + 1 /\ \A n \in 1..(L - 1) : reading'[n] = reading[n]
              /\ reading'[L].at = reading[L].at + 1
              /\ reading'[L + 1].at = 1 /\ reading'[L + 1].file = Main
            BY <1>0, <2>1, <2>2, <2>5, Enters
        <3>3. 1 \in Frames /\ L \in Frames BY <3>2 DEF Frames
        <3>4. reading[1].at \in Nat \ {0} BY <3>3, OnStack DEF OpenFile
        <3>5. L # 1 => reading[1].at > 1
            <4> SUFFICES ASSUME L # 1 PROVE reading[1].at > 1 OBVIOUS
            <4>1. Waits(1) BY <3>3 DEF PathInv
            <4> QED BY <3>4, <4>1 DEF Waits
        <3>6. reading'[1].at > 1
            <4>1. CASE L = 1 BY <3>2, <3>4, <4>1
            <4>2. CASE L # 1
                <5>0. L \in Nat \ {0} BY <3>2
                <5>1. \A l \in Nat \ {0} : l # 1 => 1 \in 1..(l - 1) OBVIOUS
                <5>2. 1 \in 1..(L - 1) BY <4>2, <5>0, <5>1
                <5> QED BY <3>2, <3>5, <4>2, <5>2
            <4> QED BY <4>1, <4>2
        <3>7. Here'.at = 1 /\ Here'.file = Main BY <3>2 DEF Here
        <3> QED BY <1>0, <2>1, <2>2, <2>5, <3>1, <3>2, <3>6, <3>7 DEF AgainInv
    <2> QED BY <2>4, <2>5
<1>6. CASE ImplDrop
    <2>1. /\ reading # <<>> /\ phase = "parse" /\ text[Here.file][Here.at] = [op |-> "drop"]
          /\ UNCHANGED <<turn, phase, imported>>
        BY <1>0, <1>6 DEF ImplDrop, AtItem, RootInv
    <2>2. Main \in parsing => Std \in imported \cup parsing /\ Here.at + 1 < reading[1].at
        BY <2>1, ComesRound DEF Settled
    <2>3. reads'[Main] = reads[Main] /\ (Main \in parsing' <=> Main \in parsing)
        BY <1>0, <1>6 DEF ImplDrop, LoadStd
    <2>4. Std \in imported \cup parsing => reading' = Behind(reading)
        BY <1>6 DEF ImplDrop, LoadStd
    <2> QED BY <1>2, <2>1, <2>2, <2>3, <2>4
<1>7. CASE DeclareTypes \/ EndOfFile
    <2>1. reading # <<>> /\ Here.at > Len(text[Here.file]) /\ phase \in {"parse", "bodies"} /\ turn' = turn
          /\ reads' = reads
        <3>1. reading # <<>> BY <1>7 DEF DeclareTypes, EndOfFile
        <3>2. Here \in OpenFile BY <1>0, <3>1 DEF Here
        <3>3. Len(text[Here.file]) \in Nat BY <1>0, <3>2 DEF OpenFile, FilesTypeOK
        <3> QED BY <1>7, <3>1, <3>3 DEF DeclareTypes, EndOfFile
    <2>2. Main \notin parsing
        <3> SUFFICES ASSUME Main \in parsing PROVE FALSE OBVIOUS
        <3>1. Here.at \in 1..Len(text[Here.file]) BY <2>1, ComesRound
        <3>2. Here \in OpenFile BY <1>0, <2>1 DEF Here
        <3>3. Len(text[Here.file]) \in Nat BY <1>0, <3>2 DEF OpenFile, FilesTypeOK
        <3> QED BY <2>1, <3>1, <3>3
    <2>3. Main \notin parsing' /\ (Main \in imported' <=> Main \in imported)
        <3>1. CASE DeclareTypes BY <2>2, <3>1 DEF DeclareTypes
        <3>2. CASE EndOfFile /\ Here.by = "root" BY <2>2, <3>2 DEF EndOfFile
        <3>3. CASE EndOfFile /\ Here.by # "root"
            <4>1. Here.file \in parsing BY <1>0, <3>3, EndFacts DEF MarkInv, Inner, Opened
            <4> QED BY <2>2, <3>3, <4>1 DEF EndOfFile
        <3> QED BY <1>7, <3>1, <3>2, <3>3
    <2> QED BY <2>1, <2>2, <2>3 DEF AgainInv
<1>8. CASE LoopOverArray
    <2>1. phase = "bodies" /\ Main \notin parsing BY <1>8 DEF LoopOverArray, AgainInv
    <2>2. reads'[Main] = reads[Main] /\ Main \notin parsing' /\ UNCHANGED <<turn, imported>>
        BY <1>0, <1>8, <2>1 DEF LoopOverArray, LoadStd
    <2> QED BY <2>1, <2>2 DEF AgainInv
<1>9. CASE ReadExtra
    <2>1. /\ Main \notin parsing /\ parsing' = parsing /\ turn' = "extra"
          /\ extra \in Source \ {Main}
        BY <1>0, <1>9, FileFacts DEF ReadExtra, AgainInv, FilesTypeOK
    <2>2. reads'[Main] = reads[Main] BY <1>0, <1>9, <2>1 DEF ReadExtra
    <2> QED BY <2>1, <2>2 DEF AgainInv
<1>10. CASE ParseBody \/ Finish
    <2>1. phase = "bodies" /\ Main \notin parsing BY <1>10 DEF ParseBody, Finish, AgainInv
    <2> QED BY <1>1, <1>10, <2>1 DEF ParseBody, Finish
<1>11. CASE UNCHANGED readVars
    BY <1>1, <1>11 DEF readVars
<1> QED BY <1>3, <1>4, <1>5, <1>6, <1>7, <1>8, <1>9, <1>10, <1>11 DEF ReadNext, Import

-----------------------------------------------------------------------------
(* What the marks are for *)

Inv == Marks /\ PathInv /\ AgainInv

\* The first state.
LEMMA InitInv == ReadInit => Inv
<1> SUFFICES ASSUME ReadInit PROVE Inv OBVIOUS
<1>1. FilesTypeOK /\ RootInv BY InitType
<1> DEFINE r == [file |-> Main, at |-> 1, by |-> "root", prefix |-> NoPrefix]
<1>2. reading = <<r>> /\ r.by = "root" /\ r.file = Main /\ r.at = 1 BY DEF ReadInit
<1> HIDE DEF r
<1>3. Len(reading) = 1 /\ Frames = {1} /\ reading[1] = r BY <1>2 DEF Frames
<1>4. Inner = {} BY <1>2, <1>3 DEF Inner
<1>5. /\ parsing = {} /\ imported = {} /\ turn = "main" /\ reads[Main] = 1
      /\ \A f \in Source \ {Main} : reads[f] = 0
    BY FileFacts DEF ReadInit
<1>6. MarkInv BY <1>4, <1>5 DEF MarkInv
<1>7. CountInv BY <1>5 DEF CountInv
<1>8. AgainInv BY <1>5 DEF AgainInv
<1>9. text[Std] = <<>> BY FileFacts DEF ReadInit
<1>10. Len(text[Main]) \in Nat BY <1>1, FileFacts DEF FilesTypeOK
<1>11. \A n \in Frames : Runs(n) BY <1>2, <1>3, <1>10 DEF Runs, Past, Opened
<1> QED BY <1>1, <1>3, <1>6, <1>7, <1>8, <1>9, <1>11 DEF Inv, Marks, PathInv

\* It is inductive.
LEMMA InvStep == Inv /\ [ReadNext]_readVars => Inv'
BY TypeStep, RootStep, MarkStep, CountStep, PathStep, AgainStep DEF Inv, Marks

\* imported_files: a file is read once, however many files import it and in whatever way; and
\* the input file, in a program that has no circular import.
THEOREM ReadOnceAlways == ReadSpec => []ReadOnce
<1>1. Inv => ReadOnce
    <2> SUFFICES ASSUME Inv PROVE ReadOnce OBVIOUS
    <2>1. \A f \in Source \ {Main} : reads[f] <= 1 BY DEF Inv, Marks, CountInv
    <2>2. phase = "done" => reads[Main] = 1 BY DEF Inv, AgainInv
    <2> QED BY <2>1, <2>2 DEF ReadOnce
<1> QED BY <1>1, InitInv, InvStep, PTL DEF ReadSpec

\* The recursion of the parser is no deeper than there are files, but for the input file, which
\* may be entered twice.
THEOREM DepthBoundedAlways == ReadSpec => []DepthBounded
<1>1. Inv => DepthBounded
    <2> SUFFICES ASSUME Inv, ~DepthBounded PROVE FALSE OBVIOUS
    <2> DEFINE C == Cardinality(Source)
               N == 2..Len(reading)
    <2>1. C \in Nat /\ IsFiniteSet(Source) BY FileFacts
    <2>2. Len(reading) \in Nat BY DEF Inv, Marks, FilesTypeOK
    <2>3. Len(reading) > C + 1 BY <2>1, <2>2 DEF DepthBounded
    <2>4. IsFiniteSet(N) /\ Cardinality(N) = Len(reading) - 1
        <3>1. 2 \in Int /\ Len(reading) \in Int /\ ~(2 > Len(reading)) BY <2>1, <2>2, <2>3
        <3>2. IsFiniteSet(N) /\ Cardinality(N) = IF 2 > Len(reading) THEN 0 ELSE Len(reading) - 2 + 1
            BY <3>1, FS_Interval
        <3> QED BY <2>2, <3>1, <3>2
    <2>5. N \subseteq Inner
        <3> SUFFICES ASSUME NEW n \in N PROVE n \in Inner OBVIOUS
        <3>1. n \in Frames /\ n # 1 BY <2>2 DEF Frames
        <3> QED BY <3>1 DEF Inv, Marks, RootInv, Inner
    <2> DEFINE file == [n \in N |-> Opened(n)]
    <2>6. \A n \in Frames : Opened(n) \in Source BY OnStack DEF Inv
    <2>7. file \in [N -> Source] BY <2>5, <2>6 DEF Inner
    <2>8. \A n \in N : file[n] = Opened(n) OBVIOUS
    <2>9. C < Len(reading) - 1 BY <2>1, <2>2, <2>3
    <2> HIDE DEF file, N
    <2>10. \E x, y \in N : x # y /\ file[x] = file[y]
        BY <2>1, <2>4, <2>7, <2>9, FS_PigeonHole
    <2> QED BY <2>5, <2>8, <2>10 DEF Inv, Marks, MarkInv
<1> QED BY <1>1, InitInv, InvStep, PTL DEF ReadSpec

-----------------------------------------------------------------------------
(* Circular imports *)

\* An import is an item that stands in the text.
LEMMA ImportsAre ==
    ASSUME FilesTypeOK, NEW f \in FilesRead, NEW i
    PROVE  /\ i \in Imports(f) <=> \E j \in 1..Len(text[f]) : text[f][j] = i /\ i.op # "drop"
           /\ i \in Imports(f) => i \in Item /\ i \in Written
<1>1. f \in Source /\ text[f] \in Seq(Item) /\ Len(text[f]) <= MaxItems /\ MaxItems \in Nat
    BY ImportsAssumption DEF FilesTypeOK, FilesRead, ImportsAssumption
<1>2. \A j \in 1..Len(text[f]) : j \in 1..MaxItems /\ text[f][j] \in Item
    BY <1>1
<1>3. \A k \in Item : k # [op |-> "drop"] <=> k.op # "drop"
    BY ItemType
<1>4. ASSUME i \in Imports(f) PROVE \E j \in 1..Len(text[f]) : text[f][j] = i /\ i.op # "drop"
    <2>1. PICK p \in Places : p[1] = f /\ text[p[1]][p[2]] = i /\ i # [op |-> "drop"]
        BY <1>4 DEF Imports
    <2>2. p[2] \in 1..MaxItems /\ p[2] <= Len(text[f]) BY <2>1 DEF Places
    <2>3. p[2] \in 1..Len(text[f]) BY <1>1, <2>2
    <2> QED BY <1>2, <1>3, <2>1, <2>3
<1>5. ASSUME NEW j \in 1..Len(text[f]), text[f][j] = i, i.op # "drop" PROVE i \in Imports(f)
    <2> DEFINE p == <<f, j>>
    <2>1. p \in Places /\ p[1] = f /\ p[2] = j BY <1>1, <1>2 DEF Places
    <2> QED BY <1>2, <1>3, <1>5, <2>1 DEF Imports
<1>6. ASSUME i \in Imports(f) PROVE i \in Item BY <1>2, <1>4, <1>6
<1> QED BY <1>4, <1>5, <1>6 DEF Written

\* The file f, which has been read, imports the file g.
Leads(f, g) == /\ ~(turn = "extra" /\ g = extra)
               /\ \E j \in 1..Len(text[f]) : text[f][j].op # "drop" /\ text[f][j].file = g

\* It is what Follows says.
LEMMA FollowsFacts == FilesTypeOK => \A f \in FilesRead : \A g : Follows(f, g) <=> Leads(f, g)
<1> SUFFICES ASSUME FilesTypeOK, NEW f \in FilesRead, NEW g
             PROVE  Follows(f, g) <=> Leads(f, g)
    OBVIOUS
<1>1. ASSUME Follows(f, g) PROVE Leads(f, g)
    <2>1. PICK i \in Imports(f) : i.file = g BY <1>1 DEF Follows
    <2>2. \E j \in 1..Len(text[f]) : text[f][j] = i /\ i.op # "drop" BY ImportsAre
    <2> QED BY <1>1, <2>1, <2>2 DEF Follows, Leads
<1>2. ASSUME Leads(f, g) PROVE Follows(f, g)
    <2>1. PICK j \in 1..Len(text[f]) : text[f][j].op # "drop" /\ text[f][j].file = g
        BY <1>2 DEF Leads
    <2>2. text[f][j] \in Imports(f) BY <2>1, ImportsAre
    <2> QED BY <1>2, <2>1, <2>2 DEF Follows, Leads
<1> QED BY <1>1, <1>2

\* The files that were read to their ends.
Finished == {f \in FilesRead : \A n \in Frames : Opened(n) # f}

\* They import only such files, and not in a circle.
CycleInv ==
    /\ \A f \in Finished, g \in Source : Leads(f, g) => g \in Finished
    /\ \A S \in (SUBSET Finished) \ {{}} : \E f \in S : \A g \in S : ~Leads(f, g)

\* What counts as imported is finished, but for the extra file.
LEMMA ImportedFinished ==
    ASSUME Inv, NEW f \in imported \cap Source, ~(turn = "extra" /\ f = extra)
    PROVE  f \in Finished
<1>1. f \in FilesRead
    <2>1. reads[f] = 1 \/ f = Main BY DEF Inv, Marks, CountInv
    <2>2. reads[Main] > 0 BY DEF Inv, Marks, CountInv
    <2> QED BY <2>1, <2>2 DEF FilesRead
<1>2. ASSUME NEW n \in Frames PROVE Opened(n) # f
    <2>1. CASE n \in Inner BY <2>1 DEF Inv, Marks, MarkInv
    <2>2. CASE n \notin Inner
        <3>1. Opened(n) = IF turn = "main" THEN Main ELSE extra
            BY <2>2 DEF Inv, Marks, RootInv, Inner
        <3>2. turn \in {"main", "extra"} BY DEF Inv, Marks, FilesTypeOK
        <3> QED BY <3>1, <3>2 DEF Inv, AgainInv
    <2> QED BY <2>1, <2>2
<1> QED BY <1>1, <1>2 DEF Finished

\* A finished file counts as imported, but for the input file until an extra file is read.
LEMMA FinishedImported ==
    ASSUME Inv, NEW f \in Finished
    PROVE  f \in imported \/ (f = Main /\ phase # "parse")
<1>1. f \in Source /\ reads[f] > 0 /\ \A n \in Frames : Opened(n) # f BY DEF Finished, FilesRead
<1>2. f \notin parsing BY <1>1 DEF Inv, Marks, MarkInv, Inner
<1>3. CASE f # Main BY <1>1, <1>2, <1>3 DEF Inv, Marks, CountInv
<1>4. CASE f = Main /\ phase = "parse" /\ f \notin imported
    <2>1. 1 \in Frames
        <3>1. reading \in Seq(OpenFile) /\ reading # <<>> BY <1>4 DEF Inv, Marks, FilesTypeOK, RootInv
        <3>2. Len(reading) \in Nat \ {0} BY <3>1
        <3> QED BY <3>2 DEF Frames
    <2>2. turn = "main" BY <1>4 DEF Inv, Marks, CountInv, FilesTypeOK
    <2> QED BY <1>1, <1>4, <2>1, <2>2 DEF Inv, Marks, RootInv
<1> QED BY <1>3, <1>4

\* A step that does not open a file, and does not end one.
LEMMA FinishedKept ==
    ASSUME Inv, Stays, reads' = reads PROVE Finished' = Finished
<1>1. Frames' = Frames /\ \A n \in Frames : reading'[n].file = reading[n].file
    BY StaysFacts DEF Inv, Marks, Same
<1> QED BY <1>1 DEF Finished, FilesRead, Opened

\* A step that opens the file f.
LEMMA FinishedOpens ==
    ASSUME Inv, NEW f \in Source, f \notin imported, f = Main => phase = "parse",
           reads' = [reads EXCEPT ![f] = @ + 1],
           \E n \in Frames' : reading'[n].file = f,
           \A g \in Source \ {f} : (\E n \in Frames' : reading'[n].file = g)
                                       <=> (\E n \in Frames : reading[n].file = g)
    PROVE  Finished' = Finished
<1>1. f \notin Finished BY FinishedImported
<1>2. reads \in [Source -> Nat] BY DEF Inv, Marks, FilesTypeOK
<1>3. f \notin Finished' BY DEF Finished, Opened
<1>4. \A g \in Source \ {f} : reads'[g] = reads[g] BY <1>2
<1>5. \A g \in Source \ {f} : g \in Finished' <=> g \in Finished
    BY <1>4 DEF Finished, Opened, FilesRead
<1> QED BY <1>1, <1>3, <1>5 DEF Finished, FilesRead

\* The finished files become more, by the file that ends.
LEMMA FinishedGrows ==
    ASSUME Inv, [ReadNext]_readVars
    PROVE  /\ Finished \subseteq Finished'
           /\ ~EndOfFile => Finished' = Finished
           /\ EndOfFile => Finished' \subseteq Finished \cup {Here.file}
<1> USE DEF given, context, files, names, bodies
<1>0. FilesTypeOK /\ RootInv BY DEF Inv, Marks
<1>1. ASSUME NEW i \in Item, ImportAgain(i) \/ ImportHeader(i) \/ Circular(i)
      PROVE  Finished' = Finished
    <2>1. Stays
        BY <1>0, <1>1, AtFacts DEF ImportAgain, ImportHeader, Circular, Importing, Advance, Stays
    <2> QED BY <1>1, <2>1, FinishedKept DEF ImportAgain, ImportHeader, Circular
<1>2. ASSUME reading # <<>>, NEW f \in Source, NEW by \in {"std", "plain", "as", "only", "all"},
             reading' = Append(Behind(reading), Opening(f, by)), f \notin imported, phase = "parse",
             reads' = [reads EXCEPT ![f] = @ + 1]
      PROVE  Finished' = Finished
    <2>1. Entered(f, by) BY <1>0, <1>2, EnteredFacts
    <2>2. /\ Frames' = Frames \cup {Len(reading')} /\ reading'[Len(reading')].file = f
          /\ \A n \in Frames : reading'[n].file = reading[n].file
        BY <2>1 DEF Entered, Same
    <2>3. Frames' = Frames \cup {Len(reading')} /\ Len(reading') \in Frames' BY <2>2
    <2>4. \E n \in Frames' : reading'[n].file = f BY <2>2, <2>3
    <2>5. ASSUME NEW g \in Source \ {f}
          PROVE  (\E n \in Frames' : reading'[n].file = g) <=> (\E n \in Frames : reading[n].file = g)
        BY <2>2
    <2> QED BY <1>2, <2>4, <2>5, FinishedOpens
<1>3. ASSUME NEW i \in Item, Open(i) PROVE Finished' = Finished
    <2>1. reading # <<>> /\ phase = "parse" /\ i.op \in {"plain", "as", "only", "all"} /\ i.file \in Source
        BY <1>0, <1>3, AtFacts, ItemType DEF Open, Importing
    <2>2. /\ reading' = Append(Behind(reading), Opening(i.file, i.op)) /\ i.file \notin imported
          /\ reads' = [reads EXCEPT ![i.file] = @ + 1]
        BY <1>3 DEF Open
    <2> QED BY <1>2, <2>1, <2>2
<1>4. CASE ImplDrop
    <2>1. reading # <<>> /\ phase = "parse" BY <1>0, <1>4 DEF ImplDrop, AtItem, RootInv
    <2>2. \/ reading' = Behind(reading) /\ reads' = reads
          \/ /\ reading' = Append(Behind(reading), Opening(Std, "std")) /\ Std \notin imported
             /\ reads' = [reads EXCEPT ![Std] = @ + 1]
        BY <1>4 DEF ImplDrop, LoadStd
    <2>3. CASE reading' = Behind(reading) /\ reads' = reads
        BY <2>1, <2>3, FinishedKept DEF Stays
    <2> QED BY <1>2, <2>1, <2>2, <2>3, FileFacts
<1>5. CASE LoopOverArray
    <2>1. \/ reading' = reading /\ reads' = reads
          \/ /\ reading' = Append(<<>>, Opening(Std, "std")) /\ Std \notin imported
             /\ reads' = [reads EXCEPT ![Std] = @ + 1]
        BY <1>5 DEF LoopOverArray, LoadStd
    <2>2. CASE reading' = reading /\ reads' = reads
        BY <2>2, FinishedKept DEF Stays
    <2>3. CASE /\ reading' = Append(<<>>, Opening(Std, "std")) /\ Std \notin imported
               /\ reads' = [reads EXCEPT ![Std] = @ + 1]
        <3>1. reading = <<>> BY <1>5 DEF LoopOverArray
        <3>2. Frames' = {1} /\ reading'[1].file = Std BY <1>0, <2>3, <3>1, BodyEnters
        <3>3. Frames = {}
            <4>1. Len(reading) = 0 BY <3>1
            <4> QED BY <4>1 DEF Frames
        <3> QED BY <2>3, <3>2, <3>3, FinishedOpens, FileFacts
    <2> QED BY <2>1, <2>2, <2>3
<1>6. CASE ReadExtra
    <2>1. reading = <<>> /\ extra \in Source \ {Main} BY <1>0, <1>6, FileFacts DEF ReadExtra, FilesTypeOK
    <2>2. CASE extra \in imported
        BY <1>6, <2>2, FinishedKept DEF ReadExtra, Stays
    <2>3. CASE extra \notin imported
        <3>1. Frames' = {1} /\ reading'[1].file = extra BY <1>0, <1>6, <2>3, ExtraEnters
        <3>2. reads' = [reads EXCEPT ![extra] = @ + 1] BY <1>6, <2>3 DEF ReadExtra
        <3>3. Frames = {}
            <4>1. Len(reading) = 0 BY <2>1
            <4> QED BY <4>1 DEF Frames
        <3> QED BY <2>1, <2>3, <3>1, <3>2, <3>3, FinishedOpens
    <2> QED BY <2>2, <2>3
<1>7. CASE DeclareTypes \/ ParseBody \/ Finish \/ UNCHANGED readVars
    BY <1>7, FinishedKept DEF DeclareTypes, Advance, ParseBody, Finish, readVars, Stays
<1>8. CASE EndOfFile
    <2>1. /\ Len(reading) \in Frames /\ Frames' = Frames \ {Len(reading)} /\ Here = reading[Len(reading)]
          /\ \A n \in Frames' : reading'[n] = reading[n]
        BY <1>0, <1>8, EndFacts
    <2>2. reads' = reads BY <1>8 DEF EndOfFile
    <2>3. Finished \subseteq Finished' BY <2>1, <2>2 DEF Finished, FilesRead, Opened
    <2>4. Finished' \subseteq Finished \cup {Here.file} BY <2>1, <2>2 DEF Finished, FilesRead, Opened
    <2> QED BY <1>8, <2>3, <2>4
<1> QED BY <1>1, <1>3, <1>4, <1>5, <1>6, <1>7, <1>8 DEF ReadNext, Import

\* A file that was read imports nothing new.
LEMMA LeadsKept ==
    ASSUME Inv, [ReadNext]_readVars, NEW f \in Source, reads[f] > 0, NEW g, Leads(f, g)'
    PROVE  Leads(f, g)
<1>1. text'[f] = text[f] BY Growth DEF Inv
<1>2. extra' = extra /\ (turn = "extra" => turn' = "extra")
    BY DEF ReadNext, Import, ImportAgain, Circular, ImportHeader, Open, ImplDrop, DeclareTypes, EndOfFile,
           ParseBody, LoopOverArray, ReadExtra, Finish, given, readVars
<1> QED BY <1>1, <1>2 DEF Leads

\* The finished files have no circle among them.
LEMMA CycleStep == Inv /\ CycleInv /\ [ReadNext]_readVars => CycleInv'
<1> SUFFICES ASSUME Inv, CycleInv, [ReadNext]_readVars PROVE CycleInv' OBVIOUS
<1>1. \A f \in Finished : f \in Source /\ reads[f] > 0 BY DEF Finished, FilesRead
<1>2. ASSUME ~EndOfFile PROVE CycleInv'
    <2>1. Finished' = Finished BY <1>2, FinishedGrows
    <2>2. \A f \in Finished : \A g : Leads(f, g)' => Leads(f, g) BY <1>1, LeadsKept
    <2> QED BY <2>1, <2>2 DEF CycleInv
<1>3. CASE EndOfFile
    <2> DEFINE e == Here.file
    <2>1. Finished \subseteq Finished' /\ Finished' \subseteq Finished \cup {e} BY <1>3, FinishedGrows
    <2>2. Len(reading) \in Frames /\ Here = reading[Len(reading)] BY <1>3, EndFacts DEF Inv, Marks
    <2>3. e \in Source /\ reads[e] > 0 BY <2>2, OnStack DEF Inv, Opened
    <2>4. \A f \in Finished \cup {e} : \A g : Leads(f, g)' => Leads(f, g) BY <1>1, <2>3, LeadsKept
    <2>5. ASSUME NEW g \in Source, Leads(e, g) PROVE g \in Finished
        <3>1. PICK j \in 1..Len(text[e]) : text[e][j].op # "drop" /\ text[e][j].file = g
            BY <2>5 DEF Leads
        <3>2. Past(e, Len(text[e]) + 2)
            BY <1>3, <2>2 DEF Inv, PathInv, Runs, Opened, EndOfFile
        <3>3. Len(text[e]) \in Nat BY <2>3 DEF Inv, Marks, FilesTypeOK
        <3>4. j < Len(text[e]) + 2 BY <3>3
        <3>5. g \in imported BY <3>1, <3>2, <3>4 DEF Past, Settled
        <3> QED BY <2>5, <3>5, ImportedFinished DEF Leads
    <2> HIDE DEF e
    <2>6. ASSUME NEW f \in Finished', NEW g \in Source, Leads(f, g)' PROVE g \in Finished'
        <3>1. Leads(f, g) BY <2>1, <2>4, <2>6
        <3> QED BY <2>1, <2>5, <3>1 DEF CycleInv
    <2>7. ASSUME NEW S \in (SUBSET Finished') \ {{}}
          PROVE  \E f \in S : \A g \in S : ~Leads(f, g)'
        <3> DEFINE T == S \cap Finished
        <3>1. CASE T # {}
            <4>1. PICK f \in T : \A g \in T : ~Leads(f, g) BY <3>1 DEF CycleInv
            <4>2. ASSUME NEW g \in S, Leads(f, g)' PROVE FALSE
                <5>1. Leads(f, g) BY <2>4, <4>1, <4>2
                <5>2. g \in Source BY <2>1, <2>3, <1>1
                <5>3. g \in Finished BY <4>1, <5>1, <5>2 DEF CycleInv
                <5> QED BY <4>1, <4>2, <5>1, <5>3
            <4> QED BY <4>1, <4>2
        <3>2. CASE T = {}
            <4>1. S = {e} BY <2>1, <3>2
            <4>2. PICK f \in S : f = e BY <4>1
            <4>3. ASSUME Leads(f, f)' PROVE FALSE
                <5>1. Leads(f, f) BY <2>4, <4>2, <4>3
                <5>2. f \in Finished BY <2>3, <2>5, <4>2, <5>1
                <5> QED BY <3>2, <5>2
            <4> QED BY <4>1, <4>2, <4>3
        <3> QED BY <3>1, <3>2
    <2> QED BY <2>6, <2>7 DEF CycleInv
<1> QED BY <1>2, <1>3

\* The import that is reported closes a circle: the files on the stack from the imported one on.
LEMMA CircularCycle == ASSUME Inv, NEW i \in Item, Circular(i) PROVE ~Acyclic
<1> DEFINE L == Len(reading)
<1>0. FilesTypeOK /\ RootInv /\ MarkInv /\ CountInv /\ PathInv BY DEF Inv, Marks
<1>1. /\ L \in Frames /\ Here = reading[L] /\ Here.at \in 1..Len(text[Here.file])
      /\ text[Here.file][Here.at] = i /\ i.op # "drop" /\ i.file \in parsing
    BY <1>0, AtFacts DEF Circular, Importing, Here
<1>2. L \in Nat \ {0} /\ Frames = 1..L
    BY <1>0, <1>1 DEF Frames, FilesTypeOK
<1>3. PICK m \in Inner : Opened(m) = i.file BY <1>0, <1>1 DEF MarkInv
<1> DEFINE S == {Opened(n) : n \in m..L}
<1>4. m \in Frames /\ m..L \subseteq Frames BY <1>2, <1>3 DEF Inner
<1>5. S \subseteq FilesRead BY <1>4, OnStack DEF Inv, FilesRead
<1>6. S # {} BY <1>2, <1>4
\* Only the top can be the std file.
<1>7. \A n \in Frames : Opened(n) # Std
    <2> SUFFICES ASSUME NEW n \in Frames, Opened(n) = Std PROVE FALSE OBVIOUS
    <2>1. Len(text[Std]) = 0 BY <1>0 DEF PathInv
    <2>2. CASE n = L BY <1>1, <2>1, <2>2 DEF Opened
    <2>3. CASE n # L
        <3>1. Waits(n) BY <1>0, <2>3 DEF PathInv
        <3> QED BY <2>1, <3>1 DEF Waits
    <2> QED BY <2>2, <2>3
\* The extra file is not imported from the stack.
<1>8. \A n \in Inner : ~(turn = "extra" /\ Opened(n) = extra)
    BY <1>0 DEF MarkInv, CountInv
<1>9. ASSUME NEW n \in m..L PROVE \E g \in S : Leads(Opened(n), g)
    <2>1. CASE n = L
        <3>1. m \in m..L /\ Opened(m) \in S BY <1>2, <1>4
        <3>2. Leads(Opened(n), Opened(m)) BY <1>1, <1>3, <1>8, <2>1 DEF Leads, Opened
        <3> QED BY <3>1, <3>2
    <2>2. CASE n # L
        <3>1. n \in Frames /\ n + 1 \in m..L /\ n + 1 \in Frames /\ n + 1 # 1 
            BY <1>2, <1>4, <2>2
        <3>2. Opened(n + 1) \in S BY <3>1
        <3>3. Waits(n) BY <1>0, <2>2, <3>1 DEF PathInv
        <3>4. n + 1 \in Inner BY <1>0, <3>1 DEF RootInv, Inner
        <3>5. reading[n + 1].by # "std" BY <1>0, <1>7, <3>1 DEF RootInv
        <3>6. Leads(Opened(n), Opened(n + 1)) BY <1>8, <3>3, <3>4, <3>5 DEF Waits, Leads
        <3> QED BY <3>2, <3>6
    <2> QED BY <2>1, <2>2
<1>10. \A f \in S : \E g \in S : Leads(f, g) BY <1>9
<1>11. \A f \in S : \E g \in S : Follows(f, g)
    BY <1>0, <1>5, <1>10, FollowsFacts
<1> HIDE DEF S
<1> QED BY <1>5, <1>6, <1>11 DEF Acyclic

\* The error stays what it reported.
ErrorInv == phase = "error" => ~Acyclic

\* Nothing happens after it.
LEMMA ErrorStep == Inv /\ ErrorInv /\ [ReadNext]_readVars => ErrorInv'
<1> SUFFICES ASSUME Inv, ErrorInv, [ReadNext]_readVars, phase' = "error" PROVE ~Acyclic'
    BY DEF ErrorInv
<1> USE DEF given, context, files, names, bodies
<1>1. ASSUME ~Acyclic, UNCHANGED <<text, reads, extra, turn>> PROVE ~Acyclic'
    <2>1. FilesRead' = FilesRead BY <1>1 DEF FilesRead
    <2>2. Places' = Places BY <1>1, <2>1 DEF Places
    <2>3. \A f : Imports(f)' = Imports(f) BY <1>1, <2>2 DEF Imports
    <2>4. \A f, g : Follows(f, g)' <=> Follows(f, g) BY <1>1, <2>3 DEF Follows
    <2>5. PICK S \in (SUBSET FilesRead) \ {{}} : \A f \in S : \E g \in S : Follows(f, g)
        BY <1>1 DEF Acyclic
    <2> QED BY <2>1, <2>4, <2>5 DEF Acyclic
<1>2. ASSUME NEW i \in Item, Circular(i) PROVE ~Acyclic'
    BY <1>1, <1>2, CircularCycle DEF Circular
<1>3. CASE UNCHANGED readVars BY <1>1, <1>3 DEF readVars, ErrorInv
<1>4. (\E i \in Item : Circular(i)) \/ UNCHANGED readVars
    BY DEF ReadNext, Import, ImportAgain, ImportHeader, Open, Importing, AtItem, Advance, ImplDrop, DeclareTypes,
           EndOfFile, ParseBody, LoopOverArray, ReadExtra, Finish
<1> QED BY <1>2, <1>3, <1>4

\* currently_parsing: a circular import is reported if and only if there is one, whatever the
\* files import and in whatever way.
THEOREM CyclesReportedAlways == ReadSpec => []CyclesReported
<1>1. ReadInit => CycleInv /\ ErrorInv
    <2> SUFFICES ASSUME ReadInit PROVE CycleInv /\ ErrorInv OBVIOUS
    <2>1. FilesRead = {Main} /\ phase = "parse" BY FileFacts DEF ReadInit, FilesRead
    <2> DEFINE r == [file |-> Main, at |-> 1, by |-> "root", prefix |-> NoPrefix]
    <2>2. reading = <<r>> /\ r.file = Main BY DEF ReadInit
    <2> HIDE DEF r
    <2>3. 1 \in Frames /\ Opened(1) = Main BY <2>2 DEF Frames, Opened
    <2>4. Finished = {} BY <2>1, <2>3 DEF Finished
    <2> QED BY <2>1, <2>4 DEF CycleInv, ErrorInv
<1>2. Inv /\ CycleInv /\ ErrorInv => CyclesReported
    <2> SUFFICES ASSUME Inv, CycleInv, phase = "done" PROVE Acyclic
        BY DEF CyclesReported, ErrorInv
    <2>1. reading = <<>> /\ FilesTypeOK BY DEF Inv, Marks, RootInv
    <2>2. Len(reading) = 0 BY <2>1
    <2>3. Finished = FilesRead BY <2>2 DEF Finished, Frames
    <2> QED BY <2>1, <2>3, FollowsFacts DEF CycleInv, Acyclic
<1> QED BY <1>1, <1>2, InitInv, InvStep, CycleStep, ErrorStep, PTL DEF ReadSpec

-----------------------------------------------------------------------------
(* The prefixes of the files that are being read *)

Prefixed == {"as", "only", "all"}

\* The prefix that the file n of the stack declares with.
Current(n) == IF n = Len(reading) THEN prefix ELSE reading[n + 1].prefix

\* A file that was imported with a name declares with its prefix, another has none of its own.
PrefixInv ==
    /\ \A f \in Source : prefixes[f] # NoPrefix => f \in parsing \cup imported
    /\ prefixes[Main] # NoPrefix => Main \in parsing
    /\ \A n \in Frames : IF reading[n].by \in Prefixed
                         THEN Current(n) = prefixes[Opened(n)] /\ Current(n) # NoPrefix
                         ELSE Opened(n) # Main => prefixes[Opened(n)] = NoPrefix
    /\ \A n \in Frames : reading[n].by \in {"plain", "root"} => Current(n) = NoPrefix

\* The prefixes of sources stay but for that of a file that is opened.
LEMMA PrefixesKept ==
    ASSUME Inv, [ReadNext]_readVars
    PROVE  /\ (~ \E i \in Item : Open(i)) => \A f \in Source : prefixes'[f] = prefixes[f]
           /\ \A i \in Item : Open(i) => \A f \in Source \ {i.file} : prefixes'[f] = prefixes[f]
           /\ \A f \in File : prefixes[f] # NoPrefix => prefixes'[f] = prefixes[f]
<1> USE DEF given, context, files, names, bodies
<1>0. FilesTypeOK /\ Header \cap Source = {} /\ Source \subseteq File
    BY ImportsAssumption, FileFacts DEF Inv, Marks, ImportsAssumption
<1>1. ASSUME NEW i \in Item, ImportAgain(i) \/ ImportHeader(i)
      PROVE  /\ \A f \in Source : prefixes'[f] = prefixes[f]
             /\ \A f \in File : prefixes[f] # NoPrefix => prefixes'[f] = prefixes[f]
    <2>1. i.op # "drop" /\ i.file \in File
        BY <1>1, ItemType DEF ImportAgain, ImportHeader, Importing
    <2>2. prefixes' = prefixes \/ (i.file \in Header /\ Allot(i.file))
        BY <1>1 DEF ImportAgain, ImportHeader, AliasHeader
    <2>3. CASE i.file \in Header /\ Allot(i.file)
        <3>1. /\ \A g \in File \ {i.file} : prefixes'[g] = prefixes[g]
              /\ prefixes[i.file] # NoPrefix => prefixes'[i.file] = prefixes[i.file]
            BY <1>0, <2>1, <2>3, Allots
        <3> QED BY <1>0, <2>3, <3>1
    <2> QED BY <2>2, <2>3
<1>2. ASSUME NEW i \in Item, Open(i)
      PROVE  /\ \A f \in File \ {i.file} : prefixes'[f] = prefixes[f]
             /\ prefixes[i.file] # NoPrefix => prefixes'[i.file] = prefixes[i.file]
    <2>1. i.file \in File /\ (prefixes' = prefixes \/ Allot(i.file)) BY <1>0, <1>2 DEF Open
    <2> QED BY <1>0, <2>1, Allots
<1>3. CASE (\E i \in Item : Circular(i)) \/ ImplDrop \/ DeclareTypes \/ EndOfFile \/ ParseBody
           \/ LoopOverArray \/ ReadExtra \/ Finish \/ UNCHANGED readVars
    <2>1. prefixes' = prefixes
        BY <1>3 DEF Circular, ImplDrop, DeclareTypes, EndOfFile, ParseBody, LoopOverArray, ReadExtra,
                    Finish, readVars
    <2> QED BY <1>0, <2>1
<1>4. ASSUME NEW i \in Item, Open(i), NEW j \in Item, Open(j) PROVE i.file = j.file
    BY <1>4 DEF Open, Importing, AtItem
<1>5. CASE \E i \in Item : Open(i)
    BY <1>0, <1>2, <1>5
<1>6. CASE ~ \E i \in Item : Open(i)
    BY <1>0, <1>1, <1>3, <1>6 DEF ReadNext, Import
<1> QED BY <1>5, <1>6

\* A step that opens no file: the prefixes stay, and so do the files and their prefixes.
LEMMA PrefixStays ==
    ASSUME Inv, AgainInv', PrefixInv, [ReadNext]_readVars, Stays, prefix' = prefix \/ reading = <<>>,
           parsing' = parsing, ~ \E i \in Item : Open(i)
    PROVE  PrefixInv'
<1>1. /\ Frames' = Frames /\ Len(reading') = Len(reading) /\ \A n \in Frames : Same(n)
      /\ Len(reading) \in Nat
    BY StaysFacts DEF Inv, Marks, FilesTypeOK
<1>2. \A f \in Source : prefixes'[f] = prefixes[f] BY PrefixesKept
<1>3. \A n \in Frames : Current(n)' = Current(n)
    <2> SUFFICES ASSUME NEW n \in Frames PROVE Current(n)' = Current(n) OBVIOUS
    <2>1. reading # <<>>
        <3>1. Len(reading) # 0 BY <1>1 DEF Frames
        <3> QED BY <3>1
    <2>2. n # Len(reading) => n + 1 \in Frames BY <1>1 DEF Frames
    <2> QED BY <1>1, <2>1, <2>2 DEF Current, Same
<1>4. \A n \in Frames : Opened(n) \in Source BY OnStack DEF Inv
<1>5. imported \subseteq imported' BY Growth DEF Inv
<1>6. \A n \in Frames : reading'[n].file = Opened(n) /\ reading'[n].by = reading[n].by
    BY <1>1 DEF Same, Opened
<1>7. \A n \in Frames : IF reading'[n].by \in Prefixed
                       THEN Current(n)' = prefixes'[reading'[n].file] /\ Current(n)' # NoPrefix
                       ELSE reading'[n].file # Main => prefixes'[reading'[n].file] = NoPrefix
    BY <1>2, <1>3, <1>4, <1>6 DEF PrefixInv
<1>8. Main \in Source BY FileFacts
<1>9. \A n \in Frames' : IF (reading[n].by \in Prefixed)'
                        THEN (Current(n) = prefixes[Opened(n)])' /\ (Current(n) # NoPrefix)'
                        ELSE (Opened(n) # Main => prefixes[Opened(n)] = NoPrefix)'
    BY <1>1, <1>7 DEF Opened, Prefixed
<1>10. \A n \in Frames' : (reading[n].by \in {"plain", "root"})' => (Current(n) = NoPrefix)'
    BY <1>1, <1>3, <1>6 DEF PrefixInv
<1> QED BY <1>2, <1>5, <1>8, <1>9, <1>10 DEF PrefixInv

\* A file is entered that has no prefix yet: it gets one, or has none.
LEMMA PrefixEnters ==
    ASSUME Inv, PrefixInv, [ReadNext]_readVars, reading # <<>>,
           NEW f \in Source, NEW by \in {"std", "plain", "as", "only", "all"},
           reading' = Append(Behind(reading), Opening(f, by)), f \notin parsing \cup imported,
           parsing' = parsing \cup {f}, \A g \in Source \ {f} : prefixes'[g] = prefixes[g],
           IF by \in Prefixed THEN prefix' = prefixes'[f] /\ prefix' # NoPrefix
           ELSE prefixes'[f] = prefixes[f],
           by = "plain" => prefix' = NoPrefix
    PROVE  PrefixInv'
<1> DEFINE L == Len(reading)
<1>1. /\ L \in Nat \ {0} /\ Len(reading') = L + 1 /\ \A n \in Frames : Same(n)
      /\ reading'[L + 1].file = f /\ reading'[L + 1].by = by /\ reading'[L + 1].prefix = prefix
    BY Enters DEF Inv, Marks
<1>2. Frames = 1..L /\ Frames' = 1..(L + 1) BY <1>1 DEF Frames
<1>3. imported \subseteq imported' BY Growth DEF Inv
<1>4. \A g \in Source : prefixes'[g] # NoPrefix => g \in parsing' \cup imported'
    BY <1>3 DEF PrefixInv
<1>5. prefixes'[Main] # NoPrefix => Main \in parsing'
    BY FileFacts DEF PrefixInv
<1>6. ASSUME NEW n \in Frames
      PROVE IF reading'[n].by \in Prefixed
            THEN Current(n)' = prefixes'[reading'[n].file] /\ Current(n)' # NoPrefix
            ELSE reading'[n].file # Main => prefixes'[reading'[n].file] = NoPrefix
    <2>1. n # L + 1 /\ (n # L => n + 1 \in Frames) BY <1>1, <1>2
    <2>2. Current(n)' = Current(n) BY <1>1, <2>1 DEF Current, Same
    <2>3. reading'[n].by = reading[n].by /\ reading'[n].file = Opened(n) /\ Opened(n) \in Source
        BY <1>1, OnStack DEF Same, Opened, Inv
    <2>4. CASE Opened(n) # f BY <2>2, <2>3, <2>4 DEF PrefixInv
    <2>5. CASE Opened(n) = f
        <3>1. n \notin Inner BY <2>5 DEF Inv, Marks, MarkInv
        <3>2. reading[n].by = "root" BY <3>1 DEF Inner
        <3>3. f = Main
            <4>1. f = IF turn = "main" THEN Main ELSE extra
                BY <2>5, <3>2 DEF Inv, Marks, RootInv
            <4> QED BY <4>1 DEF Inv, Marks, CountInv, FilesTypeOK
        <3> QED BY <2>3, <2>5, <3>2, <3>3 DEF Prefixed
    <2> QED BY <2>4, <2>5
<1>7. ASSUME NEW n, n = L + 1
      PROVE IF reading'[n].by \in Prefixed
            THEN Current(n)' = prefixes'[reading'[n].file] /\ Current(n)' # NoPrefix
            ELSE reading'[n].file # Main => prefixes'[reading'[n].file] = NoPrefix
    BY <1>1, <1>7 DEF Current, PrefixInv
<1>8. \A n \in Frames' : n \in Frames \/ n = L + 1 BY <1>1, <1>2
<1>9. ASSUME NEW n \in Frames, reading'[n].by \in {"plain", "root"} PROVE Current(n)' = NoPrefix
    <2>1. n # L + 1 /\ (n # L => n + 1 \in Frames) BY <1>1, <1>2
    <2>2. Current(n)' = Current(n) BY <1>1, <2>1 DEF Current, Same
    <2> QED BY <1>1, <1>9, <2>2 DEF PrefixInv, Same
<1>10. ASSUME NEW n, n = L + 1, reading'[n].by \in {"plain", "root"} PROVE Current(n)' = NoPrefix
    BY <1>1, <1>10 DEF Current
<1> HIDE DEF L
<1>11. \A n \in Frames' : (reading[n].by \in {"plain", "root"})' => (Current(n) = NoPrefix)'
    BY <1>8, <1>9, <1>10
<1> QED BY <1>4, <1>5, <1>6, <1>7, <1>8, <1>11 DEF PrefixInv, Opened, Prefixed

\* A file is entered at the bottom, where it has no prefix.
LEMMA PrefixStarts ==
    ASSUME Inv, PrefixInv, [ReadNext]_readVars, NEW f \in Source \ {Main}, f \notin parsing \cup imported,
           Frames' = {1}, reading'[1].file = f, reading'[1].by \notin Prefixed,
           prefixes' = prefixes, parsing \subseteq parsing', Main \notin parsing,
           Len(reading') = 1, reading'[1].by = "root" => prefix' = NoPrefix, reading'[1].by # "plain"
    PROVE  PrefixInv'
<1>1. imported \cup parsing \subseteq imported' \cup parsing' BY Growth DEF Inv
<1>2. prefixes'[f] = NoPrefix BY DEF PrefixInv
<1>3. \A n \in Frames' : (reading[n].by \in {"plain", "root"})' => (Current(n) = NoPrefix)'
    BY DEF Current
<1> QED BY <1>1, <1>2, <1>3, FileFacts DEF PrefixInv, Opened, Prefixed

\* The file on top ends: the prefix of the file below is back.
LEMMA PrefixLeaves == ASSUME Inv, AgainInv', PrefixInv, [ReadNext]_readVars, EndOfFile PROVE PrefixInv'
<1> DEFINE L == Len(reading)
<1>1. /\ L \in Nat \ {0} /\ Len(reading') = L - 1 /\ L \in Frames /\ Frames' = Frames \ {L}
      /\ \A n \in Frames' : reading'[n] = reading[n] /\ n < L
      /\ Here = reading[L]
    BY EndFacts DEF Inv, Marks
<1>2. Frames' \subseteq Frames /\ Frames = 1..L BY <1>1 DEF Frames
<1>3. prefixes' = prefixes /\ prefix' = reading[L].prefix BY <1>1 DEF EndOfFile
<1>4. imported \cup parsing \subseteq imported' \cup parsing' BY Growth DEF Inv
<1>5. Main \in parsing => Main \in parsing'
    <2>1. Here.at = Len(text[Here.file]) + 2 /\ Here.file \in Source /\ phase # "error"
        BY <1>1, OnStack DEF EndOfFile, Inv, Opened
    <2>2. Len(text[Here.file]) \in Nat BY <2>1 DEF Inv, Marks, FilesTypeOK
    <2> QED BY <2>1, <2>2, ComesRound DEF Inv
<1>6. \A n \in Frames' : Current(n)' = Current(n)
    <2> SUFFICES ASSUME NEW n \in Frames' PROVE Current(n)' = Current(n) OBVIOUS
    <2>1. n < L /\ n # L /\ n \in Frames BY <1>1, <1>2
    <2>2. CASE n = L - 1
        <3>1. n + 1 = L BY <1>1, <1>2, <2>1, <2>2
        <3> QED BY <1>1, <1>3, <2>1, <2>2, <3>1 DEF Current
    <2>3. CASE n # L - 1
        <3>1. n + 1 \in Frames' BY <1>1, <1>2, <2>1, <2>3
        <3> QED BY <1>1, <2>1, <2>3, <3>1 DEF Current
    <2> QED BY <2>2, <2>3
<1>7. \A n \in Frames' : reading'[n].file = Opened(n) /\ reading'[n].by = reading[n].by
    BY <1>1 DEF Opened
<1> HIDE DEF L
<1>8. \A n \in Frames' : IF reading'[n].by \in Prefixed
                        THEN Current(n)' = prefixes'[reading'[n].file] /\ Current(n)' # NoPrefix
                        ELSE reading'[n].file # Main => prefixes'[reading'[n].file] = NoPrefix
    BY <1>2, <1>3, <1>6, <1>7 DEF PrefixInv
<1>9. \A f \in Source : prefixes'[f] # NoPrefix => f \in parsing' \cup imported'
    BY <1>3, <1>4 DEF PrefixInv
<1>10. prefixes'[Main] # NoPrefix => Main \in parsing' BY <1>3, <1>5 DEF PrefixInv
<1>11. \A n \in Frames' : (reading[n].by \in {"plain", "root"})' => (Current(n) = NoPrefix)'
    BY <1>2, <1>6, <1>7 DEF PrefixInv
<1> QED BY <1>8, <1>9, <1>10, <1>11 DEF PrefixInv, Opened, Prefixed

\* Every file keeps declaring with its own prefix.
LEMMA PrefixStep == Inv /\ PrefixInv /\ [ReadNext]_readVars => PrefixInv'
<1> SUFFICES ASSUME Inv, PrefixInv, [ReadNext]_readVars PROVE PrefixInv' OBVIOUS
<1> USE DEF given, context, files, names, bodies
<1>0. FilesTypeOK /\ RootInv /\ AgainInv /\ AgainInv' BY InvStep DEF Inv, Marks
\* No action but Open opens a file that is named.
<1>1. ASSUME NEW i \in Item, Open(i) PROVE ~ImportAgain(i) /\ ~ImportHeader(i) /\ phase = "parse"
    BY <1>1, ImportsAssumption
       DEF Open, ImportAgain, ImportHeader, Importing, AtItem, ImportsAssumption
<1>2. ASSUME NEW i \in Item, ImportAgain(i) \/ ImportHeader(i) PROVE PrefixInv'
    <2>1. reading # <<>> /\ Len(reading') = Len(reading)
        BY <1>0, <1>2, AtFacts, Advances DEF ImportAgain, ImportHeader, Importing, Advance
    <2>2. Stays /\ prefix' = prefix /\ parsing' = parsing
        BY <1>2, <2>1 DEF ImportAgain, ImportHeader, Advance, Stays
    <2>3. ~ \E j \in Item : Open(j)
        <3> SUFFICES ASSUME NEW j \in Item, Open(j) PROVE FALSE OBVIOUS
        <3>1. j = i BY <1>2 DEF Open, ImportAgain, ImportHeader, Importing, AtItem
        <3> QED BY <1>1, <1>2, <3>1
    <2> QED BY <1>0, <2>2, <2>3, PrefixStays
<1>3. ASSUME NEW i \in Item, Open(i) PROVE PrefixInv'
    <2>1. /\ reading # <<>> /\ i.op \in {"plain", "as", "only", "all"} /\ i.file \in Source
          /\ Source \subseteq File
        BY <1>0, <1>3, AtFacts, ItemType, FileFacts DEF Open, Importing
    <2>2. /\ reading' = Append(Behind(reading), Opening(i.file, i.op))
          /\ i.file \notin parsing \cup imported /\ parsing' = parsing \cup {i.file}
        BY <1>3 DEF Open
    <2>3. \A g \in Source \ {i.file} : prefixes'[g] = prefixes[g] BY <1>3, PrefixesKept
    <2>4. IF i.op \in Prefixed THEN prefix' = prefixes'[i.file] /\ prefix' # NoPrefix
          ELSE prefixes'[i.file] = prefixes[i.file]
        BY <1>0, <1>3, <2>1, Allots, FileFacts DEF Open, Prefixed
    <2>5. i.op = "plain" => prefix' = NoPrefix BY <1>3 DEF Open
    <2> QED BY <2>1, <2>2, <2>3, <2>4, <2>5, PrefixEnters
<1>4. ASSUME ~ \E i \in Item : Open(i), UNCHANGED <<parsing, reading>>, prefix' = prefix \/ reading = <<>>
      PROVE  PrefixInv'
    BY <1>0, <1>4, PrefixStays DEF Stays
<1>5. ASSUME NEW i \in Item, Circular(i) PROVE PrefixInv'
    <2>1. \A j \in Item : Open(j) => j = i BY <1>5 DEF Open, Circular, Importing, AtItem
    <2>2. ~Open(i) BY <1>5 DEF Open, Circular
    <2> QED BY <1>4, <1>5, <2>1, <2>2 DEF Circular
<1>6. CASE ImplDrop
    <2>1. reading # <<>> /\ prefix' = prefix /\ prefixes' = prefixes /\ text[Here.file][Here.at].op = "drop"
        BY <1>0, <1>6 DEF ImplDrop, AtItem, RootInv
    <2>2. ~ \E i \in Item : Open(i) BY <2>1 DEF Open, Importing, AtItem
    <2>3. CASE Std \in imported \cup parsing
        BY <1>0, <1>6, <2>1, <2>2, <2>3, PrefixStays DEF ImplDrop, LoadStd, Stays
    <2>4. CASE Std \notin imported \cup parsing
        <3>1. reading' = Append(Behind(reading), Opening(Std, "std")) /\ parsing' = parsing \cup {Std}
            BY <1>6, <2>4 DEF ImplDrop, LoadStd
        <3>2. "std" \notin Prefixed BY DEF Prefixed
        <3> QED BY <2>1, <2>4, <3>1, <3>2, PrefixEnters, FileFacts
    <2> QED BY <2>3, <2>4
<1>7. ASSUME phase = "bodies" \/ Here.at > Len(text[Here.file]) PROVE ~ \E i \in Item : Open(i)
    <2> SUFFICES ASSUME NEW i \in Item, Open(i) PROVE FALSE OBVIOUS
    <2>1. phase = "parse" /\ Here.at \in 1..Len(text[Here.file]) /\ Len(reading) \in Frames
        BY <1>0, AtFacts DEF Open, Importing
    <2>2. Here.file \in Source BY <2>1, OnStack DEF Inv, Here, Opened
    <2>3. Len(text[Here.file]) \in Nat BY <1>0, <2>2 DEF FilesTypeOK
    <2> QED BY <1>7, <2>1, <2>3
<1>8. CASE DeclareTypes
    <2>1. reading # <<>> /\ Here.at = Len(text[Here.file]) + 1 BY <1>8 DEF DeclareTypes
    <2>2. Here \in OpenFile BY <1>0, <2>1 DEF Here, FilesTypeOK
    <2>3. Len(text[Here.file]) \in Nat BY <1>0, <2>2 DEF OpenFile, FilesTypeOK
    <2>4. Stays /\ prefix' = prefix /\ parsing' = parsing BY <1>8 DEF DeclareTypes, Advance, Stays
    <2> QED BY <1>0, <1>7, <2>1, <2>3, <2>4, PrefixStays
<1>9. CASE EndOfFile
    BY <1>0, <1>9, PrefixLeaves
<1>10. CASE LoopOverArray
    <2>1. reading = <<>> /\ phase = "bodies" /\ prefixes' = prefixes BY <1>10 DEF LoopOverArray
    <2>2. CASE Std \in imported \cup parsing
        BY <1>4, <1>7, <1>10, <2>1, <2>2 DEF LoopOverArray, LoadStd
    <2>3. CASE Std \notin imported \cup parsing
        <3>1. reading' = Append(<<>>, Opening(Std, "std")) /\ parsing' = parsing \cup {Std}
            BY <1>10, <2>3 DEF LoopOverArray, LoadStd
        <3>2. Frames' = {1} /\ reading'[1].file = Std /\ reading'[1].by = "std" /\ Len(reading') = 1
            BY <1>0, <2>1, <3>1, BodyEnters
        <3>3. Main \notin parsing BY <1>0, <2>1 DEF AgainInv
        <3> QED BY <2>1, <2>3, <3>1, <3>2, <3>3, PrefixStarts, FileFacts DEF Prefixed
    <2> QED BY <2>2, <2>3
<1>11. CASE ReadExtra
    <2>1. /\ reading = <<>> /\ phase = "bodies" /\ prefixes' = prefixes /\ parsing' = parsing
          /\ extra \in Source \ {Main}
        BY <1>0, <1>11, FileFacts DEF ReadExtra, FilesTypeOK
    <2>2. CASE extra \in imported
        BY <1>4, <1>7, <1>11, <2>1, <2>2 DEF ReadExtra
    <2>3. CASE extra \notin imported
        <3>1. /\ Frames' = {1} /\ reading'[1].file = extra /\ reading'[1].by = "root"
              /\ Len(reading') = 1
            BY <1>0, <1>11, <2>3, ExtraEnters
        <3>2. parsing = {} /\ prefix' = NoPrefix BY <1>11, <2>1, NoneMarked DEF Inv, Marks, ReadExtra
        <3> QED BY <2>1, <2>3, <3>1, <3>2, PrefixStarts DEF Prefixed
    <2> QED BY <2>2, <2>3
<1>12. CASE ParseBody \/ Finish
    BY <1>4, <1>7, <1>12 DEF ParseBody, Finish
<1>13. CASE UNCHANGED readVars
    BY <1>13 DEF readVars, PrefixInv, Frames, Current, Opened
<1> QED BY <1>2, <1>3, <1>5, <1>6, <1>8, <1>9, <1>10, <1>11, <1>12, <1>13 DEF ReadNext, Import

-----------------------------------------------------------------------------
(* The types that are declared, and the bodies that wait *)

\* A type carries the prefix of its file, if that has one; a file declares at its end, once.
TypesInv ==
    /\ \A t \in types : /\ t.file \in Source /\ reads[t.file] > 0 /\ t.name = struct[t.file]
                        /\ prefixes[t.file] # NoPrefix => t.prefix = prefixes[t.file]
                        /\ \A n \in Frames : Opened(n) = t.file
                                                => reading[n].at = Len(text[t.file]) + 2
    /\ \A t, u \in types : t.file = u.file => t = u

\* A body has the prefix of the type that was declared with it.
Declared(e) == \E t \in types : t.file = e.file /\ t.prefix = e.prefix
BodiesInv == /\ \A k \in 1..Len(pending) : Declared(pending[k])
             /\ body.file \in Source => Declared(body)

\* A name that is selected is that of a type, or of an import.
SelectInv ==
    \A s \in DOMAIN selective :
        \/ \E t \in types : t.prefix = selective[s][1] /\ t.name = s /\ s = selective[s][2]
        \/ \E i \in Written : /\ i.op = "only" /\ i.local = s /\ prefixes[i.file] # NoPrefix
                              /\ selective[s] = <<prefixes[i.file], i.symbol>>

\* No two files on the stack are the same while the input file has no mark.
LEMMA DistinctFrames ==
    ASSUME Inv, Main \notin parsing, NEW m \in Frames, NEW n \in Frames, Opened(m) = Opened(n)
    PROVE  m = n
<1>1. CASE m \in Inner /\ n \in Inner BY <1>1 DEF Inv, Marks, MarkInv
<1>2. CASE m \notin Inner /\ n \notin Inner BY <1>2 DEF Inv, Marks, RootInv, Inner
<1>3. \A k \in Frames \ Inner : Opened(k) \notin parsing
    BY DEF Inv, Marks, RootInv, CountInv, MarkInv, FilesTypeOK, Inner
<1> QED BY <1>1, <1>2, <1>3 DEF Inv, Marks, MarkInv

\* A file that is opened has declared nothing.
LEMMA NothingDeclared ==
    ASSUME Inv, TypesInv, NEW f \in Source, f \notin parsing \cup imported,
           f = Main => phase = "parse" /\ Here.at <= Len(text[Here.file]), NEW t \in types
    PROVE  t.file # f
<1> SUFFICES ASSUME t.file = f PROVE FALSE OBVIOUS
<1>1. reads[f] > 0 BY DEF TypesInv
<1>2. f = Main BY <1>1 DEF Inv, Marks, CountInv
<1>3. turn = "main" BY <1>2 DEF Inv, Marks, CountInv, FilesTypeOK
<1>4. reading # <<>> /\ reading \in Seq(OpenFile) BY <1>2 DEF Inv, Marks, RootInv, FilesTypeOK
<1>5. Len(reading) \in Nat \ {0} BY <1>4
<1>6. 1 \in Frames BY <1>5 DEF Frames
<1>7. Opened(1) = Main BY <1>2, <1>3, <1>6 DEF Inv, Marks, RootInv
<1>8. reading[1].at = Len(text[Main]) + 2 /\ Len(text[Main]) \in Nat
    BY <1>2, <1>6, <1>7, FileFacts DEF TypesInv, Inv, Marks, FilesTypeOK
<1>9. CASE Len(reading) = 1
    BY <1>2, <1>7, <1>8, <1>9 DEF Here, Opened
<1>10. CASE Len(reading) # 1
    <2>1. Waits(1) BY <1>6, <1>10 DEF Inv, PathInv
    <2> QED BY <1>7, <1>8, <2>1 DEF Waits
<1> QED BY <1>9, <1>10

\* The types of before are still right after a step, if their files stay where they are.
LEMMA TypesKept ==
    ASSUME Inv, TypesInv, [ReadNext]_readVars, \A t \in types : prefixes'[t.file] = prefixes[t.file],
           \A t \in types : \A n \in Frames' :
               reading'[n].file = t.file
                   => n \in Frames /\ reading[n].file = t.file /\ reading'[n].at = reading[n].at
    PROVE  \A t \in types :
               /\ t.file \in Source /\ reads'[t.file] > 0 /\ t.name = struct'[t.file]
               /\ prefixes'[t.file] # NoPrefix => t.prefix = prefixes'[t.file]
               /\ \A n \in Frames' : reading'[n].file = t.file
                                         => reading'[n].at = Len(text'[t.file]) + 2
<1> SUFFICES ASSUME NEW t \in types
             PROVE  /\ t.file \in Source /\ reads'[t.file] > 0 /\ t.name = struct'[t.file]
                    /\ prefixes'[t.file] # NoPrefix => t.prefix = prefixes'[t.file]
                    /\ \A n \in Frames' : reading'[n].file = t.file
                                              => reading'[n].at = Len(text'[t.file]) + 2
    OBVIOUS
<1>1. t.file \in Source /\ reads[t.file] > 0 BY DEF TypesInv
<1>2. text'[t.file] = text[t.file] BY <1>1, Growth DEF Inv
<1>3. struct' = struct /\ reads'[t.file] >= reads[t.file]
    BY <1>1, ReadsGrow DEF Inv
<1>4. reads \in [Source -> Nat] BY DEF Inv, Marks, FilesTypeOK
<1>5. reads' \in [Source -> Nat] BY InvStep DEF Inv, Marks, FilesTypeOK
<1>6. reads'[t.file] > 0 BY <1>1, <1>3, <1>4, <1>5
<1> QED BY <1>1, <1>2, <1>3, <1>6 DEF TypesInv, Opened

\* A step that declares nothing.
LEMMA TypesStay ==
    ASSUME Inv, TypesInv, [ReadNext]_readVars, types' = types,
           \A t \in types : prefixes'[t.file] = prefixes[t.file],
           \A t \in types : \A n \in Frames' :
               reading'[n].file = t.file
                   => n \in Frames /\ reading[n].file = t.file /\ reading'[n].at = reading[n].at
    PROVE  TypesInv'
<1>1. \A t \in types :
          /\ t.file \in Source /\ reads'[t.file] > 0 /\ t.name = struct'[t.file]
          /\ prefixes'[t.file] # NoPrefix => t.prefix = prefixes'[t.file]
          /\ \A n \in Frames' : reading'[n].file = t.file
                                    => reading'[n].at = Len(text'[t.file]) + 2
    BY TypesKept
<1> QED BY <1>1 DEF TypesInv, Opened

\* The files stay where they are, but for the top, which has not declared yet.
LEMMA OthersStay ==
    ASSUME Inv, TypesInv, reading # <<>>, Here.at <= Len(text[Here.file]) + 1,
           \A n \in Frames : Same(n), \A n \in 1..(Len(reading) - 1) : reading'[n] = reading[n],
           NEW t \in types, NEW n \in Frames, reading'[n].file = t.file
    PROVE  reading[n].file = t.file /\ reading'[n].at = reading[n].at
<1>1. reading \in Seq(OpenFile) /\ Len(reading) \in Nat BY DEF Inv, Marks, FilesTypeOK
<1>2. reading[n].file = t.file BY DEF Same
<1>3. CASE n = Len(reading)
    <2>1. reading[n].at = Len(text[t.file]) + 2 BY <1>2 DEF TypesInv, Opened
    <2>2. Len(text[t.file]) \in Nat BY DEF TypesInv, Inv, Marks, FilesTypeOK
    <2> QED BY <1>2, <1>3, <2>1, <2>2 DEF Here
<1>4. CASE n # Len(reading)
    <2>1. n \in 1..(Len(reading) - 1) BY <1>1, <1>4 DEF Frames
    <2> QED BY <1>2, <2>1
<1> QED BY <1>3, <1>4

\* Types stay with the prefixes of their files.
LEMMA TypesStep == Inv /\ TypesInv /\ PrefixInv /\ [ReadNext]_readVars => TypesInv'
<1> SUFFICES ASSUME Inv, TypesInv, PrefixInv, [ReadNext]_readVars PROVE TypesInv' OBVIOUS
<1> USE DEF given, context, files, names, bodies
<1>0. FilesTypeOK /\ RootInv /\ \A t \in types : t.file \in Source BY DEF Inv, Marks, TypesInv
<1>1. ASSUME types' = types, reading' = reading, ~ \E i \in Item : Open(i) PROVE TypesInv'
    <2>1. \A t \in types : prefixes'[t.file] = prefixes[t.file] BY <1>0, <1>1, PrefixesKept
    <2>2. Frames' = Frames BY <1>1 DEF Frames
    <2> QED BY <1>1, <2>1, <2>2, TypesStay
<1>2. ASSUME types' = types, reading # <<>>, reading' = Behind(reading), ~ \E i \in Item : Open(i),
             Here.at \in 1..Len(text[Here.file])
      PROVE  TypesInv'
    <2>1. \A t \in types : prefixes'[t.file] = prefixes[t.file] BY <1>0, <1>2, PrefixesKept
    <2>2. /\ Len(reading') = Len(reading) /\ \A n \in Frames : Same(n)
          /\ \A n \in 1..(Len(reading) - 1) : reading'[n] = reading[n]
        BY <1>0, <1>2, Advances
    <2>3. Frames' = Frames BY <2>2 DEF Frames
    <2>4. Here.at <= Len(text[Here.file]) + 1 BY <1>2
    <2>5. \A t \in types : \A n \in Frames : reading'[n].file = t.file
              => reading[n].file = t.file /\ reading'[n].at = reading[n].at
        BY <1>2, <2>2, <2>4, OthersStay
    <2> QED BY <1>2, <2>1, <2>3, <2>5, TypesStay
<1>3. ASSUME types' = types, reading # <<>>, NEW f \in Source, f \notin parsing \cup imported,
             NEW by \in {"std", "plain", "as", "only", "all"},
             reading' = Append(Behind(reading), Opening(f, by)), phase = "parse",
             Here.at \in 1..Len(text[Here.file]), \A g \in Source \ {f} : prefixes'[g] = prefixes[g]
      PROVE  TypesInv'
    <2>1. Here.at <= Len(text[Here.file]) /\ Here.at <= Len(text[Here.file]) + 1 BY <1>3
    <2>2. \A t \in types : t.file # f BY <1>3, <2>1, NothingDeclared
    <2>3. \A t \in types : prefixes'[t.file] = prefixes[t.file] BY <1>0, <1>3, <2>2
    <2>4. /\ Len(reading') = Len(reading) + 1 /\ \A n \in Frames : Same(n)
          /\ \A n \in 1..(Len(reading) - 1) : reading'[n] = reading[n]
          /\ reading'[Len(reading')].file = f
        BY <1>0, <1>3, Enters
    <2>5. Frames' = Frames \cup {Len(reading')} BY <1>0, <1>3, EnteredFacts DEF Entered
    <2>6. \A t \in types : \A n \in Frames : reading'[n].file = t.file
              => reading[n].file = t.file /\ reading'[n].at = reading[n].at
        BY <1>3, <2>1, <2>4, OthersStay
    <2>7. \A t \in types : \A n \in Frames' : reading'[n].file = t.file
              => n \in Frames /\ reading[n].file = t.file /\ reading'[n].at = reading[n].at
        BY <2>2, <2>4, <2>5, <2>6
    <2> QED BY <1>3, <2>3, <2>7, TypesStay
<1>4. ASSUME types' = types, NEW f \in Source \ {Main}, f \notin parsing \cup imported,
             Frames' = {1}, reading'[1].file = f, prefixes' = prefixes
      PROVE  TypesInv'
    <2>1. \A t \in types : t.file # f BY <1>4, NothingDeclared
    <2> QED BY <1>4, <2>1, TypesStay
<1>5. ASSUME NEW i \in Item, Importing(i)
      PROVE  /\ reading # <<>> /\ phase = "parse" /\ Here.at \in 1..Len(text[Here.file])
             /\ \A j \in Item : Open(j) => j = i
    BY <1>0, <1>5, AtFacts DEF Importing, Open, AtItem
<1>6. ASSUME NEW i \in Item, ImportAgain(i) \/ ImportHeader(i) PROVE TypesInv'
    <2>1. ~Open(i) /\ Importing(i) /\ types' = types /\ reading' = Behind(reading)
        BY <1>6, ImportsAssumption DEF ImportAgain, ImportHeader, Open, Advance, ImportsAssumption
    <2> QED BY <1>2, <1>5, <2>1
<1>7. ASSUME NEW i \in Item, Circular(i) PROVE TypesInv'
    BY <1>1, <1>5, <1>7 DEF Circular, Open
<1>8. ASSUME NEW i \in Item, Open(i) PROVE TypesInv'
    <2>1. i.op \in {"plain", "as", "only", "all"} /\ i.file \in Source /\ Importing(i)
        BY <1>8, ItemType DEF Open, Importing
    <2>2. /\ reading' = Append(Behind(reading), Opening(i.file, i.op)) /\ types' = types
          /\ i.file \notin parsing \cup imported
        BY <1>8 DEF Open
    <2>3. \A g \in Source \ {i.file} : prefixes'[g] = prefixes[g] BY <1>8, PrefixesKept
    <2> QED BY <1>3, <1>5, <2>1, <2>2, <2>3
<1>9. CASE ImplDrop
    <2>1. /\ reading # <<>> /\ phase = "parse" /\ text[Here.file][Here.at].op = "drop"
          /\ Here.at <= Len(text[Here.file]) /\ types' = types /\ prefixes' = prefixes
        BY <1>0, <1>9 DEF ImplDrop, AtItem, RootInv
    <2>2. Here.at \in 1..Len(text[Here.file])
        <3>1. Len(reading) \in Frames
            <4>1. reading \in Seq(OpenFile) BY <1>0 DEF FilesTypeOK
            <4>2. Len(reading) \in Nat \ {0} BY <2>1, <4>1
            <4> QED BY <4>2 DEF Frames
        <3>2. Here \in OpenFile /\ Here.file \in Source BY <3>1, OnStack DEF Inv, Here, Opened
        <3>3. Here.at \in Nat \ {0} /\ Len(text[Here.file]) \in Nat BY <1>0, <3>2 DEF OpenFile, FilesTypeOK
        <3> QED BY <2>1, <3>3
    <2>3. ~ \E i \in Item : Open(i) BY <2>1 DEF Open, Importing, AtItem
    <2>4. CASE Std \in imported \cup parsing
        BY <1>2, <1>9, <2>1, <2>2, <2>3, <2>4 DEF ImplDrop, LoadStd
    <2>5. CASE Std \notin imported \cup parsing
        <3>1. reading' = Append(Behind(reading), Opening(Std, "std")) BY <1>9, <2>5 DEF ImplDrop, LoadStd
        <3> QED BY <1>3, <2>1, <2>2, <2>5, <3>1, FileFacts
    <2> QED BY <2>4, <2>5
<1>10. ASSUME Here.at > Len(text[Here.file]), reading # <<>>
       PROVE  ~ \E i \in Item : Open(i)
    <2> SUFFICES ASSUME NEW i \in Item, Open(i) PROVE FALSE OBVIOUS
    <2>1. Importing(i) BY DEF Open
    <2>2. Here.at \in 1..Len(text[Here.file]) BY <1>5, <2>1
    <2>3. Len(text[Here.file]) \in Nat
        <3>1. reading \in Seq(OpenFile) BY <1>0 DEF FilesTypeOK
        <3>2. Here \in OpenFile BY <1>10, <3>1 DEF Here
        <3> QED BY <1>0, <3>2 DEF OpenFile, FilesTypeOK
    <2> QED BY <1>10, <2>2, <2>3
<1>11. CASE DeclareTypes
    <2> DEFINE L == Len(reading)
    <2>1. /\ L \in Nat \ {0} /\ Len(reading') = L /\ \A n \in Frames : Same(n)
          /\ \A n \in 1..(L - 1) : reading'[n] = reading[n]
          /\ reading'[L].at = reading[L].at + 1
        BY <1>0, <1>11, Advances DEF DeclareTypes, Advance
    <2>2. Frames = 1..L /\ Frames' = Frames /\ L \in Frames /\ Here = reading[L] BY <2>1 DEF Frames, Here
    <2>3. /\ Here.file \in Source /\ reads[Here.file] > 0 /\ reading # <<>>
          /\ Here.at = Len(text[Here.file]) + 1 /\ Len(text[Here.file]) \in Nat
        BY <1>0, <1>11, <2>2, OnStack DEF Inv, Opened, DeclareTypes, FilesTypeOK
    <2>4. Main \notin parsing
        <3> SUFFICES ASSUME Main \in parsing PROVE FALSE OBVIOUS
        <3>1. phase # "error" BY <1>11 DEF DeclareTypes
        <3>2. Here.at \in 1..Len(text[Here.file]) BY <3>1, ComesRound DEF Inv
        <3> QED BY <2>3, <3>2
    <2> DEFINE d == [prefix |-> prefix, name |-> struct[Here.file], file |-> Here.file]
    <2>5. types' = types \cup {d} BY <1>11 DEF DeclareTypes
    <2>6. /\ UNCHANGED <<prefixes, text, reads, struct>>
          /\ \A t \in types : prefixes'[t.file] = prefixes[t.file]
        BY <1>11 DEF DeclareTypes
    <2>7. \A t \in types : \A n \in Frames : reading'[n].file = t.file
              => reading[n].file = t.file /\ reading'[n].at = reading[n].at
        BY <2>1, <2>3, OthersStay
    <2>8. \A t \in types :
              /\ t.file \in Source /\ reads'[t.file] > 0 /\ t.name = struct'[t.file]
              /\ prefixes'[t.file] # NoPrefix => t.prefix = prefixes'[t.file]
              /\ \A n \in Frames' : reading'[n].file = t.file
                                        => reading'[n].at = Len(text'[t.file]) + 2
        BY <2>2, <2>6, <2>7, TypesKept
    <2>9. d.file = Here.file /\ d.name = struct[Here.file] /\ d.prefix = prefix OBVIOUS
    <2>10. prefixes[Here.file] # NoPrefix => prefix = prefixes[Here.file]
        BY <2>2, <2>4 DEF PrefixInv, Current, Opened
    <2>11. \A n \in Frames : reading'[n].file = Here.file => reading'[n].at = Len(text[Here.file]) + 2
        <3> SUFFICES ASSUME NEW n \in Frames, reading'[n].file = Here.file
                     PROVE  reading'[n].at = Len(text[Here.file]) + 2
            OBVIOUS
        <3>1. Opened(n) = Opened(L) BY <2>1, <2>2 DEF Same, Opened
        <3>2. n = L BY <2>2, <2>4, <3>1, DistinctFrames
        <3> QED BY <2>1, <2>2, <2>3, <3>2
    <2>12. \A t \in types : t.file # Here.file
        <3> SUFFICES ASSUME NEW t \in types, t.file = Here.file PROVE FALSE OBVIOUS
        <3>1. reading[L].at = Len(text[t.file]) + 2 BY <2>2 DEF TypesInv, Opened
        <3> QED BY <2>2, <2>3, <3>1
    <2> HIDE DEF d
    <2>13. \A t \in types' :
              /\ t.file \in Source /\ reads'[t.file] > 0 /\ t.name = struct'[t.file]
              /\ prefixes'[t.file] # NoPrefix => t.prefix = prefixes'[t.file]
              /\ \A n \in Frames' : reading'[n].file = t.file
                                        => reading'[n].at = Len(text'[t.file]) + 2
        <3>1. /\ d.file \in Source /\ reads'[d.file] > 0 /\ d.name = struct'[d.file]
              /\ prefixes'[d.file] # NoPrefix => d.prefix = prefixes'[d.file]
            BY <2>3, <2>6, <2>9, <2>10
        <3>2. \A n \in Frames' : reading'[n].file = d.file => reading'[n].at = Len(text'[d.file]) + 2
            BY <2>2, <2>6, <2>9, <2>11
        <3> QED BY <2>5, <2>8, <3>1, <3>2
    <2>14. \A t, u \in types' : t.file = u.file => t = u BY <2>5, <2>9, <2>12 DEF TypesInv
    <2> QED BY <2>13, <2>14 DEF TypesInv, Opened
<1>12. CASE EndOfFile
    <2>1. /\ reading # <<>> /\ Frames' \subseteq Frames /\ \A n \in Frames' : reading'[n] = reading[n]
          /\ Len(reading) \in Frames /\ Here = reading[Len(reading)]
        BY <1>0, <1>12, EndFacts
    <2>2. types' = types /\ prefixes' = prefixes BY <1>12 DEF EndOfFile
    <2> QED BY <2>1, <2>2, TypesStay
<1>13. ASSUME phase # "parse" PROVE ~ \E i \in Item : Open(i)
    BY <1>13 DEF Open, Importing, AtItem
<1>14. CASE LoopOverArray
    <2>1. reading = <<>> /\ phase = "bodies" /\ types' = types /\ prefixes' = prefixes
        BY <1>14 DEF LoopOverArray
    <2>2. CASE Std \in imported \cup parsing
        BY <1>1, <1>13, <1>14, <2>1, <2>2 DEF LoopOverArray, LoadStd
    <2>3. CASE Std \notin imported \cup parsing
        <3>1. reading' = Append(<<>>, Opening(Std, "std")) BY <1>14, <2>3 DEF LoopOverArray, LoadStd
        <3>2. Frames' = {1} /\ reading'[1].file = Std BY <1>0, <2>1, <3>1, BodyEnters
        <3> QED BY <1>4, <2>1, <2>3, <3>2, FileFacts
    <2> QED BY <2>2, <2>3
<1>15. CASE ReadExtra
    <2>1. /\ reading = <<>> /\ phase = "bodies" /\ types' = types /\ prefixes' = prefixes
          /\ extra \in Source \ {Main}
        BY <1>0, <1>15, FileFacts DEF ReadExtra, FilesTypeOK
    <2>2. CASE extra \in imported
        BY <1>1, <1>13, <1>15, <2>1, <2>2 DEF ReadExtra
    <2>3. CASE extra \notin imported
        <3>1. Frames' = {1} /\ reading'[1].file = extra BY <1>0, <1>15, <2>3, ExtraEnters
        <3>2. parsing = {} BY <2>1, NoneMarked DEF Inv, Marks
        <3> QED BY <1>4, <2>1, <2>3, <3>1, <3>2
    <2> QED BY <2>2, <2>3
<1>16. CASE ParseBody \/ Finish
    BY <1>1, <1>13, <1>16 DEF ParseBody, Finish
<1>17. CASE UNCHANGED readVars
    BY <1>17 DEF readVars, TypesInv, Frames, Opened
<1> QED BY <1>6, <1>7, <1>8, <1>9, <1>11, <1>12, <1>14, <1>15, <1>16, <1>17 DEF ReadNext, Import

\* What is declared stays declared.
LEMMA DeclaredKept == ASSUME types \subseteq types', NEW e, Declared(e) PROVE Declared(e)'
BY DEF Declared

\* Bodies wait behind their types.
LEMMA BodiesStep == Inv /\ BodiesInv /\ [ReadNext]_readVars => BodiesInv'
<1> SUFFICES ASSUME Inv, BodiesInv, [ReadNext]_readVars PROVE BodiesInv' OBVIOUS
<1> USE DEF given, context, files, names, bodies
<1> DEFINE P == [file : Source, prefix : Prefix \cup {NoPrefix}]
<1>0. pending \in Seq(P) /\ Len(pending) \in Nat BY DEF Inv, Marks, FilesTypeOK
<1>1. ASSUME UNCHANGED <<types, pending, body>> PROVE BodiesInv'
    BY <1>1 DEF BodiesInv, Declared
<1>2. CASE DeclareTypes
    <2> DEFINE e == [file |-> Here.file, prefix |-> prefix]
               d == [prefix |-> prefix, name |-> struct[Here.file], file |-> Here.file]
    <2>1. pending' = Append(pending, e) /\ types' = types \cup {d} /\ body' = body
        BY <1>2 DEF DeclareTypes
    <2>2. e.file = d.file /\ e.prefix = d.prefix OBVIOUS
    <2> HIDE DEF e, d, P
    <2>3. Len(pending') = Len(pending) + 1 /\ pending'[Len(pending) + 1] = e
          /\ \A k \in 1..Len(pending) : pending'[k] = pending[k]
        BY <1>0, <2>1
    <2>4. \A k \in 1..Len(pending) : \E t \in types' : t.file = pending[k].file /\ t.prefix = pending[k].prefix
        BY <2>1 DEF BodiesInv, Declared
    <2>5. \E t \in types' : t.file = e.file /\ t.prefix = e.prefix BY <2>1, <2>2
    <2>6. \A k \in 1..Len(pending') : k \in 1..Len(pending) \/ k = Len(pending) + 1
        BY <1>0, <2>3
    <2>7. body'.file \in Source => \E t \in types' : t.file = body'.file /\ t.prefix = body'.prefix
        BY <2>1 DEF BodiesInv, Declared
    <2> QED BY <2>3, <2>4, <2>5, <2>6, <2>7 DEF BodiesInv, Declared
<1>3. CASE ParseBody
    <2> HIDE DEF P
    <2>1. pending # <<>> /\ body' = Head(pending) /\ pending' = Tail(pending) /\ types' = types
        BY <1>3 DEF ParseBody
    <2>2. /\ Len(pending) >= 1 /\ Head(pending) = pending[1] /\ Len(pending') = Len(pending) - 1
          /\ \A k \in 1..Len(pending') : pending'[k] = pending[k + 1]
        BY <1>0, <2>1
    <2>3. 1 \in 1..Len(pending) /\ \A k \in 1..Len(pending') : k + 1 \in 1..Len(pending)
        BY <1>0, <2>2
    <2>4. Declared(pending[1]) /\ \A k \in 1..Len(pending') : Declared(pending[k + 1])
        BY <2>3 DEF BodiesInv
    <2> QED BY <2>1, <2>2, <2>4 DEF BodiesInv, Declared
<1>4. CASE ReadExtra
    <2>1. pending' = pending /\ types' = types /\ body'.file = NoFile
        BY <1>4 DEF ReadExtra
    <2> QED BY <2>1, FileFacts DEF BodiesInv, Declared
<1>5. ASSUME NEW i \in Item, Import(i) PROVE BodiesInv'
    BY <1>1, <1>5 DEF Import, ImportAgain, Circular, ImportHeader, Open
<1>6. CASE ImplDrop \/ EndOfFile \/ LoopOverArray \/ Finish \/ UNCHANGED readVars
    BY <1>1, <1>6 DEF ImplDrop, EndOfFile, LoopOverArray, Finish, readVars
<1> QED BY <1>2, <1>3, <1>4, <1>5, <1>6 DEF ReadNext

\* What a file imports, it goes on to import.
LEMMA ImportsGrow ==
    ASSUME Inv, [ReadNext]_readVars, NEW f \in FilesRead
    PROVE  f \in FilesRead' /\ Imports(f) \subseteq Imports(f)' /\ text'[f] = text[f]
<1>1. f \in Source /\ text'[f] = text[f] /\ reads'[f] >= reads[f] /\ reads[f] > 0
    BY Growth, ReadsGrow DEF Inv, FilesRead
<1>2. reads \in [Source -> Nat] /\ reads' \in [Source -> Nat] /\ FilesTypeOK /\ FilesTypeOK'
    BY InvStep DEF Inv, Marks, FilesTypeOK
<1>3. f \in FilesRead'
    <2>1. reads'[f] > 0 BY <1>1, <1>2
    <2> QED BY <1>1, <2>1 DEF FilesRead
<1>4. ASSUME NEW i \in Imports(f) PROVE i \in Imports(f)'
    <2>1. PICK p \in Places : p[1] = f /\ i = text[p[1]][p[2]] /\ i # [op |-> "drop"]
        BY <1>4 DEF Imports
    <2>2. p \in Places' BY <1>1, <1>3, <2>1 DEF Places
    <2>3. i = text'[p[1]][p[2]] BY <1>1, <2>1
    <2> QED BY <2>1, <2>2, <2>3 DEF Imports
<1> QED BY <1>1, <1>3, <1>4

\* What is written stays written.
LEMMA WrittenGrows == ASSUME Inv, [ReadNext]_readVars PROVE Written \subseteq Written'
BY ImportsGrow DEF Written

\* The item at the place of the top is an import of its file.
LEMMA AtImports ==
    ASSUME Inv, NEW i \in Item, Importing(i)
    PROVE  /\ Here.file \in FilesRead /\ i \in Imports(Here.file)
           /\ Here.file \in Source /\ Len(reading) \in Frames /\ Here = reading[Len(reading)]
           /\ Here.at \in 1..Len(text[Here.file]) /\ text[Here.file][Here.at] = i /\ i.op # "drop"
<1>1. /\ Len(reading) \in Frames /\ Here.at \in 1..Len(text[Here.file]) /\ text[Here.file][Here.at] = i
    BY AtFacts DEF Inv, Marks, Importing
<1>2. Here = reading[Len(reading)] /\ i.op # "drop" BY DEF Here, Importing
<1>3. Here.file \in Source /\ reads[Here.file] > 0 BY <1>1, OnStack DEF Inv, Here, Opened
<1>4. Here.file \in FilesRead BY <1>3 DEF FilesRead
<1>5. i \in Imports(Here.file) BY <1>1, <1>2, <1>4, ImportsAre DEF Inv, Marks
<1> QED BY <1>1, <1>2, <1>3, <1>4, <1>5

\* It is written.
LEMMA AtWritten == ASSUME Inv, NEW i \in Item, Importing(i) PROVE i \in Written
BY AtImports DEF Written

\* A selected name stays that of a type or of an import.
LEMMA SelectedKept ==
    ASSUME Inv, [ReadNext]_readVars, types \subseteq types', NEW s, NEW ref,
           \/ \E t \in types : t.prefix = ref[1] /\ t.name = s /\ s = ref[2]
           \/ \E i \in Written : /\ i.op = "only" /\ i.local = s /\ prefixes[i.file] # NoPrefix
                                 /\ ref = <<prefixes[i.file], i.symbol>>
    PROVE  \/ \E t \in types' : t.prefix = ref[1] /\ t.name = s /\ s = ref[2]
           \/ \E i \in Written' : /\ i.op = "only" /\ i.local = s /\ prefixes'[i.file] # NoPrefix
                                  /\ ref = <<prefixes'[i.file], i.symbol>>
<1>1. CASE \E t \in types : t.prefix = ref[1] /\ t.name = s /\ s = ref[2]
    BY <1>1
<1>2. ASSUME NEW i \in Written, i.op = "only", i.local = s, prefixes[i.file] # NoPrefix,
             ref = <<prefixes[i.file], i.symbol>>
      PROVE  \E j \in Written' : /\ j.op = "only" /\ j.local = s /\ prefixes'[j.file] # NoPrefix
                                 /\ ref = <<prefixes'[j.file], j.symbol>>
    <2>1. i \in Item
        <3>1. PICK f \in FilesRead : i \in Imports(f) BY DEF Written
        <3>2. PICK p \in Places : p[1] = f /\ i = text[p[1]][p[2]] BY <3>1 DEF Imports
        <3>3. p[1] \in Source /\ p[2] \in 1..MaxItems /\ p[2] <= Len(text[p[1]])
            BY <3>2 DEF Places, FilesRead
        <3>4. text[p[1]] \in Seq(Item) BY <3>3 DEF Inv, Marks, FilesTypeOK
        <3>5. p[2] \in 1..Len(text[p[1]])
            BY <3>3, <3>4, ImportsAssumption DEF ImportsAssumption
        <3> QED BY <3>2, <3>4, <3>5
    <2>2. i.file \in File BY <1>2, <2>1, ItemType
    <2>3. prefixes'[i.file] = prefixes[i.file] BY <1>2, <2>2, PrefixesKept
    <2>4. i \in Written' BY WrittenGrows
    <2> QED BY <1>2, <2>3, <2>4
<1> QED BY <1>1, <1>2

\* The names that are selected stay right.
LEMMA SelectStep == Inv /\ SelectInv /\ [ReadNext]_readVars => SelectInv'
<1> SUFFICES ASSUME Inv, SelectInv, [ReadNext]_readVars PROVE SelectInv' OBVIOUS
<1> USE DEF given, context, files, names, bodies
<1>0. FilesTypeOK BY DEF Inv, Marks
<1> DEFINE Good(s, ref) ==
               \/ \E t \in types' : t.prefix = ref[1] /\ t.name = s /\ s = ref[2]
               \/ \E i \in Written' : /\ i.op = "only" /\ i.local = s /\ prefixes'[i.file] # NoPrefix
                                      /\ ref = <<prefixes'[i.file], i.symbol>>
<1>1. types \subseteq types'
    BY DEF ReadNext, Import, ImportAgain, Circular, ImportHeader, Open, ImplDrop, DeclareTypes, EndOfFile,
           ParseBody, LoopOverArray, ReadExtra, Finish, readVars
<1>2. \A s \in DOMAIN selective : Good(s, selective[s])
    BY <1>1, SelectedKept DEF SelectInv
<1>3. ASSUME \A s \in DOMAIN selective' : Good(s, selective'[s]) PROVE SelectInv'
    BY <1>3 DEF SelectInv
<1> HIDE DEF Good
<1>4. CASE selective' = selective BY <1>2, <1>3, <1>4
<1>5. ASSUME NEW i \in Item, Importing(i), i.op = "only", Select(i), Allot(i.file)
      PROVE  SelectInv'
    <2>1. i.file \in File BY <1>5, ItemType
    <2>2. prefixes'[i.file] = PrefixFor(i.file) /\ prefixes'[i.file] # NoPrefix
        BY <1>0, <2>1, <1>5, Allots
    <2>3. i \in Written' BY <1>5, AtWritten, WrittenGrows
    <2> DEFINE ref == <<PrefixFor(i.file), i.symbol>>
    <2>4. Good(i.local, ref) BY <1>5, <2>2, <2>3 DEF Good
    <2>5. selective' = Put(selective, i.local, ref) BY <1>5 DEF Select
    <2> HIDE DEF ref
    <2>6. \A s \in DOMAIN selective' : IF s = i.local THEN selective'[s] = ref
                                     ELSE s \in DOMAIN selective /\ selective'[s] = selective[s]
        BY <2>5 DEF Put
    <2> QED BY <1>2, <1>3, <2>4, <2>6
<1>6. ASSUME NEW i \in Item, Import(i) PROVE SelectInv'
    <2>1. CASE selective' = selective BY <1>4, <2>1
    <2>2. CASE selective' # selective
        <3>1. Importing(i) /\ Select(i) /\ i.op = "only" /\ Allot(i.file)
            BY <1>6, <2>2 DEF Import, ImportAgain, Circular, ImportHeader, Open, Select
        <3> QED BY <1>5, <3>1
    <2> QED BY <2>1, <2>2
<1>7. CASE EndOfFile
    <2>1. CASE selective' = selective BY <1>4, <2>1
    <2>2. CASE selective' # selective
        <3>1. selective' = WildcardSymbols BY <1>7, <2>2 DEF EndOfFile
        <3> DEFINE found == {t.name : t \in {u \in types : u.prefix = prefix}}
        <3>2. \A s \in DOMAIN selective' :
                  IF s \in DOMAIN selective THEN selective'[s] = selective[s]
                  ELSE s \in found /\ selective'[s] = <<prefix, s>>
            BY <3>1 DEF WildcardSymbols
        <3>3. ASSUME NEW s \in found PROVE Good(s, <<prefix, s>>)
            <4>1. PICK t \in types : t.prefix = prefix /\ t.name = s BY <3>3
            <4>2. t \in types' BY <1>1
            <4>3. <<prefix, s>>[1] = prefix /\ <<prefix, s>>[2] = s OBVIOUS
            <4> QED BY <4>1, <4>2, <4>3 DEF Good
        <3> HIDE DEF found
        <3> QED BY <1>2, <1>3, <3>2, <3>3
    <2> QED BY <2>1, <2>2
<1>8. CASE ImplDrop \/ DeclareTypes \/ ParseBody \/ LoopOverArray \/ ReadExtra \/ Finish \/ UNCHANGED readVars
    BY <1>4, <1>8 DEF ImplDrop, DeclareTypes, ParseBody, LoopOverArray, ReadExtra, Finish, readVars
<1> QED BY <1>6, <1>7, <1>8 DEF ReadNext

-----------------------------------------------------------------------------
(* The names that imports register *)

\* The entry of an alias: what an `as`, a plain or an exporting import i in the file e wrote.
Named(a, e, i) ==
    /\ modules[a].file = i.file
    /\ \/ /\ i.op = "as" /\ a = i.alias
          /\ prefixes[i.file] # NoPrefix /\ modules[a].base = prefixes[i.file]
       \/ i.op = "plain" /\ i.file \in Source /\ a = Base[i.file]
       \/ /\ i.op = "as" /\ i.export /\ prefixes[e] # NoPrefix /\ a = <<prefixes[e], i.alias>>
          /\ prefixes[i.file] # NoPrefix /\ modules[a].base = prefixes[i.file]

NamesInv == \A a \in DOMAIN modules : \E e \in FilesRead : \E i \in Imports(e) : Named(a, e, i)

\* The name s was selected by name, last.
Selected(s) == /\ s \in DOMAIN selective
               /\ \E k \in Written : /\ k.op = "only" /\ k.local = s /\ prefixes[k.file] # NoPrefix
                                     /\ selective[s] = <<prefixes[k.file], k.symbol>>

\* The import i in the file e, which opened i's file, has registered its names.
Bound(e, i) ==
    /\ i.op = "as" => /\ i.alias \in DOMAIN modules
                      /\ i.export /\ e \in Module /\ prefixes[e] # NoPrefix
                             => <<prefixes[e], i.alias>> \in DOMAIN modules
    /\ i.op = "only" => Selected(i.local)

\* What is registered stays, but for what is selected.
LEMMA NamesKept ==
    ASSUME Inv, [ReadNext]_readVars
    PROVE  /\ \A a \in DOMAIN modules : a \in DOMAIN modules' /\ modules'[a] = modules[a]
           /\ \A s \in DOMAIN selective : s \in DOMAIN selective'
<1> USE DEF given, context, files, names, bodies
<1>1. ASSUME NEW map, NEW key, NEW val
      PROVE  /\ \A k \in DOMAIN map : k \in DOMAIN PutNew(map, key, val) /\ PutNew(map, key, val)[k] = map[k]
             /\ key \in DOMAIN PutNew(map, key, val)
             /\ \A k \in DOMAIN map : k \in DOMAIN Put(map, key, val)
    BY DEF PutNew, Put
<1>2. ASSUME NEW i, AliasHeader(i)
      PROVE  \A a \in DOMAIN modules : a \in DOMAIN modules' /\ modules'[a] = modules[a]
    <2>1. CASE i.op = "as" /\ i.alias \notin DOMAIN modules
        <3> DEFINE val == [file |-> i.file, base |-> PrefixFor(i.file)]
        <3>1. modules' = Put(modules, i.alias, val) BY <1>2, <2>1 DEF AliasHeader
        <3> HIDE DEF val
        <3> QED BY <2>1, <3>1 DEF Put
    <2> QED BY <1>2, <2>1 DEF AliasHeader
<1>3. ASSUME NEW i
      PROVE  \A a \in DOMAIN modules : a \in DOMAIN Alias(i) /\ Alias(i)[a] = modules[a]
    <2> DEFINE own == [file |-> i.file, base |-> PrefixFor(i.file)]
               base == [file |-> i.file, base |-> Base[i.file]]
               named == PutNew(modules, i.alias, own)
               both == PutNew(named, <<prefix, i.alias>>, own)
               plain == PutNew(modules, Base[i.file], base)
    <2>1. Alias(i) \in {both, named, plain, modules} BY DEF Alias
    <2> HIDE DEF own, base
    <2>2. \A a \in DOMAIN modules : a \in DOMAIN named /\ named[a] = modules[a] BY <1>1
    <2>3. \A a \in DOMAIN modules : a \in DOMAIN plain /\ plain[a] = modules[a] BY <1>1
    <2> HIDE DEF named, plain
    <2>4. \A a \in DOMAIN named : a \in DOMAIN both /\ both[a] = named[a] BY <1>1
    <2> HIDE DEF both
    <2> QED BY <2>1, <2>2, <2>3, <2>4
<1>4. ASSUME NEW i, Select(i) PROVE \A s \in DOMAIN selective : s \in DOMAIN selective'
    BY <1>1, <1>4 DEF Select
<1>5. ASSUME NEW i \in Item, Import(i)
      PROVE  /\ \A a \in DOMAIN modules : a \in DOMAIN modules' /\ modules'[a] = modules[a]
             /\ \A s \in DOMAIN selective : s \in DOMAIN selective'
    <2>1. modules' = modules \/ AliasHeader(i) \/ modules' = Alias(i)
        BY <1>5 DEF Import, ImportAgain, Circular, ImportHeader, Open
    <2>2. selective' = selective \/ Select(i)
        BY <1>5 DEF Import, ImportAgain, Circular, ImportHeader, Open
    <2> QED BY <1>2, <1>3, <1>4, <2>1, <2>2
<1>6. CASE EndOfFile
    BY <1>6 DEF EndOfFile, WildcardSymbols
<1>7. CASE ImplDrop \/ DeclareTypes \/ ParseBody \/ LoopOverArray \/ ReadExtra \/ Finish \/ UNCHANGED readVars
    BY <1>7 DEF ImplDrop, DeclareTypes, ParseBody, LoopOverArray, ReadExtra, Finish, readVars
<1> QED BY <1>5, <1>6, <1>7 DEF ReadNext

\* A name that was selected by name is only replaced by another such name.
LEMMA SelectedStays == ASSUME Inv, [ReadNext]_readVars, NEW s, Selected(s) PROVE Selected(s)'
<1> USE DEF given, context, files, names, bodies
<1>0. FilesTypeOK /\ s \in DOMAIN selective' BY NamesKept DEF Inv, Marks, Selected
<1>1. CASE selective'[s] = selective[s]
    <2>1. PICK k \in Written : /\ k.op = "only" /\ k.local = s /\ prefixes[k.file] # NoPrefix
                               /\ selective[s] = <<prefixes[k.file], k.symbol>>
        BY DEF Selected
    <2>2. k \in Item BY <1>0, ImportsAre DEF Written
    <2>3. k.file \in File BY <2>1, <2>2, ItemType
    <2>4. k \in Written' BY <2>1, WrittenGrows
    <2>5. prefixes'[k.file] = prefixes[k.file] BY <2>1, <2>3, PrefixesKept
    <2> QED BY <1>0, <1>1, <2>1, <2>4, <2>5 DEF Selected
<1>2. ASSUME NEW i \in Item, Importing(i), Select(i), Allot(i.file), i.op = "only", i.local = s
      PROVE  Selected(s)'
    <2>1. i.file \in File BY <1>2, ItemType
    <2>2. prefixes'[i.file] = PrefixFor(i.file) /\ prefixes'[i.file] # NoPrefix
        BY <1>0, <1>2, <2>1, Allots
    <2>3. i \in Written' BY <1>2, AtWritten, WrittenGrows
    <2>4. selective'[s] = <<PrefixFor(i.file), i.symbol>> BY <1>2 DEF Select, Put
    <2> QED BY <1>0, <1>2, <2>2, <2>3, <2>4 DEF Selected
<1>3. ASSUME NEW i \in Item, Import(i), selective'[s] # selective[s] PROVE Selected(s)'
    <2>1. Importing(i) /\ Select(i) /\ i.op = "only" /\ Allot(i.file)
        BY <1>3 DEF Import, ImportAgain, Circular, ImportHeader, Open, Select
    <2>2. i.local = s
        <3> DEFINE val == <<PrefixFor(i.file), i.symbol>>
        <3>1. selective' = Put(selective, i.local, val) BY <2>1 DEF Select
        <3> HIDE DEF val
        <3> QED BY <1>3, <3>1 DEF Put, Selected
    <2> QED BY <1>2, <2>1, <2>2
<1>4. CASE EndOfFile
    <2>1. selective' = WildcardSymbols \/ selective' = selective BY <1>4 DEF EndOfFile
    <2>2. selective'[s] = selective[s] BY <2>1 DEF WildcardSymbols, Selected
    <2> QED BY <1>1, <2>2
<1>5. CASE ImplDrop \/ DeclareTypes \/ ParseBody \/ LoopOverArray \/ ReadExtra \/ Finish \/ UNCHANGED readVars
    BY <1>1, <1>5 DEF ImplDrop, DeclareTypes, ParseBody, LoopOverArray, ReadExtra, Finish, readVars
<1> QED BY <1>1, <1>3, <1>4, <1>5 DEF ReadNext

\* A file of a module that has been read is not opened again, and keeps its prefix.
LEMMA ModuleKeeps ==
    ASSUME Inv, [ReadNext]_readVars, NEW e \in FilesRead \cap Module
    PROVE  prefixes'[e] = prefixes[e]
<1>1. e \in Source \ {Main} /\ reads[e] > 0 BY ImportsAssumption DEF FilesRead, ImportsAssumption
<1>2. e \in imported \cup parsing BY <1>1 DEF Inv, Marks, CountInv
<1>3. \A i \in Item : Open(i) => i.file # e BY <1>2 DEF Open
<1> QED BY <1>1, <1>3, PrefixesKept

\* The names that an import registered stay registered.
LEMMA BoundKept ==
    ASSUME Inv, [ReadNext]_readVars, NEW e \in FilesRead, NEW i, Bound(e, i)
    PROVE  Bound(e, i)'
<1>1. e \in Module => prefixes'[e] = prefixes[e] BY ModuleKeeps
<1>2. i.op = "only" => Selected(i.local)' BY SelectedStays DEF Bound
<1> QED BY <1>1, <1>2, NamesKept DEF Bound

\* A header's alias that is not there yet is registered by an import of the header.
Seen(i) == i.op = "as" /\ i.file \in Header => i.alias \in DOMAIN modules

\* The same after the step.
SeenNext(i) == i.op = "as" /\ i.file \in Header => i.alias \in DOMAIN modules'

\* A file on the stack was there, where it is or at an item that is done now, or it is opened.
Onward(n) ==
    /\ n \in Frames /\ Same(n)
    /\ \/ reading'[n].at = reading[n].at
       \/ /\ n = Len(reading) /\ reading'[n].at = reading[n].at + 1
          /\ \/ DeclareTypes
             \/ Here.at \in 1..Len(text[Here.file]) /\ SeenNext(text[Here.file][Here.at])
Opens(n) ==
    /\ reading'[n].at = 1
    /\ \/ \E i \in Item : Open(i) /\ reading'[n].file = i.file /\ reading'[n].by = i.op
       \/ reading'[n].file = Std /\ reading'[n].by = "std"
       \/ reading'[n].file = extra /\ reading'[n].by = "root" /\ ReadExtra

\* A step leaves on the stack only such files.
LEMMA StackStep ==
    ASSUME Inv, [ReadNext]_readVars, NEW n \in Frames' PROVE Onward(n) \/ Opens(n)
<1> USE DEF given, context, files, names, bodies
<1>0. FilesTypeOK /\ RootInv BY DEF Inv, Marks
<1>1. CASE reading' = reading BY <1>1 DEF Onward, Same, Frames
<1>2. ASSUME reading # <<>>, reading' = Behind(reading),
             DeclareTypes \/ (Here.at \in 1..Len(text[Here.file]) /\ SeenNext(text[Here.file][Here.at]))
      PROVE  Onward(n)
    <2>1. /\ Len(reading) \in Nat /\ Len(reading') = Len(reading) /\ \A m \in Frames : Same(m)
          /\ \A m \in 1..(Len(reading) - 1) : reading'[m] = reading[m]
          /\ reading'[Len(reading)].at = reading[Len(reading)].at + 1
        BY <1>0, <1>2, Advances
    <2>2. n \in Frames /\ (n \in 1..(Len(reading) - 1) \/ n = Len(reading)) BY <2>1 DEF Frames
    <2> QED BY <1>2, <2>1, <2>2 DEF Onward
<1>3. ASSUME reading # <<>>, NEW f \in Source, NEW by \in {"std", "plain", "as", "only", "all"},
             reading' = Append(Behind(reading), Opening(f, by)),
             Here.at \in 1..Len(text[Here.file]) /\ SeenNext(text[Here.file][Here.at]),
             (\E i \in Item : Open(i) /\ f = i.file /\ by = i.op) \/ (f = Std /\ by = "std")
      PROVE  Onward(n) \/ Opens(n)
    <2>1. /\ Len(reading) \in Nat \ {0} /\ Len(reading') = Len(reading) + 1 /\ \A m \in Frames : Same(m)
          /\ \A m \in 1..(Len(reading) - 1) : reading'[m] = reading[m]
          /\ reading'[Len(reading)].at = reading[Len(reading)].at + 1
          /\ reading'[Len(reading')].file = f /\ reading'[Len(reading')].at = 1
          /\ reading'[Len(reading')].by = by
        BY <1>0, <1>3, Enters
    <2>2. \/ n \in Frames /\ (n \in 1..(Len(reading) - 1) \/ n = Len(reading))
          \/ n = Len(reading')
        BY <2>1 DEF Frames
    <2>3. CASE n \in Frames BY <1>3, <2>1, <2>2, <2>3 DEF Onward, Frames
    <2>4. CASE n = Len(reading') BY <1>3, <2>1, <2>4 DEF Opens
    <2> QED BY <2>2, <2>3, <2>4
<1>4. ASSUME NEW i \in Item, AliasHeader(i), i.op = "as" PROVE i.alias \in DOMAIN modules'
    <2>1. CASE i.alias \notin DOMAIN modules
        <3> DEFINE val == [file |-> i.file, base |-> PrefixFor(i.file)]
        <3>1. modules' = Put(modules, i.alias, val) BY <1>4, <2>1 DEF AliasHeader
        <3> HIDE DEF val
        <3> QED BY <3>1 DEF Put
    <2> QED BY <1>4, <2>1 DEF AliasHeader
<1>5. ASSUME NEW i \in Item, ImportAgain(i) \/ ImportHeader(i) PROVE Onward(n)
    <2>1. Importing(i) /\ reading' = Behind(reading) BY <1>5 DEF ImportAgain, ImportHeader, Advance
    <2>2. Here.at \in 1..Len(text[Here.file]) /\ text[Here.file][Here.at] = i /\ reading # <<>>
        BY <1>0, <2>1, AtImports, AtFacts DEF Importing
    <2>3. i.op = "as" /\ i.file \in Header => AliasHeader(i) BY <1>5 DEF ImportAgain, ImportHeader
    <2>4. SeenNext(i) BY <1>4, <2>3 DEF SeenNext
    <2> QED BY <1>2, <2>1, <2>2, <2>4
<1>6. ASSUME NEW i \in Item, Open(i) PROVE Onward(n) \/ Opens(n)
    <2>1. /\ Importing(i) /\ reading' = Append(Behind(reading), Opening(i.file, i.op))
          /\ i.file \in Source
        BY <1>6 DEF Open
    <2>2. Here.at \in 1..Len(text[Here.file]) /\ text[Here.file][Here.at] = i /\ reading # <<>>
        BY <1>0, <2>1, AtImports, AtFacts DEF Importing
    <2>3. SeenNext(i) BY <2>1, ImportsAssumption DEF SeenNext, ImportsAssumption
    <2>4. i.op \in {"plain", "as", "only", "all"} BY <2>1, ItemType DEF Importing
    <2> QED BY <1>3, <1>6, <2>1, <2>2, <2>3, <2>4
<1>7. CASE ImplDrop
    <2>1. /\ reading # <<>> /\ text[Here.file][Here.at].op = "drop"
          /\ Here.at \in 1..Len(text[Here.file])
        <3>1. reading \in Seq(OpenFile) /\ reading # <<>>
            BY <1>0, <1>7 DEF ImplDrop, AtItem, RootInv, FilesTypeOK
        <3>2. Here \in OpenFile BY <3>1 DEF Here
        <3>3. Here.at \in Nat \ {0} /\ Len(text[Here.file]) \in Nat
            BY <1>0, <3>2 DEF OpenFile, FilesTypeOK
        <3> QED BY <1>7, <3>1, <3>3 DEF ImplDrop, AtItem
    <2>2. SeenNext(text[Here.file][Here.at]) BY <2>1 DEF SeenNext
    <2>3. \/ reading' = Behind(reading)
          \/ reading' = Append(Behind(reading), Opening(Std, "std"))
        BY <1>7 DEF ImplDrop, LoadStd
    <2> QED BY <1>2, <1>3, <2>1, <2>2, <2>3, FileFacts
<1>8. CASE DeclareTypes
    BY <1>2, <1>8 DEF DeclareTypes, Advance
<1>9. CASE EndOfFile
    <2>1. Frames' \subseteq Frames /\ \A m \in Frames' : reading'[m] = reading[m]
        BY <1>0, <1>9, EndFacts
    <2> QED BY <2>1 DEF Onward, Same
<1>10. CASE LoopOverArray
    <2>1. reading = <<>> /\ (reading' = <<>> \/ reading' = Append(<<>>, Opening(Std, "std")))
        BY <1>10 DEF LoopOverArray, LoadStd
    <2>2. CASE reading' = Append(<<>>, Opening(Std, "std"))
        <3>1. Frames' = {1} /\ reading'[1].file = Std /\ reading'[1].by = "std" /\ reading'[1].at = 1
            BY <1>0, <2>1, <2>2, BodyEnters
        <3> QED BY <3>1 DEF Opens
    <2> QED BY <1>1, <2>1, <2>2
<1>11. CASE ReadExtra
    <2>1. CASE extra \in imported BY <1>1, <1>11, <2>1 DEF ReadExtra
    <2>2. CASE extra \notin imported
        <3>1. Frames' = {1} /\ reading'[1].file = extra /\ reading'[1].by = "root" /\ reading'[1].at = 1
            BY <1>0, <1>11, <2>2, ExtraEnters
        <3> QED BY <1>11, <3>1 DEF Opens
    <2> QED BY <2>1, <2>2
<1>12. CASE (\E i \in Item : Circular(i)) \/ ParseBody \/ Finish \/ UNCHANGED readVars
    BY <1>1, <1>12 DEF Circular, ParseBody, Finish, readVars
<1> QED BY <1>5, <1>6, <1>7, <1>8, <1>9, <1>10, <1>11, <1>12 DEF ReadNext, Import

\* The prefix in force is that of the file that has imports.
LEMMA PrefixHere ==
    ASSUME Inv, PrefixInv, NEW i \in Item, Importing(i), Here.file # Main \/ prefix # NoPrefix
    PROVE  prefix = prefixes[Here.file]
<1> DEFINE L == Len(reading)
<1>1. /\ L \in Frames /\ Here = reading[L] /\ Here.file \in Source /\ Here.at \in 1..Len(text[Here.file])
    BY AtImports
<1>2. Current(L) = prefix /\ Opened(L) = Here.file BY <1>1 DEF Current, Opened
<1>3. Here.file # Std
    <2>1. text[Std] = <<>> BY DEF Inv, PathInv
    <2>2. Len(text[Std]) = 0 BY <2>1
    <2> QED BY <1>1, <2>2
<1>4. reading[L].by \in Prefixed \cup {"plain", "root", "std"}
    BY <1>1, OnStack DEF Inv, OpenFile, Prefixed
<1>5. reading[L].by # "std" BY <1>1, <1>2, <1>3 DEF Inv, Marks, RootInv
<1> HIDE DEF L
<1>6. CASE reading[L].by \in Prefixed BY <1>1, <1>2, <1>6 DEF PrefixInv
<1>7. CASE reading[L].by \in {"plain", "root"} 
    <2>1. prefix = NoPrefix BY <1>1, <1>2, <1>7 DEF PrefixInv
    <2>2. reading[L].by \notin Prefixed BY <1>7 DEF Prefixed
    <2> QED BY <1>1, <1>2, <2>1, <2>2 DEF PrefixInv
<1> QED BY <1>4, <1>5, <1>6, <1>7

\* What is registered says who registered it.
LEMMA NamesStep == Inv /\ PrefixInv /\ NamesInv /\ [ReadNext]_readVars => NamesInv'
<1> SUFFICES ASSUME Inv, PrefixInv, NamesInv, [ReadNext]_readVars, NEW a \in DOMAIN modules'
             PROVE  \E e \in FilesRead' : \E i \in Imports(e)' : Named(a, e, i)'
    BY DEF NamesInv
<1> USE DEF given, context, files, names, bodies
<1>0. FilesTypeOK BY DEF Inv, Marks
<1>1. CASE a \in DOMAIN modules
    <2>1. PICK e \in FilesRead : \E i \in Imports(e) : Named(a, e, i) BY <1>1 DEF NamesInv
    <2>2. PICK i \in Imports(e) : Named(a, e, i) BY <2>1
    <2>3. e \in FilesRead' /\ i \in Imports(e)' BY <2>2, ImportsGrow
    <2>4. modules'[a] = modules[a] BY <1>1, NamesKept
    <2>5. i \in Item /\ i.op # "drop" BY <1>0, <2>2, ImportsAre
    <2>6. i.file \in File /\ e \in File BY <2>5, ItemType, FileFacts DEF FilesRead
    <2>7. /\ prefixes[i.file] # NoPrefix => prefixes'[i.file] = prefixes[i.file]
          /\ prefixes[e] # NoPrefix => prefixes'[e] = prefixes[e]
        BY <2>6, PrefixesKept
    <2> QED BY <2>2, <2>3, <2>4, <2>7 DEF Named
\* A header's alias.
<1>2. ASSUME NEW i \in Item, Importing(i), AliasHeader(i), a \notin DOMAIN modules
      PROVE  \E e \in FilesRead' : \E j \in Imports(e)' : Named(a, e, j)'
    <2>0. PICK e \in FilesRead : e = Here.file /\ i \in Imports(e) BY <1>2, AtImports
    <2>1. e \in FilesRead' /\ i \in Imports(e)' /\ i.file \in File
        BY <1>2, <2>0, AtImports, ImportsGrow, ItemType
    <2>2. i.op = "as" /\ Allot(i.file) /\ i.alias \notin DOMAIN modules BY <1>2 DEF AliasHeader
    <2>3. prefixes'[i.file] = PrefixFor(i.file) /\ prefixes'[i.file] # NoPrefix
        BY <1>0, <2>1, <2>2, Allots
    <2> DEFINE val == [file |-> i.file, base |-> PrefixFor(i.file)]
    <2>4. modules' = Put(modules, i.alias, val) BY <1>2, <2>2 DEF AliasHeader
    <2>5. val.file = i.file /\ val.base = PrefixFor(i.file) OBVIOUS
    <2> HIDE DEF val
    <2>6. a = i.alias /\ modules'[a] = val BY <1>2, <2>4 DEF Put
    <2>7. Named(a, e, i)' BY <2>2, <2>3, <2>5, <2>6 DEF Named
    <2> QED BY <2>1, <2>7
\* What a file that is opened is called.
<1>3. ASSUME NEW i \in Item, Open(i), a \notin DOMAIN modules
      PROVE  \E e \in FilesRead' : \E j \in Imports(e)' : Named(a, e, j)'
    <2>1. Importing(i) /\ i.file \in Source /\ modules' = Alias(i) BY <1>3 DEF Open
    <2>0. PICK e \in FilesRead : e = Here.file /\ i \in Imports(e) BY <2>1, AtImports
    <2>2. e \in FilesRead' /\ i \in Imports(e)' /\ i.file \in File
        BY <2>0, <2>1, AtImports, ImportsGrow, ItemType
    <2> DEFINE own == [file |-> i.file, base |-> PrefixFor(i.file)]
               base == [file |-> i.file, base |-> Base[i.file]]
               named == PutNew(modules, i.alias, own)
    <2>3. /\ own.file = i.file /\ own.base = PrefixFor(i.file)
          /\ base.file = i.file
        OBVIOUS
    <2>4. \/ i.op = "as" /\ i.export /\ prefix # NoPrefix /\ modules' = PutNew(named, <<prefix, i.alias>>, own)
          \/ i.op = "as" /\ modules' = named
          \/ i.op = "plain" /\ modules' = PutNew(modules, Base[i.file], base)
        BY <1>3, <2>1 DEF Alias
    <2> HIDE DEF own, base
    <2>5. i.op = "as" => prefixes'[i.file] = PrefixFor(i.file) /\ prefixes'[i.file] # NoPrefix
        BY <1>0, <1>3, <2>2, Allots DEF Open
    <2>6. \A b \in DOMAIN named : b \in DOMAIN modules \/ (b = i.alias /\ named[b] = own)
        BY DEF PutNew, Put
    <2> HIDE DEF named
    <2>7. CASE i.op = "as" /\ a = i.alias /\ modules'[a] = own
        <3>1. Named(a, e, i)' BY <2>3, <2>5, <2>7 DEF Named
        <3> QED BY <2>2, <3>1
    <2>8. CASE i.op = "as" /\ i.export /\ prefix # NoPrefix /\ a = <<prefix, i.alias>> /\ modules'[a] = own
        <3>1. prefix = prefixes[e] BY <2>0, <2>1, <2>8, PrefixHere
        <3>2. e \in File BY <2>0, <2>1, AtImports, FileFacts
        <3>3. prefixes'[e] = prefix BY <2>8, <3>1, <3>2, PrefixesKept
        <3>4. Named(a, e, i)' BY <2>3, <2>5, <2>8, <3>3 DEF Named
        <3> QED BY <2>2, <3>4
    <2>9. CASE i.op = "plain" /\ a = Base[i.file] /\ modules'[a] = base
        <3>1. Named(a, e, i)' BY <2>1, <2>3, <2>9 DEF Named
        <3> QED BY <2>2, <3>1
    <2>10. CASE i.op = "as" /\ i.export /\ prefix # NoPrefix /\ modules' = PutNew(named, <<prefix, i.alias>>, own)
        <3>1. \/ a \in DOMAIN named /\ modules'[a] = named[a]
              \/ a = <<prefix, i.alias>> /\ modules'[a] = own
            BY <2>10 DEF PutNew, Put
        <3> QED BY <1>3, <2>6, <2>7, <2>8, <2>10, <3>1
    <2>11. CASE i.op = "as" /\ modules' = named
        BY <1>3, <2>6, <2>7, <2>11
    <2>12. CASE i.op = "plain" /\ modules' = PutNew(modules, Base[i.file], base)
        <3>1. a = Base[i.file] /\ modules'[a] = base BY <1>3, <2>12 DEF PutNew, Put
        <3> QED BY <2>9, <2>12, <3>1
    <2> QED BY <2>4, <2>10, <2>11, <2>12
<1>4. ASSUME NEW i \in Item, Import(i), a \notin DOMAIN modules
      PROVE  \E e \in FilesRead' : \E j \in Imports(e)' : Named(a, e, j)'
    <2>1. modules' # modules BY <1>4
    <2>2. (Importing(i) /\ AliasHeader(i)) \/ Open(i)
        BY <1>4, <2>1 DEF Import, ImportAgain, Circular, ImportHeader
    <2> QED BY <1>2, <1>3, <1>4, <2>2
<1>5. CASE ImplDrop \/ DeclareTypes \/ EndOfFile \/ ParseBody \/ LoopOverArray \/ ReadExtra \/ Finish
           \/ UNCHANGED readVars
    <2>1. modules' = modules
        BY <1>5 DEF ImplDrop, DeclareTypes, EndOfFile, ParseBody, LoopOverArray, ReadExtra, Finish, readVars
    <2> QED BY <1>1, <2>1
<1> QED BY <1>1, <1>4, <1>5 DEF ReadNext

\* A file that is being read was opened by an import, which has registered its names.
OpenedBy(n) == \E e \in FilesRead : \E i \in Imports(e) :
                   i.file = Opened(n) /\ i.op = reading[n].by /\ Bound(e, i)
FramesInv == \A n \in Frames : reading[n].by \in Prefixed \cup {"plain"} => OpenedBy(n)

\* What opens a file registers its names, and they stay.
LEMMA FramesStep == Inv /\ PrefixInv /\ FramesInv /\ [ReadNext]_readVars => FramesInv'
<1> SUFFICES ASSUME Inv, PrefixInv, FramesInv, [ReadNext]_readVars, NEW n \in Frames',
                    reading'[n].by \in Prefixed \cup {"plain"}
             PROVE  \E e \in FilesRead' : \E i \in Imports(e)' :
                        i.file = reading'[n].file /\ i.op = reading'[n].by /\ Bound(e, i)'
    BY DEF FramesInv, OpenedBy, Opened, Prefixed
<1> USE DEF given, context, files, names, bodies
<1>0. FilesTypeOK BY DEF Inv, Marks
<1>1. CASE Onward(n)
    <2>1. n \in Frames /\ reading'[n].file = reading[n].file /\ reading'[n].by = reading[n].by
        BY <1>1 DEF Onward, Same
    <2>2. PICK e \in FilesRead : \E i \in Imports(e) :
                   i.file = Opened(n) /\ i.op = reading[n].by /\ Bound(e, i)
        BY <2>1 DEF FramesInv, OpenedBy
    <2>3. PICK i \in Imports(e) : i.file = Opened(n) /\ i.op = reading[n].by /\ Bound(e, i)
        BY <2>2
    <2>4. e \in FilesRead' /\ i \in Imports(e)' /\ Bound(e, i)' BY <2>3, ImportsGrow, BoundKept
    <2> QED BY <2>1, <2>3, <2>4 DEF Opened
<1>2. ASSUME NEW i \in Item, Open(i), reading'[n].file = i.file, reading'[n].by = i.op
      PROVE  \E e \in FilesRead' : \E j \in Imports(e)' :
                 j.file = reading'[n].file /\ j.op = reading'[n].by /\ Bound(e, j)'
    <2>1. Importing(i) /\ i.file \in Source \ (imported \cup parsing) /\ modules' = Alias(i) /\ Select(i)
        BY <1>2 DEF Open
    <2>0. PICK e \in FilesRead : e = Here.file /\ i \in Imports(e) BY <2>1, AtImports
    <2>2. e \in FilesRead' /\ i \in Imports(e)' /\ i.file \in File
        BY <2>0, <2>1, AtImports, ImportsGrow, ItemType
    <2> DEFINE own == [file |-> i.file, base |-> PrefixFor(i.file)]
               named == PutNew(modules, i.alias, own)
    <2>3. i.op = "as" => modules' = IF i.export /\ prefix # NoPrefix
                                    THEN PutNew(named, <<prefix, i.alias>>, own) ELSE named
        BY <2>1 DEF Alias
    <2> HIDE DEF own
    <2>4. i.alias \in DOMAIN named BY DEF PutNew, Put
    <2> HIDE DEF named
    <2>5. i.op = "as" => /\ i.alias \in DOMAIN modules'
                         /\ i.export /\ prefix # NoPrefix => <<prefix, i.alias>> \in DOMAIN modules'
        BY <2>3, <2>4 DEF PutNew, Put
    <2>6. e \in Module => prefixes'[e] = prefix
        <3> SUFFICES ASSUME e \in Module PROVE prefixes'[e] = prefix OBVIOUS
        <3>1. e # Main BY ImportsAssumption DEF ImportsAssumption
        <3>2. prefix = prefixes[e] BY <2>0, <2>1, <3>1, PrefixHere
        <3> QED BY <2>0, <3>2, ModuleKeeps
    <2>7. ASSUME i.op = "only" PROVE Selected(i.local)'
        <3>1. Allot(i.file) BY <1>2, <2>7 DEF Open
        <3>2. prefixes'[i.file] = PrefixFor(i.file) /\ prefixes'[i.file] # NoPrefix
            BY <1>0, <2>2, <3>1, Allots
        <3>3. i \in Written' BY <2>1, AtWritten, WrittenGrows
        <3> DEFINE val == <<PrefixFor(i.file), i.symbol>>
        <3>4. selective' = Put(selective, i.local, val) BY <2>1, <2>7 DEF Select
        <3>5. val = <<prefixes'[i.file], i.symbol>> BY <3>2
        <3> HIDE DEF val
        <3>6. i.local \in DOMAIN selective' /\ selective'[i.local] = val BY <3>4 DEF Put
        <3> QED BY <2>7, <3>2, <3>3, <3>5, <3>6 DEF Selected
    <2>8. Bound(e, i)' BY <2>5, <2>6, <2>7 DEF Bound
    <2> QED BY <1>2, <2>2, <2>8
<1>3. CASE Opens(n)
    <2>1. reading'[n].by # "std" /\ reading'[n].by # "root" BY DEF Prefixed
    <2> QED BY <1>2, <1>3, <2>1 DEF Opens
<1> QED BY <1>1, <1>3, StackStep

\* A file stays on the stack until it ends on top.
LEMMA StackStays ==
    ASSUME Inv, [ReadNext]_readVars, NEW n \in Frames
    PROVE  (n \in Frames' /\ Same(n)) \/ (EndOfFile /\ n = Len(reading))
<1> USE DEF given, context, files, names, bodies
<1>0. FilesTypeOK /\ RootInv BY DEF Inv, Marks
<1>1. CASE Stays BY <1>0, <1>1, StaysFacts
<1>2. ASSUME reading # <<>>, NEW f \in Source, NEW by \in {"std", "plain", "as", "only", "all"},
             reading' = Append(Behind(reading), Opening(f, by))
      PROVE  n \in Frames' /\ Same(n)
    BY <1>0, <1>2, EnteredFacts DEF Entered
<1>3. reading # <<>>
    <2>1. Len(reading) # 0 BY DEF Frames
    <2> QED BY <2>1
<1>4. ASSUME NEW i \in Item, Import(i) PROVE n \in Frames' /\ Same(n)
    <2>1. \/ reading' = reading \/ reading' = Behind(reading)
          \/ i.file \in Source /\ reading' = Append(Behind(reading), Opening(i.file, i.op))
        BY <1>4 DEF Import, ImportAgain, Circular, ImportHeader, Open, Advance
    <2>2. i.op \in {"plain", "as", "only", "all"}
        BY <1>4, ItemType DEF Import, ImportAgain, Circular, ImportHeader, Open, Importing
    <2> QED BY <1>0, <1>2, <1>3, <2>1, <2>2, StaysFacts DEF Stays
<1>5. CASE ImplDrop
    BY <1>0, <1>2, <1>3, <1>5, StaysFacts, FileFacts DEF ImplDrop, LoadStd, Stays
<1>6. CASE EndOfFile
    <2>1. Frames' = Frames \ {Len(reading)} /\ \A m \in Frames' : reading'[m] = reading[m]
        BY <1>0, <1>6, EndFacts
    <2> QED BY <1>6, <2>1 DEF Same
<1>7. CASE DeclareTypes \/ ParseBody \/ LoopOverArray \/ ReadExtra \/ Finish \/ UNCHANGED readVars
    BY <1>0, <1>3, <1>7, StaysFacts DEF DeclareTypes, Advance, ParseBody, LoopOverArray, ReadExtra, Finish,
                                        readVars, Stays
<1> QED BY <1>4, <1>5, <1>6, <1>7 DEF ReadNext

\* A type carries the prefix that the import which opened its file asked for, and `*` selects it
\* when the file ends; the extra file's has none if the driver opened it.
Fits(t, i) ==
    /\ i.file = t.file
    /\ i.op = "plain" => t.prefix = NoPrefix
    /\ i.op \in Prefixed => prefixes[t.file] # NoPrefix
    /\ i.op = "all" => \/ t.name \in DOMAIN selective
                       \/ \E n \in Frames : Opened(n) = t.file /\ reading[n].by = "all"
Given(t) == \/ t.file = extra /\ t.prefix = NoPrefix
            \/ \E e \in FilesRead : \E i \in Imports(e) : Fits(t, i) /\ Bound(e, i)
GivenInv == \A t \in types : t.file \in Module => Given(t)

\* Types are only added, and by the file on top.
LEMMA TypesGrow ==
    ASSUME [ReadNext]_readVars
    PROVE  /\ types \subseteq types' /\ extra' = extra /\ (~DeclareTypes => types' = types)
           /\ DeclareTypes => types' = types \cup {[prefix |-> prefix, name |-> struct[Here.file],
                                                    file |-> Here.file]}
BY DEF ReadNext, Import, ImportAgain, Circular, ImportHeader, Open, ImplDrop, DeclareTypes, EndOfFile,
       ParseBody, LoopOverArray, ReadExtra, Finish, given, context, files, names, bodies, readVars

\* When a file ends that was imported by `*`, its type is selected.
LEMMA AllSelected ==
    ASSUME Inv, PrefixInv, TypesInv, EndOfFile, NEW t \in types, NEW n, n = Len(reading),
           Opened(n) = t.file, reading[n].by = "all"
    PROVE  t.name \in DOMAIN selective'
<1>1. n \in Frames /\ Here = reading[n] BY EndFacts DEF Inv, Marks
<1>2. selective' = WildcardSymbols BY <1>1 DEF EndOfFile
<1>3. Current(n) = prefix /\ Current(n) = prefixes[t.file] /\ Current(n) # NoPrefix
    BY <1>1 DEF Current, PrefixInv, Prefixed
<1>4. t.prefix = prefix BY <1>3 DEF TypesInv
<1> QED BY <1>2, <1>4 DEF WildcardSymbols

\* Types keep what they were given.
LEMMA GivenKept ==
    ASSUME Inv, PrefixInv, TypesInv, [ReadNext]_readVars, NEW t \in types, t.file \in Module, Given(t)
    PROVE  Given(t)'
<1>1. CASE t.file = extra /\ t.prefix = NoPrefix BY <1>1, TypesGrow DEF Given
<1>2. CASE \E e \in FilesRead : \E i \in Imports(e) : Fits(t, i) /\ Bound(e, i)
    <2>1. PICK e \in FilesRead : \E i \in Imports(e) : Fits(t, i) /\ Bound(e, i) BY <1>2
    <2>2. PICK i \in Imports(e) : Fits(t, i) /\ Bound(e, i) BY <2>1
    <2>3. e \in FilesRead' /\ i \in Imports(e)' /\ Bound(e, i)' BY <2>2, ImportsGrow, BoundKept
    <2>4. t.file \in FilesRead \cap Module BY DEF TypesInv, FilesRead
    <2>5. prefixes'[t.file] = prefixes[t.file] BY <2>4, ModuleKeeps
    <2>6. ASSUME i.op = "all"
          PROVE  \/ t.name \in DOMAIN selective'
                 \/ \E n \in Frames' : reading'[n].file = t.file /\ reading'[n].by = "all"
        <3>1. CASE t.name \in DOMAIN selective BY <3>1, NamesKept
        <3>2. ASSUME NEW n \in Frames, Opened(n) = t.file, reading[n].by = "all"
              PROVE  t.name \in DOMAIN selective' \/ (n \in Frames' /\ Same(n))
            BY <3>2, StackStays, AllSelected
        <3> QED BY <2>2, <2>6, <3>1, <3>2 DEF Fits, Opened, Same
    <2>7. Fits(t, i)' BY <2>2, <2>5, <2>6 DEF Fits, Opened, Prefixed
    <2> QED BY <2>3, <2>7 DEF Given
<1> QED BY <1>1, <1>2 DEF Given

\* A type is declared with it.
LEMMA GivenDeclares ==
    ASSUME Inv, PrefixInv, FramesInv, [ReadNext]_readVars, DeclareTypes, NEW t,
           t = [prefix |-> prefix, name |-> struct[Here.file], file |-> Here.file], t.file \in Module
    PROVE  Given(t)'
<1> DEFINE L == Len(reading)
<1>1. L \in Frames /\ Here = reading[L] /\ reading # <<>>
    <2>1. reading \in Seq(OpenFile) /\ reading # <<>> BY DEF DeclareTypes, Inv, Marks, FilesTypeOK
    <2> QED BY <2>1 DEF Frames, Here
<1>2. t.file = Opened(L) /\ t.prefix = prefix /\ Current(L) = prefix BY <1>1 DEF Opened, Current
<1>3. t.file # Main /\ t.file # Std BY ImportsAssumption DEF ImportsAssumption
<1>4. reading[L].by \in Prefixed \cup {"plain", "root", "std"}
    BY <1>1, OnStack DEF Inv, OpenFile, Prefixed
<1>5. reading[L].by # "std" BY <1>1, <1>2, <1>3 DEF Inv, Marks, RootInv
<1>6. L \in Frames' /\ Same(L)
    <2>1. ~EndOfFile
        <3>1. Here \in OpenFile BY <1>1, OnStack DEF Inv
        <3>2. Len(text[Here.file]) \in Nat BY <3>1 DEF OpenFile, Inv, Marks, FilesTypeOK
        <3> QED BY <3>2 DEF DeclareTypes, EndOfFile
    <2> QED BY <1>1, <2>1, StackStays
<1>7. CASE reading[L].by = "root"
    <2>1. t.file = extra BY <1>1, <1>2, <1>3, <1>7 DEF Inv, Marks, RootInv
    <2>2. t.prefix = NoPrefix BY <1>1, <1>2, <1>7 DEF PrefixInv
    <2> QED BY <2>1, <2>2, TypesGrow DEF Given
<1>8. CASE reading[L].by \in Prefixed \cup {"plain"}
    <2>1. PICK e \in FilesRead : \E i \in Imports(e) :
                   i.file = Opened(L) /\ i.op = reading[L].by /\ Bound(e, i)
        BY <1>1, <1>8 DEF FramesInv, OpenedBy
    <2>2. PICK i \in Imports(e) : i.file = Opened(L) /\ i.op = reading[L].by /\ Bound(e, i) BY <2>1
    <2>3. e \in FilesRead' /\ i \in Imports(e)' /\ Bound(e, i)' BY <2>2, ImportsGrow, BoundKept
    <2>4. prefixes' = prefixes BY DEF DeclareTypes, files
    <2>5. i.op = "plain" => t.prefix = NoPrefix BY <1>1, <1>2, <2>2 DEF PrefixInv
    <2>6. i.op \in Prefixed => prefixes'[t.file] # NoPrefix BY <1>1, <1>2, <2>2, <2>4 DEF PrefixInv
    <2>7. reading'[L].file = t.file /\ reading'[L].by = i.op BY <1>2, <1>6, <2>2 DEF Same, Opened
    <2> HIDE DEF L
    <2>8. i.op = "all" => \E n \in Frames' : reading'[n].file = t.file /\ reading'[n].by = "all"
        BY <1>6, <2>7
    <2>9. Fits(t, i)' BY <1>2, <2>2, <2>5, <2>6, <2>8 DEF Fits, Opened, Prefixed
    <2> QED BY <2>3, <2>9 DEF Given
<1> QED BY <1>4, <1>5, <1>7, <1>8

\* Whatever is declared, its prefix is what its file was opened for.
LEMMA GivenStep ==
    Inv /\ PrefixInv /\ TypesInv /\ FramesInv /\ GivenInv /\ [ReadNext]_readVars => GivenInv'
<1> SUFFICES ASSUME Inv, PrefixInv, TypesInv, FramesInv, GivenInv, [ReadNext]_readVars,
                    NEW t \in types', t.file \in Module
             PROVE  Given(t)'
    BY DEF GivenInv
<1>1. CASE t \in types BY <1>1, GivenKept DEF GivenInv
<1>2. CASE t \notin types
    <2>1. DeclareTypes /\ t = [prefix |-> prefix, name |-> struct[Here.file], file |-> Here.file]
        BY <1>2, TypesGrow
    <2> QED BY <2>1, GivenDeclares
<1> QED BY <1>1, <1>2

\* A file that has got to its end has declared its type.
DeclaresInv ==
    /\ \A n \in Frames : reading[n].at = Len(text[Opened(n)]) + 2 => \E t \in types : t.file = Opened(n)
    /\ \A f \in Finished : \E t \in types : t.file = f

\* The end of a file comes after its declarations.
LEMMA DeclaresStep == Inv /\ DeclaresInv /\ [ReadNext]_readVars => DeclaresInv'
<1> SUFFICES ASSUME Inv, DeclaresInv, [ReadNext]_readVars PROVE DeclaresInv' OBVIOUS
<1>0. FilesTypeOK /\ FilesTypeOK' /\ types \subseteq types' BY InvStep, TypesGrow DEF Inv, Marks
<1>1. ASSUME NEW n \in Frames', reading'[n].at = Len(text'[reading'[n].file]) + 2
      PROVE  \E t \in types' : t.file = reading'[n].file
    <2>1. CASE Onward(n)
        <3>1. n \in Frames /\ reading'[n].file = Opened(n) BY <2>1 DEF Onward, Same, Opened
        <3>2. reading[n] \in OpenFile /\ Opened(n) \in FilesRead
            BY <3>1, OnStack DEF Inv, FilesRead
        <3>3. text'[Opened(n)] = text[Opened(n)] BY <3>2, ImportsGrow
        <3>4. Len(text[Opened(n)]) \in Nat /\ reading[n].at \in Nat
            <4>1. text[Opened(n)] \in Seq(Item) BY <1>0, <3>2 DEF FilesTypeOK, FilesRead
            <4>2. Len(text[Opened(n)]) \in Nat BY <4>1
            <4> QED BY <3>2, <4>2 DEF OpenFile
        <3>5. CASE reading'[n].at = reading[n].at
            BY <1>0, <1>1, <3>1, <3>3, <3>5 DEF DeclaresInv
        <3>6. CASE n = Len(reading) /\ DeclareTypes
            <4>1. Opened(n) = Here.file BY <3>6 DEF Opened, Here
            <4> DEFINE d == [prefix |-> prefix, name |-> struct[Here.file], file |-> Here.file]
            <4>2. d \in types' /\ d.file = Here.file BY <3>6, TypesGrow
            <4> QED BY <3>1, <4>1, <4>2
        <3>7. CASE n = Len(reading) /\ reading'[n].at = reading[n].at + 1 /\ Here.at \in 1..Len(text[Here.file])
            <4>1. Here = reading[n] BY <3>7 DEF Here
            <4> QED BY <1>1, <3>1, <3>3, <3>4, <3>7, <4>1 DEF Opened
        <3> QED BY <2>1, <3>5, <3>6, <3>7 DEF Onward
    <2>2. CASE Opens(n)
        <3>1. reading'[n] \in OpenFile BY <1>0 DEF FilesTypeOK, Frames
        <3>2. Len(text'[reading'[n].file]) \in Nat BY <1>0, <3>1 DEF FilesTypeOK, OpenFile
        <3> QED BY <1>1, <2>2, <3>2 DEF Opens
    <2> QED BY <2>1, <2>2, StackStep
<1>2. ASSUME NEW f \in Finished' PROVE \E t \in types' : t.file = f
    <2>1. CASE f \in Finished BY <1>0, <2>1 DEF DeclaresInv
    <2>2. CASE f \notin Finished
        <3>1. EndOfFile /\ f = Here.file BY <1>2, <2>2, FinishedGrows
        <3>2. Len(reading) \in Frames /\ Here = reading[Len(reading)] BY <3>1, EndFacts DEF Inv, Marks
        <3>3. Here.at = Len(text[Here.file]) + 2 BY <3>1 DEF EndOfFile
        <3> QED BY <1>0, <3>1, <3>2, <3>3 DEF DeclaresInv, Opened
    <2> QED BY <2>1, <2>2
<1> QED BY <1>1, <1>2 DEF DeclaresInv, Opened

\* What a file has passed has registered the aliases of its headers.
SeenInv ==
    /\ \A n \in Frames : \A j \in 1..Len(text[Opened(n)]) : j < reading[n].at => Seen(text[Opened(n)][j])
    /\ \A f \in Finished : \A j \in 1..Len(text[f]) : Seen(text[f][j])

\* An import of a header is not passed without its alias.
LEMMA SeenStep == Inv /\ SeenInv /\ [ReadNext]_readVars => SeenInv'
<1> SUFFICES ASSUME Inv, SeenInv, [ReadNext]_readVars PROVE SeenInv' OBVIOUS
<1>0. FilesTypeOK /\ FilesTypeOK' BY InvStep DEF Inv, Marks
<1>1. \A i : Seen(i) => SeenNext(i) BY NamesKept DEF Seen, SeenNext
<1>2. ASSUME NEW n \in Frames', NEW j \in 1..Len(text'[reading'[n].file]), j < reading'[n].at
      PROVE  SeenNext(text'[reading'[n].file][j])
    <2>1. CASE Onward(n)
        <3>1. n \in Frames /\ reading'[n].file = Opened(n) BY <2>1 DEF Onward, Same, Opened
        <3>2. reading[n] \in OpenFile /\ Opened(n) \in FilesRead
            BY <3>1, OnStack DEF Inv, FilesRead
        <3>3. text'[Opened(n)] = text[Opened(n)] BY <3>2, ImportsGrow
        <3>4. Len(text[Opened(n)]) \in Nat /\ reading[n].at \in Nat /\ j \in Nat
            <4>1. text[Opened(n)] \in Seq(Item) BY <1>0, <3>2 DEF FilesTypeOK, FilesRead
            <4>2. Len(text[Opened(n)]) \in Nat BY <4>1
            <4>3. j \in Nat BY <1>2, <3>1, <3>3, <4>2
            <4> QED BY <3>2, <4>2, <4>3 DEF OpenFile
        <3>5. CASE j < reading[n].at
            BY <1>1, <1>2, <3>1, <3>3, <3>5 DEF SeenInv
        <3>6. CASE ~(j < reading[n].at)
            <4>1. n = Len(reading) /\ reading'[n].at = reading[n].at + 1
                BY <1>2, <2>1, <3>6 DEF Onward
            <4>2. Here = reading[n] /\ Opened(n) = Here.file BY <4>1 DEF Here, Opened
            <4>3. j = Here.at BY <1>2, <3>4, <3>6, <4>1, <4>2
            <4>4. ~DeclareTypes BY <1>2, <3>1, <3>3, <3>4, <4>2, <4>3 DEF DeclareTypes
            <4>5. SeenNext(text[Here.file][Here.at]) BY <2>1, <3>4, <4>1, <4>4 DEF Onward
            <4> QED BY <3>1, <3>3, <4>2, <4>3, <4>5
        <3> QED BY <3>5, <3>6
    <2>2. CASE Opens(n)
        BY <1>2, <2>2 DEF Opens
    <2> QED BY <2>1, <2>2, StackStep
<1>3. ASSUME NEW f \in Finished', NEW j \in 1..Len(text'[f]) PROVE SeenNext(text'[f][j])
    <2>1. CASE f \in Finished
        <3>1. text'[f] = text[f] BY <2>1, ImportsGrow DEF Finished
        <3> QED BY <1>1, <1>3, <2>1, <3>1 DEF SeenInv
    <2>2. CASE f \notin Finished
        <3>1. EndOfFile /\ f = Here.file BY <1>3, <2>2, FinishedGrows
        <3>2. Len(reading) \in Frames /\ Here = reading[Len(reading)] BY <3>1, EndFacts DEF Inv, Marks
        <3>3. Here.at = Len(text[Here.file]) + 2 BY <3>1 DEF EndOfFile
        <3>4. f \in FilesRead BY <3>1, <3>2, OnStack DEF Inv, Opened, FilesRead
        <3>5. text'[f] = text[f] BY <3>4, ImportsGrow
        <3>6. Len(text[f]) \in Nat BY <1>0, <3>4 DEF FilesTypeOK, FilesRead
        <3>7. j \in 1..Len(text[Opened(Len(reading))]) /\ j < reading[Len(reading)].at
            BY <1>3, <3>1, <3>2, <3>3, <3>5, <3>6 DEF Opened
        <3>8. Seen(text[Opened(Len(reading))][j]) BY <3>2, <3>7 DEF SeenInv
        <3> QED BY <1>1, <3>1, <3>2, <3>5, <3>8 DEF Opened
    <2> QED BY <2>1, <2>2
<1> QED BY <1>2, <1>3 DEF SeenInv, Opened, Seen, SeenNext

\* While bodies are parsed, only the std file is read.
LateInv ==
    /\ body.file \in Source => phase \in {"bodies", "done"}
    /\ phase = "bodies" => \A n \in Frames : Opened(n) = Std

\* A body is only parsed when all files are read, and then nothing but std is.
LEMMA LateStep == Inv /\ LateInv /\ [ReadNext]_readVars => LateInv'
<1> SUFFICES ASSUME Inv, LateInv, [ReadNext]_readVars PROVE LateInv' OBVIOUS
<1> USE DEF given, context, files, names, bodies
<1>1. body'.file \in Source => phase' \in {"bodies", "done"}
    <2>1. ASSUME NEW i \in Item, Import(i) PROVE body' = body /\ phase = "parse"
        BY <2>1 DEF Import, ImportAgain, Circular, ImportHeader, Open, Importing, AtItem
    <2>2. CASE ImplDrop
        BY <2>2 DEF ImplDrop, AtItem, LateInv
    <2>3. CASE EndOfFile
        <3>1. body' = body /\ (phase' = "bodies" \/ phase' = phase) BY <2>3 DEF EndOfFile
        <3> QED BY <3>1 DEF LateInv
    <2>4. CASE ReadExtra
        <3>1. body'.file = NoFile BY <2>4 DEF ReadExtra
        <3> QED BY <3>1, FileFacts
    <2>5. CASE DeclareTypes \/ ParseBody \/ LoopOverArray \/ Finish \/ UNCHANGED readVars
        BY <2>5 DEF DeclareTypes, Advance, ParseBody, LoopOverArray, Finish, readVars, LateInv
    <2> QED BY <2>1, <2>2, <2>3, <2>4, <2>5 DEF ReadNext, LateInv
<1>2. ASSUME phase' = "bodies", NEW n \in Frames' PROVE reading'[n].file = Std
    <2>1. CASE phase = "bodies"
        <3>1. CASE Onward(n) BY <2>1, <3>1 DEF Onward, Same, Opened, LateInv
        <3>2. ~ \E i \in Item : Open(i) BY <2>1 DEF Open, Importing, AtItem
        <3>3. CASE Opens(n) /\ ReadExtra
            <4>1. CASE extra \in imported
                <5>1. reading' = <<>> BY <3>3, <4>1 DEF ReadExtra
                <5>2. Len(reading') = 0 BY <5>1
                <5> QED BY <5>2 DEF Frames
            <4>2. CASE extra \notin imported BY <1>2, <3>3, <4>2 DEF ReadExtra
            <4> QED BY <4>1, <4>2
        <3> QED BY <3>1, <3>2, <3>3, StackStep DEF Opens
    <2>2. CASE phase # "bodies"
        <3>1. EndOfFile /\ Here.by = "root"
            BY <1>2, <2>2 DEF ReadNext, Import, ImportAgain, Circular, ImportHeader, Open, ImplDrop, AtItem,
                              Importing, DeclareTypes, Advance, EndOfFile, ParseBody, LoopOverArray, ReadExtra,
                              Finish, readVars
        <3>2. Len(reading) = 1 /\ Frames' = Frames \ {Len(reading)} BY <3>1, EndFacts DEF Inv, Marks
        <3> QED BY <3>2 DEF Frames
    <2> QED BY <2>1, <2>2
<1> QED BY <1>1, <1>2 DEF LateInv, Opened

-----------------------------------------------------------------------------
(* What a body finds *)

BindInv == /\ Inv /\ PrefixInv /\ TypesInv /\ BodiesInv /\ SelectInv /\ CycleInv
           /\ NamesInv /\ FramesInv /\ GivenInv /\ DeclaresInv /\ SeenInv /\ LateInv

\* The first state.
LEMMA BindInit == ReadInit => BindInv
<1> SUFFICES ASSUME ReadInit PROVE BindInv OBVIOUS
<1>1. Inv BY InitInv
<1>2. /\ types = {} /\ pending = <<>> /\ body.file = NoFile /\ selective = <<>> /\ modules = <<>>
      /\ prefix = NoPrefix /\ phase = "parse" /\ \A f \in File : prefixes[f] = NoPrefix
    BY DEF ReadInit
<1> DEFINE r == [file |-> Main, at |-> 1, by |-> "root", prefix |-> NoPrefix]
<1>3. reading = <<r>> /\ r.file = Main /\ r.by = "root" /\ r.at = 1 BY DEF ReadInit
<1> HIDE DEF r
<1>4. Len(reading) = 1 /\ Frames = {1} /\ reading[1] = r BY <1>3 DEF Frames
<1>5. FilesRead = {Main} BY FileFacts DEF ReadInit, FilesRead
<1>6. Finished = {} BY <1>3, <1>4, <1>5 DEF Finished, Opened
<1>7. Len(text[Main]) \in Nat BY <1>1, FileFacts DEF Inv, Marks, FilesTypeOK
<1>8. PrefixInv BY <1>2, <1>3, <1>4, FileFacts DEF PrefixInv, Opened, Prefixed, Current
<1>9. TypesInv /\ GivenInv BY <1>2 DEF TypesInv, GivenInv
<1>10. BodiesInv /\ LateInv BY <1>2, FileFacts DEF BodiesInv, LateInv
<1>11. SelectInv /\ NamesInv BY <1>2 DEF SelectInv, NamesInv
<1>12. CycleInv BY <1>6 DEF CycleInv
<1>13. FramesInv BY <1>3, <1>4 DEF FramesInv, Prefixed
<1>14. DeclaresInv BY <1>3, <1>4, <1>6, <1>7 DEF DeclaresInv, Opened
<1>15. SeenInv BY <1>3, <1>4, <1>6 DEF SeenInv, Opened
<1> QED BY <1>1, <1>8, <1>9, <1>10, <1>11, <1>12, <1>13, <1>14, <1>15 DEF BindInv

\* It is inductive.
LEMMA BindStep == BindInv /\ [ReadNext]_readVars => BindInv'
BY InvStep, PrefixStep, TypesStep, BodiesStep, SelectStep, CycleStep, NamesStep, FramesStep, GivenStep,
   DeclaresStep, SeenStep, LateStep DEF BindInv

\* When a body is parsed, every file that a finished file imports is finished.
LEMMA ImportsFinished ==
    ASSUME BindInv, body.file \in Source, NEW f \in Finished, NEW i \in Imports(f), i.file \in Source
    PROVE  i.file \in Finished
<1>1. FilesTypeOK /\ f \in FilesRead BY DEF BindInv, Inv, Marks, Finished
<1>2. PICK j \in 1..Len(text[f]) : text[f][j] = i /\ i.op # "drop" BY <1>1, ImportsAre
<1>3. CASE ~(turn = "extra" /\ i.file = extra)
    <2>1. Leads(f, i.file) BY <1>2, <1>3 DEF Leads
    <2> QED BY <2>1 DEF BindInv, CycleInv
<1>4. CASE turn = "extra" /\ i.file = extra
    <2>1. extra \in imported /\ extra \in Source \ {Main, Std}
        BY <1>1, <1>4, FileFacts DEF BindInv, Inv, Marks, CountInv, FilesTypeOK
    <2>2. reads[extra] > 0 BY <2>1 DEF BindInv, Inv, Marks, CountInv
    <2>3. \A n \in Frames : Opened(n) # extra
        <3>1. CASE phase = "bodies" BY <2>1, <3>1 DEF BindInv, LateInv
        <3>2. CASE phase = "done"
            <4>1. reading = <<>> BY <3>2 DEF BindInv, Inv, Marks, RootInv
            <4>2. Len(reading) = 0 BY <4>1
            <4> QED BY <4>2 DEF Frames
        <3> QED BY <3>1, <3>2 DEF BindInv, LateInv
    <2> QED BY <1>4, <2>1, <2>2, <2>3 DEF Finished, FilesRead
<1> QED BY <1>3, <1>4

\* So is its own file, if that imports anything; what is read then is not a module.
LEMMA BodyFinished ==
    ASSUME BindInv, body.file \in Source, NEW i \in Imports(body.file)
    PROVE  /\ body.file \in Finished
           /\ \A n \in Frames : Opened(n) = Std
<1>1. PICK t \in types : t.file = body.file BY DEF BindInv, BodiesInv, Declared
<1>2. body.file \in FilesRead /\ FilesTypeOK BY <1>1 DEF BindInv, TypesInv, FilesRead, Inv, Marks
<1>3. \A n \in Frames : Opened(n) = Std
    <2>1. CASE phase = "bodies" BY <2>1 DEF BindInv, LateInv
    <2>2. CASE phase = "done"
        <3>1. reading = <<>> BY <2>2 DEF BindInv, Inv, Marks, RootInv
        <3>2. Len(reading) = 0 BY <3>1
        <3> QED BY <3>2 DEF Frames
    <2> QED BY <2>1, <2>2 DEF BindInv, LateInv
<1>4. body.file # Std
    <2>1. text[Std] = <<>> BY DEF BindInv, Inv, PathInv
    <2>2. Len(text[Std]) = 0 BY <2>1
    <2> QED BY <1>2, <2>2, ImportsAre
<1> QED BY <1>2, <1>3, <1>4 DEF Finished

\* The type of a file whose name nothing else takes: it is found where it was declared.
LEMMA FoundAt ==
    ASSUME BindInv, NEW t \in types, Unshadowed(t.file)
    PROVE  /\ t.name = struct[t.file] /\ \A u \in types : u.name = t.name => u = t
           /\ \A ref : ref = <<t.prefix, t.name>> => Finds(ref, t.file)
<1>1. t.name = struct[t.file] BY DEF BindInv, TypesInv
<1>2. ASSUME NEW u \in types, u.name = t.name PROVE u = t
    <2>1. u.file \in FilesRead /\ u.name = struct[u.file] BY DEF BindInv, TypesInv, FilesRead
    <2>2. u.file = t.file BY <1>1, <1>2, <2>1 DEF Unshadowed
    <2> QED BY <2>2 DEF BindInv, TypesInv
<1>3. ASSUME NEW ref, ref = <<t.prefix, t.name>> PROVE Finds(ref, t.file)
    BY <1>2, <1>3 DEF Finds
<1> QED BY <1>1, <1>2, <1>3

\* It is found by its name alone from behind its own prefix, if it has none, and where the name
\* is selected.
LEMMA ResolvesTo ==
    ASSUME BindInv, NEW t \in types, Unshadowed(t.file), NEW p,
           p = t.prefix \/ t.prefix = NoPrefix \/ (p = NoPrefix /\ t.name \in DOMAIN selective)
    PROVE  Finds(Resolve(p, t.name), t.file)
<1> DEFINE s == t.name
<1>1. s = struct[t.file] /\ \A u \in types : u.name = s => u = t BY FoundAt
<1>2. CASE p = NoPrefix /\ s \in DOMAIN selective
    <2>1. Resolve(p, s) = selective[s] BY <1>2 DEF Resolve
    <2>2. \E a, b : selective[s] = <<a, b>> BY <1>2 DEF BindInv, Inv, Marks, FilesTypeOK
    <2>3. CASE \E u \in types : u.prefix = selective[s][1] /\ u.name = s /\ s = selective[s][2]
        <3>1. selective[s][1] = t.prefix /\ selective[s][2] = s BY <1>1, <2>3
        <3>2. selective[s] = <<t.prefix, s>> BY <2>2, <3>1
        <3> QED BY <2>1, <3>2, FoundAt
    <2>4. ASSUME NEW i \in Written, i.op = "only", i.local = s, prefixes[i.file] # NoPrefix,
                 selective[s] = <<prefixes[i.file], i.symbol>>
          PROVE  Finds(Resolve(p, s), t.file)
        <3>1. i.file = t.file /\ i.symbol = s BY <1>1, <2>4 DEF Unshadowed
        <3>2. prefixes[t.file] = t.prefix BY <2>4, <3>1 DEF BindInv, TypesInv
        <3> QED BY <2>1, <2>4, <3>1, <3>2, FoundAt
    <2> QED BY <1>2, <2>3, <2>4 DEF BindInv, SelectInv
<1>3. CASE ~(p = NoPrefix /\ s \in DOMAIN selective)
    <2>1. CASE t.prefix = NoPrefix
        <3>1. Resolve(p, s) = <<NoPrefix, s>> BY <1>3, <2>1 DEF Resolve
        <3> QED BY <2>1, <3>1, FoundAt
    <2>2. CASE t.prefix # NoPrefix
        <3>1. ~ \E u \in types : u.prefix = NoPrefix /\ u.name = s BY <1>1, <2>2
        <3>2. p = t.prefix BY <1>3, <2>2
        <3>3. Resolve(p, s) = <<p, s>> BY <1>3, <3>1, <3>2, <2>2 DEF Resolve
        <3> QED BY <3>2, <3>3, FoundAt
    <2> QED BY <2>1, <2>2
<1> QED BY <1>2, <1>3

\* An alias that nothing else takes names the file of its import.
LEMMA AliasNames ==
    ASSUME BindInv, NEW e \in FilesRead, NEW i \in Imports(e), i.op = "as", Unclaimed(i),
           i.alias \in DOMAIN modules
    PROVE  /\ modules[i.alias].file = i.file
           /\ i.file \in Source => modules[i.alias].base = prefixes[i.file]
<1>1. FilesTypeOK BY DEF BindInv, Inv, Marks
<1>2. PICK f \in FilesRead : \E j \in Imports(f) : Named(i.alias, f, j) BY DEF BindInv, NamesInv
<1>3. PICK j \in Imports(f) : Named(i.alias, f, j) BY <1>2
<1>4. j \in Written /\ j \in Item /\ i \in Item /\ j.op # "drop" BY <1>1, <1>3, ImportsAre
<1>5. f \in File /\ i.alias \in ModuleName BY <1>4, ItemType, FileFacts DEF FilesRead
<1>6. CASE j.op = "as" /\ i.alias = j.alias
    <2>1. j.file = i.file BY <1>4, <1>6 DEF Unclaimed
    <2> QED BY <1>3, <1>6, <2>1, NamesAssumption DEF Named
<1>7. CASE j.op = "plain" /\ j.file \in Source /\ i.alias = Base[j.file]
    BY <1>4, <1>7, ImportsAssumption DEF Unclaimed, ImportsAssumption
<1>8. CASE j.op = "as" /\ prefixes[f] # NoPrefix /\ i.alias = <<prefixes[f], j.alias>>
    <2>1. prefixes[f] \in Prefix BY <1>1, <1>5, <1>8 DEF FilesTypeOK
    <2>2. j.alias \in ModuleName BY <1>4, <1>8, ItemType
    <2>3. <<prefixes[f], j.alias>> \in Prefix \X ModuleName BY <2>1, <2>2
    <2> QED BY <1>5, <1>8, <2>3, NamesAssumption DEF NamesAssumption
<1> QED BY <1>3, <1>6, <1>7, <1>8 DEF Named

\* A body finds its own type by its name, unless another file declares or selects that name:
\* whatever is read between the declaration and the body, the prefix of the type is that of the
\* body, and what `{ ... }` or `*` put behind the name is the same type.
THEOREM OwnTypeFoundAlways == ReadSpec => []OwnTypeFound
<1>1. BindInv => OwnTypeFound
    <2> SUFFICES ASSUME BindInv, body.file \in Source, Unshadowed(body.file)
                 PROVE  Finds(Resolve(body.prefix, struct[body.file]), body.file)
        BY DEF OwnTypeFound
    <2>1. PICK t \in types : t.file = body.file /\ t.prefix = body.prefix
        BY DEF BindInv, BodiesInv, Declared
    <2>2. t.name = struct[body.file] BY <2>1, FoundAt
    <2> QED BY <2>1, <2>2, ResolvesTo
<1> QED BY <1>1, BindInit, BindStep, PTL DEF ReadSpec

\* What a body's file imports has been read to its end, and its type was given what the import
\* that opened it said.
LEMMA ImportedType ==
    ASSUME BindInv, body.file \in Source, NEW f \in Finished, NEW i \in Imports(f), i.file \in Module
    PROVE  i.file \in Finished /\ \E t \in types : t.file = i.file /\ Given(t)
<1>1. i.file \in Source BY DEF Source
<1>2. i.file \in Finished BY <1>1, ImportsFinished
<1>3. PICK t \in types : t.file = i.file BY <1>2 DEF BindInv, DeclaresInv
<1> QED BY <1>2, <1>3 DEF BindInv, GivenInv

\* If every import of its file is written alike, the driver opened it, or this import did.
LEMMA OpenedAlike ==
    ASSUME NEW t \in types, Given(t), NEW i, Alike(i), i.file = t.file
    PROVE  \/ t.file = extra /\ t.prefix = NoPrefix
           \/ Fits(t, i) /\ \E e \in FilesRead : i \in Imports(e) /\ Bound(e, i)
<1>1. ASSUME NEW e \in FilesRead, NEW k \in Imports(e), Fits(t, k) PROVE k = i
    <2>1. k \in Written BY DEF Written
    <2> QED BY <1>1, <2>1 DEF Fits, Alike
<1> QED BY <1>1 DEF Given

\* An import gives a body what it says (plain: the name itself; as: the alias; `{ ... }` and `*`:
\* the names that are selected), if all imports of the file are written alike.
THEOREM ImportsBindAlways == ReadSpec => []ImportsBind
<1>1. BindInv => ImportsBind
    <2> SUFFICES ASSUME BindInv, body.file \in Source, NEW i \in Imports(body.file),
                        i.file \in Module, Alike(i), Unclaimed(i), Unshadowed(i.file),
                        i.op \in {"only", "all"} => body.prefix = NoPrefix,
                        i.op \in {"only", "as"} => i.file # extra,
                        i.op = "only" => i.symbol = struct[i.file]
                 PROVE  Finds(Meant(i), i.file)
        BY DEF ImportsBind
    <2>1. body.file \in Finished /\ \A n \in Frames : Opened(n) = Std BY BodyFinished
    <2>2. FilesTypeOK /\ body.file \in FilesRead BY <2>1 DEF BindInv, Inv, Marks, Finished
    <2>3. i \in Item /\ i.op \in {"plain", "all", "as", "only"} /\ i.file # Std
        <3>1. i \in Item /\ i.op # "drop" BY <2>2, ImportsAre
        <3> QED BY <3>1, ItemType, ImportsAssumption DEF ImportsAssumption
    <2>4. PICK t \in types : t.file = i.file /\ Given(t) BY <2>1, ImportedType
    <2>5. t.name = struct[i.file] /\ \A ref : ref = <<t.prefix, t.name>> => Finds(ref, i.file)
        BY <2>4, FoundAt
    <2>6. /\ t.prefix = NoPrefix => Finds(Resolve(body.prefix, t.name), i.file)
          /\ body.prefix = NoPrefix /\ t.name \in DOMAIN selective => Finds(Resolve(body.prefix, t.name), i.file)
        BY <2>4, ResolvesTo
    <2>7. CASE t.file = extra /\ t.prefix = NoPrefix
        BY <2>3, <2>4, <2>5, <2>6, <2>7 DEF Meant
    <2>8. ASSUME Fits(t, i), NEW e \in FilesRead, i \in Imports(e), Bound(e, i)
          PROVE  Finds(Meant(i), i.file)
        <3>1. prefixes[t.file] # NoPrefix => t.prefix = prefixes[t.file] BY DEF BindInv, TypesInv
        <3>2. CASE i.op = "plain" BY <2>5, <2>6, <2>8, <3>2 DEF Fits, Meant
        <3>3. CASE i.op = "all"
            <4>1. \A n \in Frames : Opened(n) # t.file BY <2>1, <2>3, <2>4
            <4>2. t.name \in DOMAIN selective BY <2>8, <3>3, <4>1 DEF Fits
            <4> QED BY <2>5, <2>6, <3>3, <4>2 DEF Meant
        <3>4. CASE i.op = "as"
            <4>1. i.alias \in DOMAIN modules BY <2>8, <3>4 DEF Bound
            <4>2. modules[i.alias].base = prefixes[i.file] BY <2>2, <3>4, <4>1, AliasNames DEF Source
            <4>3. prefixes[i.file] = t.prefix BY <2>4, <2>8, <3>1, <3>4 DEF Fits, Prefixed
            <4>4. Meant(i) = <<t.prefix, t.name>> BY <2>5, <3>4, <4>1, <4>2, <4>3 DEF Meant, Through
            <4> QED BY <2>5, <4>4
        <3>5. CASE i.op = "only"
            <4>1. Selected(i.local) BY <2>8, <3>5 DEF Bound
            <4>2. PICK k \in Written : /\ k.op = "only" /\ k.local = i.local
                                       /\ selective[i.local] = <<prefixes[k.file], k.symbol>>
                BY <4>1 DEF Selected
            <4>3. k = i BY <3>5, <4>2 DEF Unclaimed
            <4>4. prefixes[i.file] = t.prefix BY <2>4, <2>8, <3>1, <3>5 DEF Fits, Prefixed
            <4>5. Meant(i) = selective[i.local] BY <3>5, <4>1 DEF Meant, Resolve, Selected
            <4>6. Meant(i) = <<t.prefix, t.name>> BY <2>5, <3>5, <4>2, <4>3, <4>4, <4>5
            <4> QED BY <2>5, <4>6
        <3> QED BY <2>3, <3>2, <3>3, <3>4, <3>5
    <2> QED BY <2>4, <2>7, <2>8, OpenedAlike
<1> QED BY <1>1, BindInit, BindStep, PTL DEF ReadSpec

\* Whoever imports a header by a name finds the header behind it, read or not by this import.
THEOREM HeaderAliasedAlways == ReadSpec => []HeaderAliased
<1>1. BindInv => HeaderAliased
    <2> SUFFICES ASSUME BindInv, body.file \in Source, NEW i \in Imports(body.file),
                        i.op = "as", i.file \in Header, Unclaimed(i)
                 PROVE  i.alias \in DOMAIN modules /\ modules[i.alias].file = i.file
        BY DEF HeaderAliased
    <2>1. body.file \in Finished BY BodyFinished
    <2>2. FilesTypeOK /\ body.file \in FilesRead BY <2>1 DEF BindInv, Inv, Marks, Finished
    <2>3. PICK j \in 1..Len(text[body.file]) : text[body.file][j] = i BY <2>2, ImportsAre
    <2>4. Seen(i) BY <2>1, <2>3 DEF BindInv, SeenInv
    <2>5. i.alias \in DOMAIN modules BY <2>4 DEF Seen
    <2> QED BY <2>2, <2>5, AliasNames
<1> QED BY <1>1, BindInit, BindStep, PTL DEF ReadSpec

\* Behind the alias of a file stands what that file exports, if the exporting import read it.
THEOREM ExportsBindAlways == ReadSpec => []ExportsBind
<1>1. BindInv /\ PrefixesDistinct => ExportsBind
    <2> SUFFICES ASSUME BindInv, PrefixesDistinct, body.file \in Source, NEW i \in Imports(body.file),
                        NEW j \in Imports(i.file),
                        i.op = "as", i.file \in Module \ {extra}, Alike(i), Unclaimed(i),
                        j.op = "as", j.export, j.file \in Module \ {extra}, Unshadowed(j.file),
                        \A f \in FilesRead \ {i.file} : \A k \in Imports(f) : k.file # j.file,
                        \A k \in Imports(i.file) :
                            k.file = j.file \/ (k.op = "as" /\ k.alias = j.alias) => k = j
                 PROVE  Finds(Through(<<modules[i.alias].base, j.alias>>, struct[j.file]), j.file)
        BY DEF ExportsBind
    <2> DEFINE P == prefixes[i.file]
               a == <<P, j.alias>>
    <2>1. body.file \in Finished BY BodyFinished
    <2>2. FilesTypeOK /\ body.file \in FilesRead BY <2>1 DEF BindInv, Inv, Marks, Finished
    \* The file that exports.
    <2>3. i.file \in Finished /\ i.file \in FilesRead BY <2>1, ImportedType DEF Finished
    <2>4. PICK u \in types : u.file = i.file /\ Given(u) BY <2>1, ImportedType
    <2>5. Fits(u, i) /\ \E e \in FilesRead : i \in Imports(e) /\ Bound(e, i) BY <2>4, OpenedAlike
    <2>6. P # NoPrefix BY <2>4, <2>5 DEF Fits, Prefixed
    <2>7. i.alias \in DOMAIN modules BY <2>5 DEF Bound
    <2>8. modules[i.alias].base = P BY <2>2, <2>7, AliasNames DEF Source
    \* The file that is exported.
    <2>9. PICK t \in types : t.file = j.file /\ Given(t) BY <2>3, ImportedType
    <2>10. PICK e \in FilesRead : \E k \in Imports(e) : Fits(t, k) /\ Bound(e, k) BY <2>9 DEF Given
    <2>11. PICK k \in Imports(e) : Fits(t, k) /\ Bound(e, k) BY <2>10
    <2>12. e = i.file /\ k = j BY <2>9, <2>11 DEF Fits
    <2>13. prefixes[t.file] # NoPrefix /\ t.prefix = prefixes[t.file]
        BY <2>11, <2>12 DEF Fits, Prefixed, BindInv, TypesInv
    <2>14. a \in DOMAIN modules BY <2>6, <2>11, <2>12 DEF Bound
    \* Nobody else has registered a name behind the prefix.
    <2>15. PICK e2 \in FilesRead : \E k2 \in Imports(e2) : Named(a, e2, k2)
        BY <2>14 DEF BindInv, NamesInv
    <2>16. PICK k2 \in Imports(e2) : Named(a, e2, k2) BY <2>15
    <2>17. a \in Prefix \X ModuleName /\ a \notin ModuleName
        <3>1. j \in Item BY <2>2, <2>3, ImportsAre
        <3>2. j.alias \in ModuleName BY <3>1, ItemType
        <3>3. i.file \in File BY DEF File, Source
        <3>4. P \in Prefix BY <2>2, <2>6, <3>3 DEF FilesTypeOK
        <3> QED BY <3>2, <3>4, NamesAssumption DEF NamesAssumption
    <2>18. k2 \in Item BY <2>2, <2>16, ImportsAre
    <2>19. ~(k2.op = "as" /\ a = k2.alias) /\ ~(k2.op = "plain" /\ k2.file \in Source /\ a = Base[k2.file])
        BY <2>17, <2>18, ItemType, FileFacts
    <2>20. /\ k2.op = "as" /\ prefixes[e2] = P /\ k2.alias = j.alias
           /\ modules[a].file = k2.file /\ modules[a].base = prefixes[k2.file]
        BY <2>16, <2>19 DEF Named
    <2>21. e2 = i.file
        <3>1. e2 \in File /\ i.file \in File BY FileFacts DEF File, Source, FilesRead
        <3> QED BY <2>6, <2>20, <3>1 DEF PrefixesDistinct
    <2>22. k2 = j BY <2>16, <2>20, <2>21
    <2>23. Through(a, struct[j.file]) = <<t.prefix, struct[j.file]>>
        BY <2>9, <2>13, <2>14, <2>20, <2>22 DEF Through
    <2>24. Finds(Through(a, struct[j.file]), j.file) BY <2>9, <2>23, FoundAt
    <2> QED BY <2>8, <2>24
<1> QED BY <1>1, BindInit, BindStep, PrefixesDistinctAlways, PTL DEF ReadSpec
=============================================================================
