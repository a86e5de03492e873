--------------------------- MODULE Structs_proof ---------------------------
(***************************************************************************)
(* Ownership reaches every struct around an owner, and every type is       *)
(* defined once and behind its parts: for any number of types, declared    *)
(* and used in one another in any way.                                     *)
(***************************************************************************)
EXTENDS Structs, FiniteSetTheorems, TLAPS

Pcs == {"parse", "propagate", "fix", "sort", "rest", "done"}

-----------------------------------------------------------------------------
(* The lists of types *)

\* The members of two lists, one behind the other.
LEMMA MembersConcat ==
    ASSUME NEW s \in Seq(Type), NEW t \in Seq(Type)
    PROVE  s \o t \in Seq(Type) /\ Members(s \o t) = Members(s) \cup Members(t)
<1>1. /\ s \o t \in Seq(Type) /\ Len(s \o t) = Len(s) + Len(t)
      /\ Len(s) \in Nat /\ Len(t) \in Nat
      /\ \A i \in 1..Len(s) : (s \o t)[i] = s[i]
      /\ \A i \in 1..Len(t) : (s \o t)[Len(s) + i] = t[i]
  OBVIOUS
<1>2. ASSUME NEW x \in Members(s \o t) PROVE x \in Members(s) \cup Members(t)
  <2>1. PICK i \in 1..(Len(s) + Len(t)) : x = (s \o t)[i]
    BY <1>1 DEF Members
  <2>2. CASE i <= Len(s)
    <3>1. i \in 1..Len(s)
      BY <2>2, <1>1
    <3> QED
      BY <3>1, <2>1, <1>1 DEF Members
  <2>3. CASE ~(i <= Len(s))
    <3>1. i - Len(s) \in 1..Len(t) /\ i = Len(s) + (i - Len(s))
      BY <2>3, <1>1
    <3> QED
      BY <3>1, <2>1, <1>1 DEF Members
  <2> QED
    BY <2>2, <2>3
<1>3. ASSUME NEW x \in Members(s) PROVE x \in Members(s \o t)
  <2>1. PICK i \in 1..Len(s) : x = s[i]
    BY DEF Members
  <2>2. i \in 1..Len(s \o t)
    BY <1>1
  <2> QED
    BY <2>1, <2>2, <1>1 DEF Members
<1>4. ASSUME NEW x \in Members(t) PROVE x \in Members(s \o t)
  <2>1. PICK i \in 1..Len(t) : x = t[i]
    BY DEF Members
  <2>2. Len(s) + i \in 1..Len(s \o t)
    BY <1>1
  <2> QED
    BY <2>1, <2>2, <1>1 DEF Members
<1> QED
  BY <1>1, <1>2, <1>3, <1>4

\* The members of a list with one more.
LEMMA MembersAppend ==
    ASSUME NEW s \in Seq(Type), NEW t \in Type
    PROVE  /\ Append(s, t) \in Seq(Type) /\ Len(Append(s, t)) = Len(s) + 1
           /\ Append(s, t)[Len(s) + 1] = t
           /\ \A i \in 1..Len(s) : Append(s, t)[i] = s[i]
           /\ Members(Append(s, t)) = Members(s) \cup {t}
<1>1. /\ Append(s, t) \in Seq(Type) /\ Len(Append(s, t)) = Len(s) + 1
      /\ Append(s, t)[Len(s) + 1] = t
      /\ \A i \in 1..Len(s) : Append(s, t)[i] = s[i]
      /\ Len(s) \in Nat
  OBVIOUS
<1>2. 1..(Len(s) + 1) = (1..Len(s)) \cup {Len(s) + 1}
  BY <1>1
<1>3. Members(Append(s, t)) = {Append(s, t)[i] : i \in (1..Len(s)) \cup {Len(s) + 1}}
  BY <1>1, <1>2 DEF Members
<1> QED
  BY <1>1, <1>3 DEF Members

\* The lists hold the declared types.
LEMMA Lists ==
    ASSUME TypeOK
    PROVE  /\ \A k \in Kind : list[k] \in Seq(Type) /\ Members(list[k]) \subseteq Declared
           /\ Declared = (Members(list["struct"]) \cup Members(list["instance"]))
                            \cup (Members(list["enum"]) \cup Members(list["tuple"]))
           /\ Declared \subseteq Type
           /\ Scanned \in Seq(Type) /\ Len(Scanned) \in Nat
           /\ Members(Scanned) = Members(list["struct"]) \cup Members(list["instance"])
           /\ Nodes \in Seq(Type) /\ Len(Nodes) \in Nat
           /\ Members(Nodes) = Declared
<1>1. \A k \in Kind : list[k] \in Seq(Type)
  BY DEF TypeOK
<1>2. /\ list["struct"] \in Seq(Type) /\ list["instance"] \in Seq(Type)
      /\ list["enum"] \in Seq(Type) /\ list["tuple"] \in Seq(Type)
  BY <1>1 DEF Kind
<1>3. \A k \in Kind : Members(list[k]) \subseteq Declared
  BY DEF Declared
<1>4. Declared = (Members(list["struct"]) \cup Members(list["instance"]))
                    \cup (Members(list["enum"]) \cup Members(list["tuple"]))
  BY DEF Declared, Kind
<1>5. ASSUME NEW s \in Seq(Type) PROVE Members(s) \subseteq Type
  BY DEF Members
<1>6. Declared \subseteq Type
  BY <1>2, <1>4, <1>5
<1>7. /\ Scanned \in Seq(Type)
      /\ Members(Scanned) = Members(list["struct"]) \cup Members(list["instance"])
  BY <1>2, MembersConcat DEF Scanned
<1>8. LET u == list["instance"] \o list["struct"]
          v == u \o list["enum"]
      IN  /\ u \in Seq(Type) /\ Members(u) = Members(list["instance"]) \cup Members(list["struct"])
          /\ v \in Seq(Type) /\ Members(v) = Members(u) \cup Members(list["enum"])
          /\ v \o list["tuple"] \in Seq(Type)
          /\ Members(v \o list["tuple"]) = Members(v) \cup Members(list["tuple"])
  BY <1>2, MembersConcat
<1>9. Nodes \in Seq(Type) /\ Members(Nodes) = Declared
  BY <1>8, <1>4 DEF Nodes
<1>10. Len(Scanned) \in Nat /\ Len(Nodes) \in Nat
  BY <1>7, <1>9
<1> QED
  BY <1>1, <1>3, <1>4, <1>6, <1>7, <1>9, <1>10

-----------------------------------------------------------------------------
(* Ownership: the inductive invariant *)

\* Nothing is left to do for s.
Settled(s) == s \in hasDrop \cup untyped \/ (s \notin holders /\ \A t \in hasDrop : ~InStruct(s, t))

\* What has been marked can be found to own something, and what the walk over the structs has
\* passed without a change is marked if it does.
Found(C) == Closed(C, impls \cup (holders \ untyped), Typed)

Marks ==
    /\ impls \subseteq hasDrop /\ hasDrop \cap untyped = {}
    /\ pc = "parse" => hasDrop \subseteq impls
    /\ impls \cup untyped \subseteq Declared
    /\ \A C \in SUBSET Type : Found(C) => hasDrop \subseteq C

Walk ==
    /\ holders \subseteq Members(Scanned)
    /\ pc = "propagate" /\ ~changed => \A i \in 1..Len(Scanned) : i < at => Settled(Scanned[i])
    /\ pc \notin {"parse", "propagate"} => \A s \in Members(Scanned) : Settled(s)

References ==
    /\ \A r \in refs : r[2] \in hasDrop
    /\ pc \in {"sort", "rest", "done"} =>
           \A s \in Members(Scanned) \cup {Func}, t \in hasDrop : Refers(s, t) => <<s, t>> \in refs

\* Owners have glue.
Glued == DropKinds \subseteq {"struct", "instance"} => hasDrop \subseteq Members(Scanned)

DropInv == Marks /\ Walk /\ References /\ Glued

\* The types at the start.
LEMMA TypeInit == Init => TypeOK
<1> SUFFICES ASSUME Init PROVE TypeOK
  OBVIOUS
<1>1. list \in [Kind -> Seq(Type)]
  BY DEF Init
<1>2. uses \in [Type -> SUBSET Use]
  BY DEF Init
<1>3. changed \in BOOLEAN
  BY DEF Init
<1>4. at \in Nat \ {0} /\ rounds \in Nat
  BY DEF Init
<1>5. order \in Seq(Type)
  BY DEF Init
<1> QED
  BY <1>1, <1>2, <1>3, <1>4, <1>5 DEF Init, TypeOK

\* Every step keeps the types.
LEMMA TypeStep == TypeOK /\ [Next]_vars => TypeOK'
<1> SUFFICES ASSUME TypeOK, [Next]_vars PROVE TypeOK'
  OBVIOUS
<1> USE DEF TypeOK
<1>1. ASSUME NEW t \in Type, NEW k \in Kind, NEW us \in SUBSET Use, NEW has,
             Declare(t, k, us, has)
      PROVE  TypeOK'
  <2>1. <<t>> \in Seq(Type) /\ list[k] \in Seq(Type)
    OBVIOUS
  <2>2. <<t>> \o list[k] \in Seq(Type)
    BY <2>1
  <2>3. list' \in [Kind -> Seq(Type)]
    BY <2>2, <1>1 DEF Declare
  <2>4. uses' \in [Type -> SUBSET Use]
    BY <1>1 DEF Declare
  <2>5. /\ holders' \subseteq Type /\ impls' \subseteq Type /\ missed' \subseteq Type
        /\ copies' \subseteq Type /\ untyped' \subseteq Type /\ hasDrop' \subseteq Type
    BY <1>1 DEF Declare, With
  <2> QED
    BY <2>3, <2>4, <2>5, <1>1 DEF Declare
<1>2. CASE Parse
  <2>1. PICK us \in Affordable, t \in Type \ Declared, k \in Kind :
            \E has \in Traits(k) : Declare(t, k, us, has)
    BY <1>2 DEF Parse
  <2>2. us \in SUBSET Use
    BY DEF Affordable, FewUses
  <2> QED
    BY <2>1, <2>2, <1>1
<1>3. CASE ParseEnds
  <2>1. UNCHANGED <<list, uses, holders, impls, missed, copies, untyped, hasDrop, refs, order>>
    BY <1>3 DEF ParseEnds, program
  <2>2. pc' \in Pcs
    BY <1>3 DEF ParseEnds, Pcs
  <2>3. at' \in Nat \ {0} /\ rounds' \in Nat
    BY <1>3 DEF ParseEnds
  <2>4. changed' \in BOOLEAN
    BY <1>3 DEF ParseEnds
  <2> QED
    BY <2>1, <2>2, <2>3, <2>4 DEF Pcs
<1>4. CASE Visit
  <2>1. at <= Len(Scanned) /\ Scanned[at] \in Type
    BY <1>4, Lists DEF Visit
  <2>2. hasDrop' \in SUBSET (hasDrop \cup {Scanned[at]})
    BY <1>4 DEF Visit
  <2>3. refs' \subseteq refs \cup ({Scanned[at]} \X hasDrop)
    BY <1>4 DEF Visit
  <2>4. at' \in Nat \ {0}
    BY <1>4 DEF Visit, Advance
  <2>8. changed' \in BOOLEAN
    BY <1>4 DEF Visit
  <2>5. UNCHANGED <<list, uses, holders, impls, missed, copies, untyped, pc, rounds, order>>
    BY <1>4 DEF Visit, Advance, program
  <2>6. hasDrop' \subseteq Type
    BY <2>1, <2>2
  <2>7. refs' \subseteq (Type \cup {Func}) \X Type
    <3>1. {Scanned[at]} \X hasDrop \subseteq (Type \cup {Func}) \X Type
      BY <2>1
    <3> QED
      BY <3>1, <2>3
  <2> QED
    BY <2>4, <2>5, <2>6, <2>7, <2>8
<1>5. CASE PassEnds
  <2>1. UNCHANGED <<list, uses, holders, impls, missed, copies, untyped, hasDrop, refs, order>>
    BY <1>5 DEF PassEnds, program
  <2>2. pc' \in Pcs
    BY <1>5 DEF PassEnds, Pcs
  <2>3. at' \in Nat \ {0} /\ rounds' \in Nat
    BY <1>5 DEF PassEnds
  <2>4. changed' \in BOOLEAN
    BY <1>5 DEF PassEnds
  <2> QED
    BY <2>1, <2>2, <2>3, <2>4 DEF Pcs
<1>6. CASE FixRefs
  <2>1. Members(Scanned) \subseteq Type
    BY Lists
  <2>2. (Members(Scanned) \cup {Func}) \X hasDrop \subseteq (Type \cup {Func}) \X Type
    BY <2>1
  <2>3. refs' \subseteq (Type \cup {Func}) \X Type
    BY <2>2, <1>6 DEF FixRefs
  <2>4. UNCHANGED <<list, uses, holders, impls, missed, copies, untyped, hasDrop, rounds, order>>
    BY <1>6 DEF FixRefs, program
  <2>5. pc' \in Pcs /\ at' \in Nat \ {0}
    BY <1>6 DEF FixRefs, Pcs
  <2>6. changed' \in BOOLEAN
    BY <1>6 DEF FixRefs
  <2> QED
    BY <2>3, <2>4, <2>5, <2>6 DEF Pcs
<1>7. CASE SortVisit
  <2>1. Nodes[at] \in Type
    BY <1>7, Lists DEF SortVisit
  <2>6. order' = order \/ order' = Append(order, Nodes[at])
    BY <1>7 DEF SortVisit
  <2>7. order \in Seq(Type) => Append(order, Nodes[at]) \in Seq(Type)
    BY <2>1, MembersAppend
  <2>2. order' \in Seq(Type)
    BY <2>6, <2>7
  <2>3. UNCHANGED <<list, uses, holders, impls, missed, copies, untyped, hasDrop, refs, pc, rounds>>
    BY <1>7 DEF SortVisit, program
  <2>4. at' \in Nat \ {0}
    BY <1>7 DEF SortVisit
  <2>5. changed' \in BOOLEAN
    BY <1>7 DEF SortVisit
  <2> QED
    BY <2>2, <2>3, <2>4, <2>5
<1>8. CASE SortPassEnds
  <2>1. UNCHANGED <<list, uses, holders, impls, missed, copies, untyped, hasDrop, refs, order>>
    BY <1>8 DEF SortPassEnds, program
  <2>2. pc' \in Pcs
    BY <1>8 DEF SortPassEnds, Pcs
  <2>3. at' \in Nat \ {0} /\ rounds' \in Nat
    BY <1>8 DEF SortPassEnds
  <2>4. changed' \in BOOLEAN
    BY <1>8 DEF SortPassEnds
  <2> QED
    BY <2>1, <2>2, <2>3, <2>4 DEF Pcs
<1>9. CASE Rest
  <2>1. Nodes[at] \in Type
    BY <1>9, Lists DEF Rest
  <2>2. order' \in Seq(Type)
    BY <1>9, <2>1, MembersAppend DEF Rest
  <2> QED
    BY <2>2, <1>9 DEF Rest, program
<1>10. CASE RestEnds
  <2>1. UNCHANGED <<list, uses, holders, impls, missed, copies, untyped, hasDrop, refs, order>>
    BY <1>10 DEF RestEnds, program
  <2>2. pc' \in Pcs
    BY <1>10 DEF RestEnds, Pcs
  <2>3. at' \in Nat \ {0} /\ rounds' \in Nat
    BY <1>10 DEF RestEnds
  <2>4. changed' \in BOOLEAN
    BY <1>10 DEF RestEnds
  <2> QED
    BY <2>1, <2>2, <2>3, <2>4 DEF Pcs
<1>11. CASE UNCHANGED vars
  BY <1>11 DEF vars, program
<1> QED
  BY <1>2, <1>3, <1>4, <1>5, <1>6, <1>7, <1>8, <1>9, <1>10, <1>11 DEF Next, Step

\* TypeOK: the lists, the marks and the order keep their types in every phase.
THEOREM TypeCorrect == Spec => []TypeOK
<1>1. Init => TypeOK
  BY TypeInit
<1>2. TypeOK /\ [Next]_vars => TypeOK'
  BY TypeStep
<1> QED
  BY <1>1, <1>2, PTL DEF Spec

-----------------------------------------------------------------------------
(* Ownership: the steps *)

\* Nothing is marked at the start.
LEMMA DropInit == Init => DropInv
<1> SUFFICES ASSUME Init PROVE DropInv
  OBVIOUS
<1>1. /\ impls = {} /\ holders = {} /\ untyped = {} /\ hasDrop = {} /\ refs = {}
      /\ pc = "parse"
  BY DEF Init
<1>2. Marks
  BY <1>1 DEF Marks
<1>3. Walk
  BY <1>1 DEF Walk
<1>4. References
  BY <1>1 DEF References
<1>5. Glued
  BY <1>1 DEF Glued
<1> QED
  BY <1>2, <1>3, <1>4, <1>5 DEF DropInv

\* propagate_drop_traits walks the structs and the instances.
LEMMA ScannedParts ==
    TypeOK => Members(Scanned) = Members(list["struct"]) \cup Members(list["instance"])
BY Lists

\* A new type is at the head of its list, and nothing leaves a list.
LEMMA Listed ==
    ASSUME TypeOK, TypeOK', NEW t \in Type, NEW k \in Kind,
           list' = [list EXCEPT ![k] = <<t>> \o @]
    PROVE  /\ Members(Scanned) \subseteq Members(Scanned)'
           /\ k \in {"struct", "instance"} => t \in Members(Scanned)'
           /\ Declared \cup {t} \subseteq Declared'
<1>1. list[k] \in Seq(Type) /\ <<t>> \in Seq(Type)
  BY DEF TypeOK
<1>2. Members(<<t>>) = {t}
  BY DEF Members
<1>3. Members(<<t>> \o list[k]) = {t} \cup Members(list[k])
  BY <1>1, <1>2, MembersConcat
<1>4. \A j \in Kind : list'[j] = IF j = k THEN <<t>> \o list[k] ELSE list[j]
  BY DEF TypeOK
<1>5. \A j \in Kind : Members(list[j]) \subseteq Members(list'[j])
  BY <1>3, <1>4
<1>6. t \in Members(list'[k])
  BY <1>3, <1>4
<1>7. "struct" \in Kind /\ "instance" \in Kind
  BY DEF Kind
<1>8. Members(Scanned) = Members(list["struct"]) \cup Members(list["instance"])
  BY ScannedParts
<1>9. (TypeOK => Members(Scanned) = Members(list["struct"]) \cup Members(list["instance"]))'
  BY ScannedParts, PTL
<1>10. Members(Scanned)' = Members(list'["struct"]) \cup Members(list'["instance"])
  BY <1>9
<1>11. Declared \cup {t} \subseteq Declared'
  BY <1>5, <1>6 DEF Declared
<1> QED
  BY <1>5, <1>6, <1>7, <1>8, <1>10, <1>11

\* What is said of the program does not change after parsing.
LEMMA SameProgram ==
    ASSUME UNCHANGED program
    PROVE  /\ UNCHANGED <<list, uses, holders, impls, missed, copies, untyped>>
           /\ Scanned' = Scanned /\ Members(Scanned)' = Members(Scanned) /\ Declared' = Declared
           /\ \A x, y : InStruct(x, y)' = InStruct(x, y) /\ Refers(x, y)' = Refers(x, y)
           /\ \A C : Found(C)' = Found(C)
<1>1. UNCHANGED <<list, uses, holders, impls, missed, copies, untyped>>
  BY DEF program
<1>2. Scanned' = Scanned /\ Declared' = Declared
  BY <1>1 DEF Scanned, Declared, Members
<1>3. Members(Scanned)' = Members(Scanned)
  BY <1>2 DEF Members
<1>4. \A x, y : InStruct(x, y)' = InStruct(x, y) /\ Refers(x, y)' = Refers(x, y)
  BY <1>1, <1>2 DEF InStruct, Refers
<1>5. \A C : Found(C)' = Found(C)
  BY <1>1, <1>3, <1>4 DEF Found, Closed, Typed
<1> QED
  BY <1>1, <1>2, <1>3, <1>4, <1>5

\* Parsing a type marks it only if it owns something by itself.
LEMMA DeclareDrop ==
    ASSUME TypeOK, TypeOK', DropInv, pc = "parse", NEW t \in Type, NEW k \in Kind, NEW us,
           NEW has \in Traits(k), Declare(t, k, us, has)
    PROVE  DropInv'
<1>1. list' = [list EXCEPT ![k] = <<t>> \o @]
  BY DEF Declare
<1>2. /\ Members(Scanned) \subseteq Members(Scanned)'
      /\ k \in {"struct", "instance"} => t \in Members(Scanned)'
      /\ Declared \cup {t} \subseteq Declared'
  BY <1>1, Listed
<1>3. pc' = "parse" /\ refs' = refs
  BY DEF Declare
<1>4. /\ "holds" \in has => k \in {"struct", "instance"}
      /\ "impl" \in has => k \in DropKinds /\ "several" \notin has
  BY DEF Traits, May
<1>5. hasDrop = impls /\ impls \cap untyped = {} /\ t \notin Declared
  BY DEF DropInv, Marks, Declare
<1>6. untyped \subseteq Declared /\ impls \subseteq Declared
  BY DEF DropInv, Marks
<1>7. /\ impls' = With(impls, t, "impl" \in has) /\ hasDrop' = With(hasDrop, t, "impl" \in has)
      /\ untyped' = With(untyped, t, "several" \in has)
      /\ holders' = With(holders, t, "holds" \in has)
  BY DEF Declare
<1>8. Marks'
  <2>1. hasDrop' = impls'
    BY <1>5, <1>7 DEF With
  <2>2. impls' \cap untyped' = {}
    BY <1>4, <1>5, <1>6, <1>7 DEF With
  <2>3. impls' \cup untyped' \subseteq Declared'
    BY <1>2, <1>6, <1>7 DEF With
  <2> QED
    BY <2>1, <2>2, <2>3 DEF Marks, Found, Closed
<1>9. Walk'
  <2>1. holders \subseteq Members(Scanned)
    BY DEF DropInv, Walk
  <2>2. holders' \subseteq Members(Scanned)'
    BY <2>1, <1>2, <1>4, <1>7 DEF With
  <2> QED
    BY <2>2, <1>3 DEF Walk
<1>10. References'
  <2>1. hasDrop \subseteq hasDrop'
    BY <1>7 DEF With
  <2> QED
    BY <2>1, <1>3 DEF DropInv, References
<1>11. Glued'
  BY <1>2, <1>4, <1>7 DEF With, DropInv, Glued
<1> QED
  BY <1>8, <1>9, <1>10, <1>11 DEF DropInv

\* What a visit does: it marks a struct that owns something, or there was nothing to do.
LEMMA Visited ==
    ASSUME TypeOK, Visit
    PROVE  LET s == Scanned[at]
           IN  /\ s \in Members(Scanned)
               /\ \/ /\ hasDrop' = hasDrop \cup {s} /\ changed' = TRUE /\ s \notin untyped
                     /\ s \in holders \/ \E t \in hasDrop : InStruct(s, t)
                     /\ \A r \in refs' \ refs : r[2] \in hasDrop
                  \/ /\ hasDrop' = hasDrop /\ changed' = changed /\ refs' = refs
                     /\ Settled(s)
<1> DEFINE s == Scanned[at]
           parts == {t \in hasDrop : InStruct(s, t)}
<1>1. s \in Members(Scanned)
  BY Lists DEF Visit, Members, TypeOK
<1>2. CASE /\ s \notin hasDrop \cup untyped /\ s \in holders
           /\ hasDrop' = hasDrop \cup {s} /\ changed' = TRUE /\ UNCHANGED refs
  BY <1>1, <1>2
<1>3. CASE /\ s \notin hasDrop \cup untyped
           /\ \E t \in parts : refs' = refs \cup {<<s, t>>}
           /\ hasDrop' = hasDrop \cup {s} /\ changed' = TRUE
  <2>1. PICK t \in parts : refs' = refs \cup {<<s, t>>}
    BY <1>3
  <2>2. t \in hasDrop /\ InStruct(s, t)
    OBVIOUS
  <2>3. \A r \in refs' \ refs : r[2] \in hasDrop
    BY <2>1, <2>2
  <2> QED
    BY <1>1, <1>3, <2>2, <2>3
<1>4. CASE /\ s \in hasDrop \cup untyped \/ (s \notin holders /\ parts = {})
           /\ UNCHANGED <<hasDrop, refs, changed>>
  <2>1. Settled(s)
    BY <1>4 DEF Settled
  <2> QED
    BY <1>1, <1>4, <2>1
<1> QED
  BY <1>2, <1>3, <1>4 DEF Visit

\* The walk marks a struct only for an owner in its fields.
LEMMA VisitDrop == ASSUME TypeOK, DropInv, Visit PROVE DropInv'
<1> DEFINE s == Scanned[at]
<1>1. s \in Members(Scanned)
  BY Visited
<1>2. /\ UNCHANGED program /\ pc' = pc /\ at' = at + 1 /\ pc = "propagate" /\ at \in Nat
  BY DEF Visit, Advance, TypeOK
<1>3. /\ UNCHANGED <<list, uses, holders, impls, missed, copies, untyped>>
      /\ Scanned' = Scanned /\ Members(Scanned)' = Members(Scanned) /\ Declared' = Declared
      /\ \A x, y : InStruct(x, y)' = InStruct(x, y) /\ Refers(x, y)' = Refers(x, y)
      /\ \A C : Found(C)' = Found(C)
  BY <1>2, SameProgram
<1>4. CASE /\ hasDrop' = hasDrop \cup {s} /\ changed' = TRUE /\ s \notin untyped
           /\ s \in holders \/ \E t \in hasDrop : InStruct(s, t)
           /\ \A r \in refs' \ refs : r[2] \in hasDrop
  <2>1. Marks'
    <3>1. ASSUME NEW C \in SUBSET Type, Found(C) PROVE s \in C
      <4>1. hasDrop \subseteq C
        BY <3>1 DEF DropInv, Marks
      <4>2. s \in Typed
        BY <1>1, <1>4 DEF Typed
      <4> QED
        BY <1>4, <3>1, <4>1, <4>2 DEF Found, Closed
    <3>2. Marks
      BY DEF DropInv
    <3> QED
      BY <3>1, <3>2, <1>2, <1>3, <1>4 DEF Marks
  <2>2. Walk'
    BY <1>2, <1>3, <1>4 DEF DropInv, Walk
  <2>3. References'
    BY <1>2, <1>4 DEF DropInv, References
  <2>4. Glued'
    BY <1>1, <1>3, <1>4 DEF DropInv, Glued
  <2> QED
    BY <2>1, <2>2, <2>3, <2>4 DEF DropInv
<1>5. CASE hasDrop' = hasDrop /\ changed' = changed /\ refs' = refs /\ Settled(s)
  <2>1. Marks'
    BY <1>2, <1>3, <1>5 DEF DropInv, Marks
  <2>2. \A x : Settled(x)' = Settled(x)
    BY <1>3, <1>5 DEF Settled
  <2>3. ASSUME ~changed, NEW i \in 1..Len(Scanned), i < at + 1 PROVE Settled(Scanned[i])
    <3>1. i < at \/ i = at
      BY <1>2, <2>3
    <3> QED
      BY <3>1, <2>3, <1>2, <1>5 DEF DropInv, Walk
  <2>4. Walk'
    BY <2>2, <2>3, <1>2, <1>3, <1>5 DEF DropInv, Walk
  <2>5. References'
    BY <1>2, <1>5 DEF DropInv, References
  <2>6. Glued'
    BY <1>3, <1>5 DEF DropInv, Glued
  <2> QED
    BY <2>1, <2>4, <2>5, <2>6 DEF DropInv
<1> QED
  BY <1>4, <1>5, Visited

\* Steps that only move the program counter on, when the walk is over or has not begun.
LEMMA MoveOn ==
    ASSUME DropInv, UNCHANGED <<program, hasDrop, refs>>, pc' \in Pcs,
           pc' # "parse" \/ pc = "parse",
           pc' = "propagate" => at' = 1,
           pc' \notin {"parse", "propagate"} => \A s \in Members(Scanned) : Settled(s),
           pc' \in {"sort", "rest", "done"} => pc \in {"sort", "rest", "done"}
    PROVE  DropInv'
<1>1. /\ UNCHANGED <<list, uses, holders, impls, missed, copies, untyped>>
      /\ Scanned' = Scanned /\ Members(Scanned)' = Members(Scanned) /\ Declared' = Declared
      /\ \A x, y : InStruct(x, y)' = InStruct(x, y) /\ Refers(x, y)' = Refers(x, y)
      /\ \A C : Found(C)' = Found(C)
  BY SameProgram
<1>2. Marks'
  BY <1>1 DEF DropInv, Marks
<1>3. Walk'
  <2>1. \A s : Settled(s)' = Settled(s)
    BY <1>1 DEF Settled
  <2>2. pc' = "propagate" => \A i \in 1..Len(Scanned) : ~(i < at')
    OBVIOUS
  <2> QED
    BY <2>1, <2>2, <1>1 DEF DropInv, Walk
<1>4. References'
  BY <1>1 DEF DropInv, References
<1>5. Glued'
  BY <1>1 DEF DropInv, Glued
<1> QED
  BY <1>2, <1>3, <1>4, <1>5 DEF DropInv

\* A pass without a change has settled every struct.
LEMMA PassEndsDrop == ASSUME TypeOK, DropInv, PassEnds PROVE DropInv'
<1>1. /\ UNCHANGED <<program, hasDrop, refs>> /\ pc = "propagate"
      /\ at' = 1 /\ pc' \in {"propagate", "fix"} /\ at > Len(Scanned)
  BY DEF PassEnds
<1>2. pc' = "fix" => ~changed
  BY DEF PassEnds
<1>3. ASSUME pc' = "fix", NEW s \in Members(Scanned) PROVE Settled(s)
  <2>1. PICK i \in 1..Len(Scanned) : s = Scanned[i]
    BY DEF Members
  <2>2. i < at
    BY <1>1, Lists DEF TypeOK
  <2>3. Settled(Scanned[i])
    BY <1>1, <1>2, <1>3, <2>2 DEF DropInv, Walk
  <2> QED
    BY <2>1, <2>3
<1> QED
  BY <1>1, <1>3, MoveOn DEF Pcs

\* References of the structs and the listed functions take the marks of their definitions.
LEMMA FixRefsDrop == ASSUME TypeOK, DropInv, FixRefs PROVE DropInv'
<1>1. /\ UNCHANGED program /\ hasDrop' = hasDrop /\ pc = "fix" /\ pc' = "sort"
      /\ refs' = refs \cup {r \in (Members(Scanned) \cup {Func}) \X hasDrop : Refers(r[1], r[2])}
  BY DEF FixRefs
<1>2. /\ UNCHANGED <<list, uses, holders, impls, missed, copies, untyped>>
      /\ Scanned' = Scanned /\ Members(Scanned)' = Members(Scanned) /\ Declared' = Declared
      /\ \A x, y : InStruct(x, y)' = InStruct(x, y) /\ Refers(x, y)' = Refers(x, y)
      /\ \A C : Found(C)' = Found(C)
  BY <1>1, SameProgram
<1>3. Marks'
  BY <1>1, <1>2 DEF DropInv, Marks
<1>4. Walk'
  <2>1. \A s : Settled(s)' = Settled(s)
    BY <1>1, <1>2 DEF Settled
  <2> QED
    BY <2>1, <1>1, <1>2 DEF DropInv, Walk
<1>5. References'
  <2>1. \A r \in refs' : r[2] \in hasDrop
    BY <1>1 DEF DropInv, References
  <2>2. ASSUME NEW s \in Members(Scanned) \cup {Func}, NEW t \in hasDrop, Refers(s, t)
        PROVE  <<s, t>> \in refs'
    BY <1>1, <2>2
  <2> QED
    BY <2>1, <2>2, <1>1, <1>2 DEF References
<1>6. Glued'
  BY <1>1, <1>2 DEF DropInv, Glued
<1> QED
  BY <1>3, <1>4, <1>5, <1>6 DEF DropInv

\* Every step keeps what is known of the marks.
LEMMA DropStep == TypeOK /\ DropInv /\ [Next]_vars => DropInv'
<1> SUFFICES ASSUME TypeOK, DropInv, [Next]_vars PROVE DropInv'
  OBVIOUS
<1> USE DEF Pcs
<1>0. pc \in Pcs
  BY DEF TypeOK
<1>1. CASE Parse
  <2>1. TypeOK'
    BY TypeStep
  <2>2. PICK us \in Affordable, t \in Type \ Declared, k \in Kind :
            \E has \in Traits(k) : Declare(t, k, us, has)
    BY <1>1 DEF Parse
  <2> QED
    BY <2>1, <2>2, <1>1, DeclareDrop DEF Parse
<1>2. CASE ParseEnds
  <2>1. UNCHANGED <<program, hasDrop, refs>>
    BY <1>2 DEF ParseEnds
  <2>2. pc' = "propagate" /\ at' = 1
    BY <1>2 DEF ParseEnds
  <2> QED
    BY <2>1, <2>2, MoveOn
<1>3. CASE Visit
  BY <1>3, VisitDrop
<1>4. CASE PassEnds
  BY <1>4, PassEndsDrop
<1>5. CASE FixRefs
  BY <1>5, FixRefsDrop
<1>6. CASE SortVisit \/ SortPassEnds \/ Rest \/ RestEnds
  <2>1. UNCHANGED <<program, hasDrop, refs>>
    BY <1>6 DEF SortVisit, SortPassEnds, Rest, RestEnds
  <2>2. pc \in {"sort", "rest"} /\ pc' \in {"sort", "rest", "done"}
    BY <1>6 DEF SortVisit, SortPassEnds, Rest, RestEnds
  <2>3. \A s \in Members(Scanned) : Settled(s)
    BY <2>2 DEF DropInv, Walk
  <2> QED
    BY <2>1, <2>2, <2>3, MoveOn
<1>7. CASE UNCHANGED vars
  <2>1. UNCHANGED <<program, hasDrop, refs, pc, at, changed>>
    BY <1>7 DEF vars
  <2>2. /\ UNCHANGED <<list, uses, holders, impls, missed, copies, untyped>>
        /\ Scanned' = Scanned /\ Members(Scanned)' = Members(Scanned) /\ Declared' = Declared
        /\ \A x, y : InStruct(x, y)' = InStruct(x, y) /\ Refers(x, y)' = Refers(x, y)
        /\ \A C : Found(C)' = Found(C)
    BY <2>1, SameProgram
  <2>3. \A s : Settled(s)' = Settled(s)
    BY <2>1, <2>2 DEF Settled
  <2> QED
    BY <2>1, <2>2, <2>3 DEF DropInv, Marks, Walk, References, Glued
<1> QED
  BY <1>1, <1>2, <1>3, <1>4, <1>5, <1>6, <1>7 DEF Next, Step

\* It holds in every reachable state.
LEMMA DropInvariant == Spec => [](TypeOK /\ DropInv)
<1>1. Init => TypeOK /\ DropInv
  BY TypeInit, DropInit
<1>2. TypeOK /\ DropInv /\ [Next]_vars => TypeOK' /\ DropInv'
  BY TypeStep, DropStep
<1> QED
  BY <1>1, <1>2, PTL DEF Spec

\* The least closed set is closed, and in every closed set.
LEMMA Least ==
    ASSUME NEW core \in SUBSET Type, NEW S \in SUBSET Type
    PROVE  /\ Around(core, S) \in SUBSET Type /\ Closed(Around(core, S), core, S)
           /\ \A C \in SUBSET Type : Closed(C, core, S) => Around(core, S) \subseteq C
<1>1. Around(core, S) \in SUBSET Type
  BY DEF Around
<1>2. core \subseteq Around(core, S)
  BY DEF Around, Closed
<1>3. ASSUME NEW s \in S, NEW t \in Around(core, S), InStruct(s, t)
      PROVE  s \in Around(core, S)
  <2>1. ASSUME NEW C \in SUBSET Type, Closed(C, core, S) PROVE s \in C
    <3>1. t \in C
      BY <2>1 DEF Around
    <3> QED
      BY <3>1, <2>1, <1>3 DEF Closed
  <2> QED
    BY <2>1 DEF Around
<1>4. Closed(Around(core, S), core, S)
  BY <1>2, <1>3 DEF Closed
<1>5. \A C \in SUBSET Type : Closed(C, core, S) => Around(core, S) \subseteq C
  BY DEF Around
<1> QED
  BY <1>1, <1>4, <1>5

\* What can be found out is true.
LEMMA KnownOwn ==
    ASSUME TypeOK
    PROVE  Known \subseteq Owners /\ Closed(Owners, impls \cup missed \cup holders, Members(Scanned))
<1>1. Members(Scanned) \in SUBSET Type /\ Typed \in SUBSET Type
  BY Lists DEF Typed
<1>2. impls \cup missed \cup holders \in SUBSET Type /\ impls \cup (holders \ untyped) \in SUBSET Type
  BY DEF TypeOK
<1>3. /\ Owners \in SUBSET Type
      /\ Closed(Owners, impls \cup missed \cup holders, Members(Scanned))
  BY <1>1, <1>2, Least DEF Owners
<1>4. Closed(Owners, impls \cup (holders \ untyped), Typed)
  BY <1>3 DEF Closed, Typed
<1> QED
  BY <1>1, <1>2, <1>3, <1>4, Least DEF Known

\* When the walk has ended, the marked types are those that can be found to own something.
LEMMA OwnersFound ==
    ASSUME TypeOK, DropInv, pc \notin {"parse", "propagate"}
    PROVE  hasDrop = Known
<1>1. hasDrop \in SUBSET Type /\ impls \cup (holders \ untyped) \in SUBSET Type
  BY DEF TypeOK
<1>2. Typed \in SUBSET Type
  BY Lists DEF Typed
<1>3. Known \in SUBSET Type /\ Found(Known) /\ \A C \in SUBSET Type : Found(C) => Known \subseteq C
  BY <1>1, <1>2, Least DEF Known, Found
<1>4. hasDrop \subseteq Known
  BY <1>3 DEF DropInv, Marks
<1>5. \A s \in Members(Scanned) : Settled(s)
  BY DEF DropInv, Walk
<1>6. impls \cup (holders \ untyped) \subseteq hasDrop
  BY <1>5 DEF DropInv, Marks, Walk, Settled
<1>7. Found(hasDrop)
  BY <1>5, <1>6 DEF Found, Closed, Settled, Typed
<1> QED
  BY <1>1, <1>3, <1>4, <1>7

\* If no owner is overlooked, they are all the owners.
LEMMA NoneOverlooked ==
    ASSUME TypeOK, DropInv, pc \notin {"parse", "propagate"}, Overlooked = {}
    PROVE  hasDrop = Owners
<1> DEFINE core == impls \cup missed \cup holders
<1>1. hasDrop = Known /\ hasDrop \subseteq Owners /\ Closed(Owners, core, Members(Scanned))
  BY OwnersFound, KnownOwn
<1>2. missed = {} /\ untyped \cap Owners = {}
  BY DEF Overlooked
<1>3. \A s \in Members(Scanned) : Settled(s)
  BY DEF DropInv, Walk
<1>4. core \subseteq hasDrop
  BY <1>1, <1>2, <1>3 DEF DropInv, Marks, Walk, Settled, Closed
<1>5. ASSUME NEW s \in Members(Scanned), NEW t \in hasDrop, InStruct(s, t) PROVE s \in hasDrop
  <2>1. s \in Owners
    BY <1>1, <1>5 DEF Closed
  <2> QED
    BY <2>1, <1>2, <1>3, <1>5 DEF Settled
<1>6. Closed(hasDrop, core, Members(Scanned))
  BY <1>4, <1>5 DEF Closed
<1>7. /\ hasDrop \in SUBSET Type /\ core \in SUBSET Type /\ Members(Scanned) \in SUBSET Type
  BY Lists DEF TypeOK
<1>8. Owners \subseteq hasDrop
  BY <1>6, <1>7, Least DEF Owners
<1> QED
  BY <1>1, <1>8

\* OwnersMarked: propagate_drop_traits marks exactly the types that can be found to own
\* something, and where no impl is missed and no owner is an instance of several parameters,
\* all that do.
THEOREM OwnershipFound == Spec => []OwnersMarked
<1>1. TypeOK /\ DropInv => OwnersMarked
  BY OwnersFound, KnownOwn, NoneOverlooked DEF OwnersMarked
<1> QED
  BY <1>1, DropInvariant, PTL

\* CopiesNotDropped: the move checker copies nothing that the code generator drops, except an
\* owner with an `impl Copy` in a function that is not listed, and moves nothing else.
THEOREM MovesAgree == Spec => []CopiesNotDropped
<1>1. TypeOK /\ DropInv => CopiesNotDropped
  <2> SUFFICES ASSUME TypeOK, DropInv, pc \in {"sort", "rest", "done"},
                      NEW s \in Members(Scanned) \cup {Func, Method},
                      NEW t \in Members(Scanned), Refers(s, t)
               PROVE  /\ IsTypeCopy(s, t) => t \notin hasDrop \/ (s = Method /\ t \in copies)
                      /\ ~IsTypeCopy(s, t) => t \in hasDrop \cup missed
    BY DEF CopiesNotDropped
  <2>1. ASSUME IsTypeCopy(s, t), t \in hasDrop PROVE s = Method /\ t \in copies
    <3>1. s = Method
      BY <2>1 DEF DropInv, References, IsTypeCopy
    <3> QED
      BY <3>1, <2>1 DEF IsTypeCopy
  <2>2. ASSUME ~IsTypeCopy(s, t) PROVE t \in hasDrop \cup missed
    <3>1. <<s, t>> \in refs => t \in hasDrop
      BY DEF DropInv, References
    <3>2. impls \subseteq hasDrop
      BY DEF DropInv, Marks
    <3> QED
      BY <3>1, <3>2, <2>2 DEF IsTypeCopy, RegisteredDrop
  <2> QED
    BY <2>1, <2>2
<1> QED
  BY <1>1, DropInvariant, PTL

-----------------------------------------------------------------------------
(* Ordering *)

\* Every type at most once, and only the program's.
OrderSound ==
    /\ Emitted \subseteq Declared
    /\ \A i, j \in 1..Len(order) : order[i] = order[j] => i = j

\* What a type seems to depend on is before it.
Layered ==
    \A i \in 1..Len(order), d \in Declared :
        DependsOn(order[i], d) => \E j \in 1..i : order[j] = d

\* The rounds of the sorting: each but the last has emitted something, and what one without a
\* change has passed is emitted or blocked.
Sorting ==
    pc = "sort" =>
        /\ Layered
        /\ ~changed => \A i \in 1..Len(Nodes) : i < at => Nodes[i] \in Emitted \/ Blocked(Nodes[i])
        /\ rounds <= Len(order)
        /\ changed => rounds + 1 <= Len(order)

SortInv ==
    /\ pc \in {"parse", "propagate", "fix"} => order = <<>> /\ rounds = 0
    /\ OrderSound
    /\ Sorting
    /\ pc \in {"rest", "done"} /\ Acyclic => Layered /\ Emitted = Declared
    /\ pc = "rest" => \A i \in 1..Len(Nodes) : i < at => Nodes[i] \in Emitted
    /\ pc = "done" => Emitted = Declared

\* The numbers from 1 to n are n numbers.
LEMMA Interval == ASSUME NEW n \in Nat PROVE IsFiniteSet(1..n) /\ Cardinality(1..n) = n
<1>1. IsFiniteSet(1..n) /\ Cardinality(1..n) = IF 1 > n THEN 0 ELSE n - 1 + 1
  <2>1. 1 \in Int /\ n \in Int
    OBVIOUS
  <2> QED
    BY <2>1, FS_Interval
<1> QED
  BY <1>1

\* As many different types as there are places for them are all the types.
LEMMA AllEmitted ==
    ASSUME TypeOK, OrderSound, Len(order) >= Len(Nodes)
    PROVE  Emitted = Declared
<1>1. order \in Seq(Type) /\ Len(order) \in Nat /\ Len(Nodes) \in Nat
  BY Lists DEF TypeOK
<1>2. Members(Nodes) = Declared /\ Nodes \in Seq(Type)
  BY Lists
<1> DEFINE n == Len(order)
           m == Len(Nodes)
           f == [i \in 1..m |-> Nodes[i]]
           g == [i \in 1..n |-> order[i]]
<1>3. f \in Surjection(1..m, Declared)
  BY <1>2 DEF Members, Surjection
<1>4. IsFiniteSet(1..m) /\ Cardinality(1..m) = m
  BY <1>1, Interval
<1>5. IsFiniteSet(Declared) /\ Cardinality(Declared) <= m
  BY <1>3, <1>4, FS_Surjection
<1>6. IsFiniteSet(1..n) /\ Cardinality(1..n) = n
  BY <1>1, Interval
<1>7. g \in Surjection(1..n, Emitted)
  BY DEF Surjection, Emitted, Members
<1>8. g \in Injection(1..n, Emitted)
  BY <1>7 DEF Injection, IsInjective, Surjection, OrderSound
<1>9. IsFiniteSet(Emitted) /\ Cardinality(Emitted) = n
  BY <1>6, <1>7, <1>8, FS_Surjection
<1>10. Emitted \in SUBSET Declared
  BY DEF OrderSound
<1>11. Cardinality(Emitted) <= Cardinality(Declared) /\ Cardinality(Declared) \in Nat
  BY <1>5, <1>10, FS_Subset, FS_CardinalityType
<1>12. Cardinality(Emitted) = Cardinality(Declared)
  BY <1>1, <1>5, <1>9, <1>11
<1> QED
  BY <1>5, <1>10, <1>12, FS_Subset

\* The square of a number is not less than the number.
LEMMA SquareBig == ASSUME NEW n \in Nat PROVE n <= n * n
<1>1. CASE n = 0
  BY <1>1
<1>2. CASE n > 0
  <2>1. n >= 1 /\ n * n >= n * 1
    BY <1>2
  <2> QED
    BY <2>1
<1> QED
  BY <1>1, <1>2

\* If nothing that is left can be emitted, there is a cycle.
LEMMA NothingBlocked ==
    ASSUME TypeOK, OrderSound, Acyclic,
           \A i \in 1..Len(Nodes) : Nodes[i] \in Emitted \/ Blocked(Nodes[i])
    PROVE  Emitted = Declared
<1>1. SUFFICES ASSUME Declared \ Emitted # {} PROVE FALSE
  BY DEF OrderSound
<1>2. PICK t \in Declared \ Emitted : \A d \in (Declared \ Emitted) \ {t} : ~DependsOn(t, d)
  <2>1. Declared \ Emitted \in (SUBSET Declared) \ {{}}
    BY <1>1
  <2> QED
    BY <2>1 DEF Acyclic
<1>3. PICK i \in 1..Len(Nodes) : t = Nodes[i]
  BY Lists DEF Members
<1>4. Blocked(t)
  BY <1>2, <1>3
<1> QED
  BY <1>2, <1>4 DEF Blocked

\* Nothing is emitted at the start.
LEMMA SortInit == Init => SortInv
<1> SUFFICES ASSUME Init PROVE SortInv
  OBVIOUS
<1>1. pc = "parse" /\ order = <<>> /\ rounds = 0
  BY DEF Init
<1>2. OrderSound
  BY <1>1 DEF OrderSound, Emitted, Members
<1> QED
  BY <1>1, <1>2 DEF SortInv, Sorting

\* Steps that leave the program and the order alone.
LEMMA SameOrder ==
    ASSUME UNCHANGED <<list, uses, order>>
    PROVE  /\ Nodes' = Nodes /\ Declared' = Declared /\ Emitted' = Emitted
           /\ OrderSound' = OrderSound /\ Layered' = Layered /\ Acyclic' = Acyclic
           /\ \A t : Blocked(t)' = Blocked(t)
<1>1. Nodes' = Nodes /\ Declared' = Declared /\ Emitted' = Emitted
  BY DEF Nodes, Declared, Emitted, Members
<1>2. \A s, d : DependsOn(s, d)' = DependsOn(s, d)
  BY DEF DependsOn, Members
<1>3. OrderSound' = OrderSound
  BY <1>1 DEF OrderSound
<1>4. Layered' = Layered
  BY <1>1, <1>2 DEF Layered
<1>5. Acyclic' = Acyclic
  BY <1>1, <1>2 DEF Acyclic
<1>6. \A t : Blocked(t)' = Blocked(t)
  BY <1>1, <1>2 DEF Blocked
<1> QED
  BY <1>1, <1>3, <1>4, <1>5, <1>6

\* A type that is not there yet is put behind the others.
LEMMA Emit ==
    ASSUME TypeOK, OrderSound, UNCHANGED <<list, uses>>, NEW t \in Declared \ Emitted,
           order' = Append(order, t)
    PROVE  /\ OrderSound' /\ Emitted' = Emitted \cup {t} /\ Len(order') = Len(order) + 1
           /\ Layered /\ ~Blocked(t) => Layered'
<1>1. order \in Seq(Type) /\ t \in Type /\ Len(order) \in Nat
  BY Lists DEF TypeOK
<1>2. /\ Len(order') = Len(order) + 1 /\ order'[Len(order) + 1] = t
      /\ \A i \in 1..Len(order) : order'[i] = order[i]
      /\ Emitted' = Emitted \cup {t}
  BY <1>1, MembersAppend DEF Emitted
<1>3. Declared' = Declared /\ \A s, d : DependsOn(s, d)' = DependsOn(s, d)
  BY DEF Declared, DependsOn, Members
<1>4. ASSUME NEW i \in 1..Len(order') PROVE i \in 1..Len(order) \/ i = Len(order) + 1
  BY <1>1, <1>2
<1>5. \A i \in 1..Len(order) : order[i] # t /\ i # Len(order) + 1
  BY <1>1 DEF Emitted, Members
<1>6. OrderSound'
  <2>1. ASSUME NEW i \in 1..Len(order'), NEW j \in 1..Len(order'), order'[i] = order'[j]
        PROVE  i = j
    BY <2>1, <1>2, <1>4, <1>5 DEF OrderSound
  <2> QED
    BY <2>1, <1>2, <1>3 DEF OrderSound
<1>7. ASSUME Layered, ~Blocked(t) PROVE Layered'
  <2>1. ASSUME NEW i \in 1..Len(order'), NEW d \in Declared, DependsOn(order'[i], d)
        PROVE  \E j \in 1..i : order'[j] = d
    <3>1. CASE i \in 1..Len(order)
      <4>1. DependsOn(order[i], d)
        BY <2>1, <3>1, <1>2
      <4>2. PICK j \in 1..i : order[j] = d
        BY <4>1, <3>1, <1>7 DEF Layered
      <4>3. j \in 1..Len(order)
        BY <3>1, <1>1
      <4> QED
        BY <4>2, <4>3, <1>2
    <3>2. CASE i = Len(order) + 1
      <4>1. DependsOn(t, d)
        BY <2>1, <3>2, <1>2
      <4>2. d = t \/ d \in Emitted
        BY <4>1, <1>7 DEF Blocked
      <4>3. ASSUME d \in Emitted PROVE \E j \in 1..Len(order) : order[j] = d
        BY <4>3 DEF Emitted, Members
      <4>4. i \in 1..i /\ \A j \in 1..Len(order) : j \in 1..i
        BY <3>2, <1>1
      <4> QED
        BY <4>2, <4>3, <4>4, <3>2, <1>2
    <3> QED
      BY <3>1, <3>2, <1>4
  <2> QED
    BY <2>1, <1>3 DEF Layered
<1> QED
  BY <1>2, <1>6, <1>7

\* A type is emitted behind all that it seems to depend on.
LEMMA SortVisitStep == ASSUME TypeOK, SortInv, SortVisit PROVE SortInv'
<1> DEFINE t == Nodes[at]
<1>1. /\ UNCHANGED <<list, uses, pc, rounds>> /\ pc = "sort" /\ at' = at + 1
      /\ at \in Nat \ {0} /\ at <= Len(Nodes) /\ rounds \in Nat /\ changed \in BOOLEAN
  BY DEF SortVisit, program, TypeOK
<1>2. /\ Len(Nodes) \in Nat /\ Len(order) \in Nat
      /\ t \in Declared
  BY <1>1, Lists DEF Members, TypeOK
<1>3. Layered /\ OrderSound /\ rounds <= Len(order) /\ (changed => rounds + 1 <= Len(order))
  BY <1>1 DEF SortInv, Sorting
<1>4. CASE t \in Emitted \/ Blocked(t)
  <2>1. UNCHANGED <<order, changed>>
    BY <1>4 DEF SortVisit
  <2>2. /\ Nodes' = Nodes /\ Emitted' = Emitted
        /\ OrderSound' /\ Layered' /\ \A x : Blocked(x)' = Blocked(x)
    BY <2>1, <1>1, <1>3, SameOrder
  <2>3. ASSUME ~changed, NEW i \in 1..Len(Nodes), i < at + 1
        PROVE  Nodes[i] \in Emitted \/ Blocked(Nodes[i])
    <3>1. i < at \/ i = at
      BY <2>3, <1>1
    <3> QED
      BY <3>1, <2>3, <1>1, <1>4 DEF SortInv, Sorting
  <2>4. Sorting'
    BY <2>1, <2>2, <2>3, <1>1, <1>3 DEF Sorting
  <2> QED
    BY <2>2, <2>4, <1>1 DEF SortInv
<1>5. CASE ~(t \in Emitted \/ Blocked(t))
  <2>1. order' = Append(order, t) /\ changed' = TRUE
    BY <1>5 DEF SortVisit
  <2>2. OrderSound' /\ Layered' /\ Len(order') = Len(order) + 1
    BY <2>1, <1>1, <1>2, <1>3, <1>5, Emit
  <2>3. rounds' <= Len(order') /\ rounds' + 1 <= Len(order')
    BY <2>2, <1>1, <1>2, <1>3
  <2>4. Sorting'
    BY <2>1, <2>2, <2>3 DEF Sorting
  <2> QED
    BY <2>2, <2>4, <1>1 DEF SortInv
<1> QED
  BY <1>4, <1>5

\* If max_iterations ends the sorting, every type has been emitted.
LEMMA SortPassEndsStep == ASSUME TypeOK, SortInv, SortPassEnds PROVE SortInv'
<1>1. /\ UNCHANGED <<list, uses, order>> /\ pc = "sort" /\ at' = 1 /\ changed' = FALSE
      /\ at \in Nat /\ at > Len(Nodes) /\ rounds \in Nat /\ rounds' = rounds + 1
      /\ pc' = "sort" \/ pc' = "rest"
  BY DEF SortPassEnds, program, TypeOK
<1>2. /\ Nodes' = Nodes /\ Emitted' = Emitted /\ Declared' = Declared
      /\ OrderSound' = OrderSound /\ Layered' = Layered /\ Acyclic' = Acyclic
  BY <1>1, SameOrder
<1>3. /\ Layered /\ OrderSound /\ (changed => rounds + 1 <= Len(order))
      /\ ~changed => \A i \in 1..Len(Nodes) : i < at => Nodes[i] \in Emitted \/ Blocked(Nodes[i])
  BY <1>1 DEF SortInv, Sorting
<1>4. Len(Nodes) \in Nat /\ Len(order) \in Nat
  BY Lists DEF TypeOK
<1>5. \A i \in 1..Len(Nodes) : i < at /\ ~(i < at')
  BY <1>1, <1>4
<1>6. CASE pc' = "sort"
  <2>1. changed
    BY <1>6 DEF SortPassEnds
  <2>2. rounds' <= Len(order')
    BY <2>1, <1>1, <1>3
  <2>3. Sorting'
    BY <2>2, <1>1, <1>2, <1>3, <1>5 DEF Sorting
  <2> QED
    BY <2>3, <1>2, <1>3, <1>6 DEF SortInv
<1>7. CASE pc' = "rest"
  <2>1. ASSUME Acyclic PROVE Emitted = Declared
    <3>1. CASE ~changed
      BY <3>1, <2>1, <1>3, <1>5, NothingBlocked
    <3>2. CASE changed
      <4>1. rounds' >= Limit /\ Limit \in Nat /\ Len(Nodes) <= Limit
        BY <3>2, <1>1, <1>4, <1>7, SquareBig DEF SortPassEnds, Limit
      <4>2. Len(order) >= Len(Nodes)
        BY <4>1, <3>2, <1>1, <1>3, <1>4
      <4> QED
        BY <4>2, <1>3, AllEmitted
    <3> QED
      BY <3>1, <3>2
  <2> QED
    BY <2>1, <1>2, <1>3, <1>5, <1>7 DEF SortInv, Sorting
<1> QED
  BY <1>1, <1>6, <1>7

\* What is left is a cycle, and is emitted in the order of the list.
LEMMA RestStep == ASSUME TypeOK, SortInv, Rest PROVE SortInv'
<1> DEFINE t == Nodes[at]
<1>1. /\ UNCHANGED <<list, uses, pc>> /\ pc = "rest" /\ at' = at + 1
      /\ at \in Nat \ {0} /\ at <= Len(Nodes)
      /\ order' = IF t \in Emitted THEN order ELSE Append(order, t)
  BY DEF Rest, program, TypeOK
<1>2. Len(Nodes) \in Nat /\ t \in Declared
  BY <1>1, Lists DEF Members
<1>3. /\ OrderSound /\ (Acyclic => Layered /\ Emitted = Declared)
      /\ \A i \in 1..Len(Nodes) : i < at => Nodes[i] \in Emitted
  BY <1>1 DEF SortInv
<1>4. Nodes' = Nodes /\ Declared' = Declared /\ Acyclic' = Acyclic
  BY <1>1 DEF Nodes, Declared, Acyclic, DependsOn, Members
<1>5. \A i \in 1..Len(Nodes) : i < at + 1 => i < at \/ i = at
  BY <1>1
<1>6. CASE t \in Emitted
  <2>1. order' = order
    BY <1>1, <1>6
  <2>2. Emitted' = Emitted /\ OrderSound' = OrderSound /\ Layered' = Layered
    BY <2>1, <1>1, SameOrder
  <2> QED
    BY <2>2, <1>1, <1>3, <1>4, <1>5, <1>6 DEF SortInv, Sorting
<1>7. CASE t \notin Emitted
  <2>1. order' = Append(order, t)
    BY <1>1, <1>7
  <2>2. OrderSound' /\ Emitted' = Emitted \cup {t}
    BY <2>1, <1>1, <1>2, <1>3, <1>7, Emit
  <2>3. ~Acyclic
    BY <1>2, <1>3, <1>7
  <2> QED
    BY <2>2, <2>3, <1>1, <1>3, <1>4, <1>5 DEF SortInv, Sorting
<1> QED
  BY <1>6, <1>7

\* Then everything has been emitted.
LEMMA RestEndsStep == ASSUME TypeOK, SortInv, RestEnds PROVE SortInv'
<1>1. /\ UNCHANGED <<list, uses, order>> /\ pc = "rest" /\ pc' = "done"
      /\ at \in Nat /\ at > Len(Nodes)
  BY DEF RestEnds, program, TypeOK
<1>2. /\ Emitted' = Emitted /\ Declared' = Declared
      /\ OrderSound' = OrderSound /\ Layered' = Layered /\ Acyclic' = Acyclic
  BY <1>1, SameOrder
<1>3. \A i \in 1..Len(Nodes) : Nodes[i] \in Emitted
  BY <1>1, Lists DEF SortInv
<1>4. Declared \subseteq Emitted
  BY <1>3, Lists DEF Members
<1>5. OrderSound /\ Emitted = Declared
  BY <1>1, <1>4 DEF SortInv, OrderSound
<1> QED
  BY <1>1, <1>2, <1>5 DEF SortInv, Sorting

\* Before the sorting.
LEMMA EarlyStep ==
    ASSUME SortInv, UNCHANGED <<rounds, order>>, pc \in {"parse", "propagate", "fix"},
           pc' \in {"parse", "propagate", "fix"} \/ (pc' = "sort" /\ at' = 1 /\ ~changed')
    PROVE  SortInv'
<1>1. order = <<>> /\ rounds = 0
  BY DEF SortInv
<1>2. OrderSound' /\ Layered'
  BY <1>1 DEF OrderSound, Layered, Emitted, Members
<1>3. ASSUME pc' = "sort" PROVE Sorting'
  <2>1. rounds' <= Len(order') /\ \A i \in 1..Len(Nodes)' : ~(i < at')
    BY <1>1, <1>3
  <2>2. ~changed'
    BY <1>3
  <2> QED
    BY <2>1, <2>2, <1>2 DEF Sorting
<1> QED
  BY <1>1, <1>2, <1>3 DEF SortInv, Sorting

\* Every step keeps what is known of the order.
LEMMA SortStep == TypeOK /\ SortInv /\ [Next]_vars => SortInv'
<1> SUFFICES ASSUME TypeOK, SortInv, [Next]_vars PROVE SortInv'
  OBVIOUS
<1>1. CASE Parse
  <2>1. UNCHANGED <<pc, rounds, order>> /\ pc = "parse"
    BY <1>1 DEF Parse, Declare
  <2> QED
    BY <2>1, EarlyStep
<1>2. CASE ParseEnds \/ Visit \/ PassEnds
  <2>1. /\ UNCHANGED <<rounds, order>>
        /\ pc \in {"parse", "propagate"} /\ pc' \in {"propagate", "fix"}
    BY <1>2 DEF ParseEnds, Visit, Advance, PassEnds
  <2> QED
    BY <2>1, EarlyStep
<1>3. CASE FixRefs
  <2>1. UNCHANGED <<rounds, order>> /\ pc = "fix" /\ pc' = "sort" /\ at' = 1 /\ ~changed'
    BY <1>3 DEF FixRefs
  <2> QED
    BY <2>1, EarlyStep
<1>4. CASE SortVisit
  BY <1>4, SortVisitStep
<1>5. CASE SortPassEnds
  BY <1>5, SortPassEndsStep
<1>6. CASE Rest
  BY <1>6, RestStep
<1>7. CASE RestEnds
  BY <1>7, RestEndsStep
<1>8. CASE UNCHANGED vars
  <2>1. UNCHANGED <<list, uses, pc, at, changed, rounds, order>>
    BY <1>8 DEF vars, program
  <2>2. /\ Nodes' = Nodes /\ Declared' = Declared /\ Emitted' = Emitted
        /\ OrderSound' = OrderSound /\ Layered' = Layered /\ Acyclic' = Acyclic
        /\ \A t : Blocked(t)' = Blocked(t)
    BY <2>1, SameOrder
  <2>3. Sorting' = Sorting
    BY <2>1, <2>2 DEF Sorting
  <2> QED
    BY <2>1, <2>2, <2>3 DEF SortInv
<1> QED
  BY <1>1, <1>2, <1>3, <1>4, <1>5, <1>6, <1>7, <1>8 DEF Next, Step

\* It holds in every reachable state.
LEMMA SortInvariant == Spec => [](TypeOK /\ SortInv)
<1>1. Init => TypeOK /\ SortInv
  BY TypeInit, SortInit
<1>2. TypeOK /\ SortInv /\ [Next]_vars => TypeOK' /\ SortInv'
  BY TypeStep, SortStep
<1> QED
  BY <1>1, <1>2, PTL DEF Spec

\* What a type contains is emitted before it, if there is no cycle.
LEMMA InOrder ==
    ASSUME TypeOK, SortInv, pc = "done", Acyclic, NEW s \in Declared, NEW t \in Declared,
           s # t, Contains(s, t)
    PROVE  Before(t, s)
<1>1. PICK u \in uses[s] : u.how # "pointer" /\ u.of = t
  BY DEF Contains
<1>2. t \in Type
  BY Lists
<1>3. <<t, t>> \in Begins
  BY <1>2, StructsAssumption
<1>4. DependsOn(s, t)
  BY <1>1, <1>3 DEF DependsOn
<1>5. Layered /\ OrderSound
  BY DEF SortInv
<1>6. Len(order) \in Nat
  BY DEF TypeOK
<1>7. ASSUME NEW i \in 1..Len(order), NEW j \in 1..Len(order), order[i] = t, order[j] = s
      PROVE  i < j
  <2>1. PICK k \in 1..j : order[k] = t
    BY <1>4, <1>5, <1>7 DEF Layered
  <2>2. k \in 1..Len(order)
    BY <1>6
  <2>3. k = i
    BY <2>1, <2>2, <1>5, <1>7 DEF OrderSound
  <2>4. i # j
    BY <1>7
  <2> QED
    BY <2>3, <2>4
<1> QED
  BY <1>7 DEF Before

\* EmittedInOrder: topo_sort_structs emits every type once, and behind what it contains if
\* there is an order that does; max_iterations is large enough for any number of types.
THEOREM TypesDefinedInOrder == Spec => []EmittedInOrder
<1>1. TypeOK /\ SortInv => EmittedInOrder
  <2> SUFFICES ASSUME TypeOK, SortInv, pc = "done" PROVE EmittedInOrder
    BY DEF EmittedInOrder
  <2>1. Emitted = Declared /\ OrderSound
    BY DEF SortInv
  <2>2. ASSUME Acyclic, NEW s \in Declared, NEW t \in Declared, s # t, Contains(s, t)
        PROVE  Before(t, s)
    BY <2>2, InOrder
  <2> QED
    BY <2>1, <2>2 DEF EmittedInOrder, OrderSound
<1> QED
  BY <1>1, SortInvariant, PTL

\* DropReachesParts: where only structs have an `impl Drop`, the glue of a struct drops each
\* part that is known to own something, through glue that is there and is defined above.
THEOREM PartsDropped ==
    DropKinds \subseteq {"struct", "instance"} => (Spec => []DropReachesParts)
<1> SUFFICES ASSUME DropKinds \subseteq {"struct", "instance"}
             PROVE  Spec => []DropReachesParts
  OBVIOUS
<1>1. TypeOK /\ DropInv /\ SortInv => DropReachesParts
  <2> SUFFICES ASSUME TypeOK, DropInv, SortInv, pc = "done",
                      NEW s \in Members(Scanned), NEW t \in Owners, InStruct(s, t),
                      Overlooked = {} \/ (s \in Typed /\ t \in Known)
               PROVE  /\ GlueCalls(s, t) /\ HasGlue(t)
                      /\ Acyclic /\ s # t => Before(t, s)
    BY DEF DropReachesParts
  <2>1. t \in hasDrop /\ s \in hasDrop
    <3>1. CASE Overlooked = {}
      <4>1. hasDrop = Owners
        BY <3>1, NoneOverlooked
      <4>2. s \in Owners
        BY KnownOwn DEF Closed
      <4> QED
        BY <4>1, <4>2
    <3>2. CASE s \in Typed /\ t \in Known
      <4>1. t \in hasDrop
        BY <3>2, OwnersFound
      <4>2. Settled(s) /\ s \notin untyped
        BY <3>2 DEF DropInv, Walk, Typed
      <4> QED
        BY <4>1, <4>2 DEF Settled
    <3> QED
      BY <3>1, <3>2
  <2>3. t \in Members(Scanned)
    BY <2>1 DEF DropInv, Glued
  <2>4. GlueCalls(s, t) /\ HasGlue(t)
    BY <2>1, <2>3 DEF GlueCalls, HasGlue
  <2>5. s \in Declared /\ t \in Declared
    BY <2>3, Lists
  <2>6. Contains(s, t)
    <3>1. [how |-> "value", of |-> t] \in uses[s]
      BY DEF InStruct
    <3> QED
      BY <3>1 DEF Contains
  <2> QED
    BY <2>4, <2>5, <2>6, InOrder
<1> QED
  BY <1>1, DropInvariant, SortInvariant, PTL

=============================================================================
