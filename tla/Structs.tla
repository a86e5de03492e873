------------------------------ MODULE Structs ------------------------------
(***************************************************************************)
(* From the declarations of a program to its C types: parse_struct and     *)
(* parse_enum put every type on a list, propagate_drop_traits finds out    *)
(* which structs own something, fix_type_refs_has_drop copies that to some *)
(* of the references to them, and topo_sort_structs orders the definitions *)
(* so that C knows a type before another one contains it.                  *)
(*                                                                         *)
(* A program may declare its types in any order.  Two functions take a     *)
(* value of every type: Func, that is on parsed_funcs_list, and Method,    *)
(* that is not, as no method and no instance of a generic function is (the *)
(* local variables of any function are like the arguments of Method).      *)
(*                                                                         *)
(* Two sorts of type own something that is never dropped: `missed`, whose  *)
(* `impl Drop` marks nothing, and `untyped`, which cannot be marked.  The  *)
(* properties name them where they are an exception.                       *)
(***************************************************************************)
EXTENDS Naturals, Sequences, FiniteSets

CONSTANTS
    Type,       \* the names of the types
    Func,       \* the functions on parsed_funcs_list ...
    Method,     \* ... and the others
    Begins,     \* the pairs <<n, m>> where the name n begins with the name m
    DropKinds,  \* the kinds of type that may have an `impl Drop`
    MaxUses,    \* how often the types are used in others (a bound), ...
    MaxIndirect,  \* ... and of these, in arrays and behind pointers (a bound)
    MaxOwners,  \* how many closures, vectors and `impl Drop`s there are (a bound)
    MaxOdd      \* how many types are out of the ordinary: see Odd (a bound)

Kind == {"struct", "instance", "enum", "tuple"}
How == {"value", "array", "pointer"}

\* A field, a payload or a tuple's element that is made of another type.
Use == [how : How, of : Type]

ASSUME StructsAssumption == /\ IsFiniteSet(Type) /\ {Func, Method} \cap Type = {}
                            /\ Func # Method
                            /\ \A t \in Type : <<t, t>> \in Begins
                            /\ DropKinds \subseteq Kind
                            /\ MaxUses \in Nat /\ MaxIndirect \in Nat
                            /\ MaxOwners \in Nat /\ MaxOdd \in Nat

VARIABLES
    list,     \* of every kind, newest first: parsed_structs_list, instantiated_structs,
              \* parsed_enums_list and used_tuples
    uses,     \* of every type
    holders,  \* the structs with a closure or a SIMD vector in them
    impls,    \* the types that an `impl Drop` has marked ...
    missed,   \* ... or has not: it is above its type, or its template's instance came first
    copies,   \* the structs with an `impl Copy`
    untyped,  \* the instances of several parameters: they have no type_info
    hasDrop,  \* the types whose definition has traits.has_drop
    refs,     \* the references <<s, t>>, a use of t in s by value, that have it
    pc,
    at, changed,  \* of the loop that is being executed
    rounds,   \* iterations of topo_sort_structs
    order     \* what it has emitted

program == <<list, uses, holders, impls, missed, copies, untyped>>
vars == <<program, hasDrop, refs, pc, at, changed, rounds, order>>

Members(seq) == {seq[i] : i \in 1..Len(seq)}

Declared == UNION {Members(list[k]) : k \in Kind}

\* What propagate_drop_traits walks over, and what is sorted.
Scanned == list["struct"] \o list["instance"]
Nodes == list["instance"] \o list["struct"] \o list["enum"] \o list["tuple"]

Emitted == Members(order)

\* A field or an argument of type t.
InStruct(s, t) == [how |-> "value", of |-> t] \in uses[s]
Refers(s, t) == IF s \in {Func, Method} THEN t \in Declared ELSE InStruct(s, t)

TypeOK == /\ list \in [Kind -> Seq(Type)]
          /\ uses \in [Type -> SUBSET Use]
          /\ holders \subseteq Type /\ impls \subseteq Type /\ missed \subseteq Type
          /\ copies \subseteq Type /\ untyped \subseteq Type /\ hasDrop \subseteq Type
          /\ refs \subseteq (Type \cup {Func}) \X Type
          /\ pc \in {"parse", "propagate", "fix", "sort", "rest", "done"}
          /\ at \in Nat \ {0} /\ changed \in BOOLEAN /\ rounds \in Nat
          /\ order \in Seq(Type)

Init ==
    /\ list = [k \in Kind |-> <<>>]
    /\ uses = [t \in Type |-> {}]
    /\ holders = {} /\ impls = {} /\ missed = {} /\ copies = {} /\ untyped = {}
    /\ hasDrop = {} /\ refs = {}
    /\ pc = "parse" /\ at = 1 /\ changed = FALSE /\ rounds = 0
    /\ order = <<>>

-----------------------------------------------------------------------------
(* Parsing *)

\* What a type may have besides its fields: it holds a closure or a vector, an `impl Drop`
\* marks it or misses it, it has an `impl Copy`, it is an instance of several parameters.
Trait == {"holds", "impl", "missed", "copy", "several"}
May(k) == {tr \in Trait : /\ tr = "holds" => k \in {"struct", "instance"}
                          /\ tr \in {"impl", "missed"} => k \in DropKinds
                          /\ tr = "copy" => k = "struct"
                          /\ tr = "several" => k = "instance"}
Traits(k) == {has \in SUBSET May(k) : "impl" \in has => has \cap {"missed", "several"} = {}}

\* What the bounds leave for the next type.
Indirect(us) == {u \in us : u.how # "value"}
FewUses == {us \in SUBSET Use : /\ Cardinality(us) <= MaxUses
                                /\ Cardinality(Indirect(us)) <= MaxIndirect}
Affordable ==
    LET used == {r \in Declared \X Use : r[2] \in uses[r[1]]}
        n == Cardinality(used)
        m == Cardinality({r \in used : r[2].how # "value"})
    IN  {us \in FewUses : /\ Cardinality(us) + n <= MaxUses
                          /\ Cardinality(Indirect(us)) + m <= MaxIndirect}

Owns(has) == has \cap {"holds", "impl", "missed"}
Odd(k, has) == (has \cap {"missed", "copy", "several"}) \cup ({k} \cap {"enum", "tuple"})
Room(k, has) ==
    /\ Cardinality(Owns(has)) + Cardinality(holders) + Cardinality(impls \cup missed)
           <= MaxOwners
    /\ Cardinality(Odd(k, has)) + Cardinality(missed) + Cardinality(copies)
           + Cardinality(untyped) + Len(list["enum"]) + Len(list["tuple"]) <= MaxOdd

With(set, t, cond) == IF cond THEN set \cup {t} ELSE set

\* A type is parsed.  An `impl Drop` marks the definition that is there when the impl is
\* parsed, and has a type_info: not a type below the impl; nor, if it is for a template, the
\* instances made before it (an instance takes the marks of its template when it is made,
\* unless the template has several parameters).
Declare(t, k, us, has) ==
    /\ t \notin Declared /\ Room(k, has)
    /\ list' = [list EXCEPT ![k] = <<t>> \o @]
    /\ uses' = [uses EXCEPT ![t] = us]
    /\ holders' = With(holders, t, "holds" \in has)
    /\ impls' = With(impls, t, "impl" \in has)
    /\ missed' = With(missed, t, "missed" \in has)
    /\ copies' = With(copies, t, "copy" \in has)
    /\ untyped' = With(untyped, t, "several" \in has)
    /\ hasDrop' = With(hasDrop, t, "impl" \in has)
    /\ UNCHANGED <<refs, pc, at, changed, rounds, order>>

ParseEnds ==
    /\ pc = "parse"
    /\ \A t \in Declared : \A u \in uses[t] : u.of \in Declared
    /\ pc' = "propagate" /\ at' = 1 /\ changed' = FALSE
    /\ UNCHANGED <<program, hasDrop, refs, rounds, order>>

-----------------------------------------------------------------------------
(* propagate_drop_traits and fix_type_refs_has_drop *)

Advance == at' = at + 1 /\ UNCHANGED <<program, pc, rounds, order>>

\* The first field that owns something marks its struct, and itself; a struct without a
\* type_info is passed over.
Visit ==
    /\ pc = "propagate" /\ at <= Len(Scanned)
    /\ LET s == Scanned[at]
           parts == {t \in hasDrop : InStruct(s, t)}
       IN  \/ /\ s \notin hasDrop \cup untyped /\ s \in holders
              /\ hasDrop' = hasDrop \cup {s} /\ changed' = TRUE /\ UNCHANGED refs
           \/ /\ s \notin hasDrop \cup untyped
              /\ \E t \in parts : refs' = refs \cup {<<s, t>>}
              /\ hasDrop' = hasDrop \cup {s} /\ changed' = TRUE
           \/ /\ s \in hasDrop \cup untyped \/ (s \notin holders /\ parts = {})
              /\ UNCHANGED <<hasDrop, refs, changed>>
    /\ Advance

\* Mutant: one walk over the structs is enough.
PassEndsOnce ==
    /\ pc = "propagate" /\ at > Len(Scanned)
    /\ at' = 1 /\ changed' = FALSE /\ pc' = "fix"
    /\ UNCHANGED <<program, hasDrop, refs, rounds, order>>

PassEnds ==
    /\ pc = "propagate" /\ at > Len(Scanned)
    /\ at' = 1 /\ changed' = FALSE
    /\ pc' = IF changed THEN "propagate" ELSE "fix"
    /\ UNCHANGED <<program, hasDrop, refs, rounds, order>>

\* Mutant: only fields are fixed.
FixFieldsOnly ==
    /\ pc = "fix" /\ pc' = "sort"
    /\ refs' = refs \cup {r \in Members(Scanned) \X hasDrop : Refers(r[1], r[2])}
    /\ at' = 1 /\ changed' = FALSE
    /\ UNCHANGED <<program, hasDrop, rounds, order>>

\* Every field is fixed, and the arguments and results of the functions on the list.
FixRefs ==
    /\ pc = "fix" /\ pc' = "sort"
    /\ refs' = refs \cup {r \in (Members(Scanned) \cup {Func}) \X hasDrop : Refers(r[1], r[2])}
    /\ at' = 1 /\ changed' = FALSE
    /\ UNCHANGED <<program, hasDrop, rounds, order>>

\* is_type_copy, of the type of a reference: check_impl knows the names in the impls, which
\* no instance has; an `impl Copy` is looked for before the mark of the definition, which is
\* asked of structs.
RegisteredDrop(t) == t \in (impls \cup missed) \ Members(list["instance"])
IsTypeCopy(s, t) ==
    /\ <<s, t>> \notin refs
    /\ ~RegisteredDrop(t)
    /\ t \in copies \/ t \notin Members(Scanned) \/ t \notin hasDrop

-----------------------------------------------------------------------------
(* topo_sort_structs *)

\* Mutant: an array is taken for a pointer.
DependsOnValue(s, d) ==
    \E u \in uses[s] :
        /\ u.how = "value"
        /\ IF s \in Members(list["enum"]) THEN u.of = d ELSE <<u.of, d>> \in Begins

\* struct_depends_on: of a field, the beginning of its type is compared with the name; of
\* an enum's payload, the whole.
DependsOn(s, d) ==
    \E u \in uses[s] :
        /\ u.how # "pointer"
        /\ IF s \in Members(list["enum"]) THEN u.of = d ELSE <<u.of, d>> \in Begins

Blocked(t) == \E d \in Declared \ (Emitted \cup {t}) : DependsOn(t, d)

SortVisit ==
    /\ pc = "sort" /\ at <= Len(Nodes)
    /\ LET t == Nodes[at]
       IN  IF t \in Emitted \/ Blocked(t) THEN UNCHANGED <<order, changed>>
           ELSE order' = Append(order, t) /\ changed' = TRUE
    /\ at' = at + 1
    /\ UNCHANGED <<program, hasDrop, refs, pc, rounds>>

\* max_iterations
Limit == Len(Nodes) * Len(Nodes)

SortPassEnds ==
    /\ pc = "sort" /\ at > Len(Nodes)
    /\ rounds' = rounds + 1 /\ at' = 1 /\ changed' = FALSE
    /\ pc' = IF changed /\ rounds' < Limit THEN "sort" ELSE "rest"
    /\ UNCHANGED <<program, hasDrop, refs, order>>

\* What is left, because it depends on itself, in the order of the list.
Rest ==
    /\ pc = "rest" /\ at <= Len(Nodes)
    /\ order' = IF Nodes[at] \in Emitted THEN order ELSE Append(order, Nodes[at])
    /\ at' = at + 1
    /\ UNCHANGED <<program, hasDrop, refs, pc, changed, rounds>>

RestEnds ==
    /\ pc = "rest" /\ at > Len(Nodes)
    /\ pc' = "done"
    /\ UNCHANGED <<program, hasDrop, refs, at, changed, rounds, order>>

\* Mutant: only what has an `impl Drop` gets a glue.
HasGlueIfImpl(t) == t \in Members(Scanned) /\ t \in impls

\* emit_auto_drop_glues, in the order of the definitions; the glue of s calls that of t.
HasGlue(t) == t \in Members(Scanned) /\ t \in hasDrop
GlueCalls(s, t) == HasGlue(s) /\ InStruct(s, t) /\ t \in hasDrop

-----------------------------------------------------------------------------
Step == Visit \/ PassEnds \/ FixRefs \/ SortVisit \/ SortPassEnds \/ Rest \/ RestEnds

\* Every type's text has one place.
Parse ==
    /\ pc = "parse"
    /\ \E us \in Affordable, t \in Type \ Declared, k \in Kind :
           \E has \in Traits(k) : Declare(t, k, us, has)

Next == Parse \/ ParseEnds \/ Step \/ (pc \in {"parse", "done"} /\ UNCHANGED vars)

Spec == Init /\ [][Next]_vars

-----------------------------------------------------------------------------
\* The least set that has `core` and every struct of S with a part in the set.
Closed(C, core, S) ==
    core \subseteq C /\ \A s \in S, t \in C : InStruct(s, t) => s \in C
Around(core, S) == {t \in Type : \A C \in SUBSET Type : Closed(C, core, S) => t \in C}

\* What owns something, whatever the order of the text: what has an `impl Drop`, a closure or
\* a vector, and each struct around it.
Owners == Around(impls \cup missed \cup holders, Members(Scanned))

\* What can be found out: without the impls that marked nothing, and not through a struct
\* that cannot be marked.
Typed == Members(Scanned) \ untyped
Known == Around(impls \cup (holders \ untyped), Typed)

\* Owners that are lost.
Overlooked == missed \cup (untyped \cap Owners)

\* propagate_drop_traits: when the references are fixed and when code is generated, the
\* definitions marked are those that can be found to own something, however deep and in
\* whatever order, and no others; they are all that do, unless one was overlooked.
OwnersMarked ==
    pc \in {"fix", "done"} => /\ hasDrop = Known /\ hasDrop \subseteq Owners
                              /\ Overlooked = {} => hasDrop = Owners

\* is_type_copy and fix_type_refs_has_drop: what the code generator drops, by the mark of the
\* definition, the move checker does not let be copied, be it in a field, a function or a
\* method (but for an owner with an `impl Copy` in a method: it is copied, and both copies are
\* dropped); and it moves nothing that is not dropped, unless its `impl Drop` was missed.
CopiesNotDropped ==
    pc \in {"sort", "rest", "done"} =>
        \A s \in Members(Scanned) \cup {Func, Method}, t \in Members(Scanned) :
            Refers(s, t) =>
                /\ IsTypeCopy(s, t) => t \notin hasDrop \/ (s = Method /\ t \in copies)
                /\ ~IsTypeCopy(s, t) => t \in hasDrop \cup missed

Contains(s, t) == \E u \in uses[s] : u.how # "pointer" /\ u.of = t

\* Some order of all the types has each behind what it seems to depend on.
Acyclic == \A R \in (SUBSET Declared) \ {{}} :
               \E t \in R : \A d \in R \ {t} : ~DependsOn(t, d)

Before(s, t) == \A i, j \in 1..Len(order) : (order[i] = s /\ order[j] = t) => i < j

\* topo_sort_structs: every type is defined once, and unless there is a cycle each behind the
\* types that it contains; max_iterations does not cut the sorting short.
EmittedInOrder ==
    pc = "done" =>
        /\ Emitted = Declared
        /\ \A i, j \in 1..Len(order) : order[i] = order[j] => i = j
        /\ Acyclic => \A s, t \in Declared : s # t /\ Contains(s, t) => Before(t, s)

\* emit_auto_drop_glues: dropping a struct drops all of its parts that are known to own
\* something (all that do, unless one was overlooked), through glue functions which exist and
\* are defined before they are called.
DropReachesParts ==
    pc = "done" =>
        \A s \in Members(Scanned), t \in Owners :
            InStruct(s, t) /\ (Overlooked = {} \/ (s \in Typed /\ t \in Known)) =>
                /\ GlueCalls(s, t) /\ HasGlue(t)
                /\ Acyclic /\ s # t => Before(t, s)
=============================================================================
