----------------------------- MODULE Sync_proof -----------------------------
(***************************************************************************)
(* Proofs about Sync: a Once runs its closure once and shows its effect to *)
(* every call that has returned, a Barrier lets nobody out of a round that *)
(* somebody has not come to, a Semaphore neither makes nor loses a permit, *)
(* and some worker can always go on, for any number of threads, calls and  *)
(* spurious wakeups.                                                       *)
(***************************************************************************)
EXTENDS Sync, SequenceTheorems, FiniteSetTheorems, TLAPS

\* Where a worker can be.
Places == {"unborn", "failed", "ready", "finished", "joined", "lock", "check", "func", "mark",
           "unlock", "asleep", "loop", "arrive", "leave", "try", "taken", "post"}

\* What a closure and a call store.
Item == {"data", "done"}

\* The types of the variables.
Types ==
    /\ object \in Object
    /\ pc \in [Thread -> Places]
    /\ calls \in [Thread -> Nat]
    /\ seen \in [Thread -> Int]
    /\ buffer \in [Thread -> Seq(Item)]
    /\ memory \in SUBSET Item
    /\ ran \in Nat /\ threshold \in Nat /\ count \in Int /\ gen \in Nat

-----------------------------------------------------------------------------
(* Semaphore *)

\* The workers that have taken a permit and not given it back.
Held == {t \in Thread : pc[t] \in {"taken", "post"}}

\* The permits that are there and those that are held are those the semaphore was made with.
Permits ==
    object = "semaphore" =>
        /\ count \in Nat
        /\ count + Cardinality(Held) = threshold

-----------------------------------------------------------------------------
(* Barrier *)

\* A worker that has arrived and not left.
Inside == {"asleep", "loop", "leave"}

\* The workers that have come to the round that is open.
Waiting == {t \in Thread : pc[t] \in {"asleep", "loop"} /\ seen[t] = gen}

\* A worker is in the open round or has yet to leave the one before it; its calls are the
\* rounds it has left.
Round(t) ==
    /\ calls[t] = IF pc[t] \in Inside THEN seen[t] ELSE gen
    /\ pc[t] \in Inside => seen[t] \in {gen - 1, gen}
    /\ pc[t] = "leave" => seen[t] # gen

\* The count says who has yet to come to the open round.
InRounds ==
    object = "barrier" =>
        /\ threshold = Cardinality(Thread)
        /\ count = threshold - Cardinality(Waiting)
        /\ \A t \in Thread : Round(t)

-----------------------------------------------------------------------------
(* Once *)

\* Where a worker holds the mutex of a Once.
Holding == {"check", "func", "mark", "unlock"}

\* And nowhere else.
OncePlace(t) ==
    /\ pc[t] \in Holding \cup {"unborn", "failed", "ready", "finished", "joined", "lock"}
    /\ pc[t] \in Holding <=> owner = t

NoneReturned == \A t \in Thread : calls[t] = 0

Quiet(t) == buffer[t] = <<>>

\* The closure has not run.
Fresh ==
    /\ ran = 0 /\ memory = {} /\ NoneReturned
    /\ \A t \in Thread : Quiet(t) /\ pc[t] \notin {"mark", "unlock"}

\* Worker t has run it and not yet set `done`.
Stored(t) ==
    /\ ran = 1 /\ NoneReturned /\ pc[t] = "mark"
    /\ \A u \in Thread \ {t} : Quiet(u)
    /\ \/ memory = {} /\ buffer[t] = <<"data">>
       \/ memory = {"data"} /\ buffer[t] = <<>>

\* Worker t has set `done`, and some of its stores are still its own.
Marked(t) ==
    /\ ran = 1 /\ pc[t] = "unlock"
    /\ \A u \in Thread \ {t} : Quiet(u)
    /\ \/ memory = {} /\ buffer[t] = <<"data", "done">> /\ NoneReturned
       \/ memory = {"data"} /\ buffer[t] = <<"done">> /\ NoneReturned
       \/ ~InOrder /\ memory = {"done"} /\ buffer[t] = <<"data">>

\* All that it stored is in the memory.
Settled ==
    /\ ran = 1 /\ memory = Item
    /\ \A t \in Thread : Quiet(t) /\ pc[t] \notin {"func", "mark"}

\* A Once is in one of these stages.
Ran ==
    /\ object # "once" => ran = 0
    /\ object = "once" =>
        /\ \A t \in Thread : OncePlace(t)
        /\ Fresh \/ (\E t \in Thread : Stored(t) \/ Marked(t)) \/ Settled

SyncInv == Types /\ Permits /\ InRounds /\ Ran


-----------------------------------------------------------------------------
(* The places and the stores of the workers *)

\* A worker that goes somewhere was elsewhere before, and the others stay.
LEMMA GoesFacts ==
    ASSUME Types, NEW t \in Thread, NEW from, NEW to, Goes(t, from, to)
    PROVE  /\ pc[t] = from /\ pc'[t] = to
           /\ \A u \in Thread \ {t} : pc'[u] = pc[u]
           /\ to \in Places => pc' \in [Thread -> Places]
    BY DEF Goes, Types

\* A call that returns is counted once, for the worker that made it.
LEMMA ReturnsFacts ==
    ASSUME Types, NEW t \in Thread, NEW from, Returns(t, from)
    PROVE  /\ pc[t] = from /\ pc'[t] \in {"ready", "finished"}
           /\ calls'[t] = calls[t] + 1
           /\ \A u \in Thread \ {t} : pc'[u] = pc[u] /\ calls'[u] = calls[u]
           /\ pc' \in [Thread -> Places] /\ calls' \in [Thread -> Nat]
    BY DEF Goes, Returns, Types, Places

\* A sequence of stores without its i-th.
Without(s, i) == SubSeq(s, 1, i - 1) \o SubSeq(s, i + 1, Len(s))

\* A buffer from which one store has left.
LEMMA WithoutFacts ==
    ASSUME NEW s \in Seq(Item), NEW i \in 1..Len(s)
    PROVE  /\ Without(s, i) \in Seq(Item)
           /\ Len(Without(s, i)) = Len(s) - 1
           /\ \A j \in 1..(Len(s) - 1) : Without(s, i)[j] = IF j < i THEN s[j] ELSE s[j + 1]
<1> DEFINE a == SubSeq(s, 1, i - 1)
           b == SubSeq(s, i + 1, Len(s))
<1>1. Len(s) \in Nat /\ \A j \in 1..Len(s) : s[j] \in Item
    BY LenProperties, ElementOfSeq
<1>2. /\ a \in Seq(Item) /\ Len(a) = i - 1
      /\ \A j \in 1..(i - 1) : a[j] = s[j]
    <2>1. \A j \in 1..(i - 1) : s[j] \in Item
        BY <1>1
    <2>2. 1 \in Int /\ i - 1 \in Int
        BY <1>1
    <2>3. /\ a \in Seq(Item)
          /\ Len(a) = IF 1 <= i - 1 THEN (i - 1) - 1 + 1 ELSE 0
          /\ \A j \in 1..((i - 1) - 1 + 1) : a[j] = s[1 + j - 1]
        BY <2>1, <2>2, SubSeqProperties, SMTT(30)
    <2> QED
        BY <2>3, <1>1
<1>3. /\ b \in Seq(Item) /\ Len(b) = Len(s) - i
      /\ \A j \in 1..(Len(s) - i) : b[j] = s[i + j]
    <2>1. \A j \in (i + 1)..Len(s) : s[j] \in Item
        BY <1>1
    <2>2. i + 1 \in Int /\ Len(s) \in Int
        BY <1>1
    <2>3. /\ b \in Seq(Item)
          /\ Len(b) = IF i + 1 <= Len(s) THEN Len(s) - (i + 1) + 1 ELSE 0
          /\ \A j \in 1..(Len(s) - (i + 1) + 1) : b[j] = s[(i + 1) + j - 1]
        BY <2>1, <2>2, SubSeqProperties, SMTT(30)
    <2> QED
        BY <2>3, <1>1
<1> HIDE DEF a, b
<1>4. /\ a \o b \in Seq(Item)
      /\ Len(a \o b) = Len(a) + Len(b)
      /\ \A j \in 1..(Len(a) + Len(b)) : (a \o b)[j] = IF j <= Len(a) THEN a[j] ELSE b[j - Len(a)]
    BY <1>2, <1>3, ConcatProperties
<1> DEFINE w == a \o b
<1>5. Without(s, i) = w
    BY DEF Without, a, b
<1>6. /\ w \in Seq(Item) /\ Len(w) = Len(s) - 1
      /\ \A j \in 1..(Len(s) - 1) : w[j] = IF j <= i - 1 THEN a[j] ELSE b[j - (i - 1)]
    BY <1>1, <1>2, <1>3, <1>4
<1> HIDE DEF w
<1>7. ASSUME NEW j \in 1..(Len(s) - 1)
      PROVE  w[j] = IF j < i THEN s[j] ELSE s[j + 1]
    <2>1. CASE j < i
        BY <2>1, <1>1, <1>2, <1>6
    <2>2. CASE j >= i
        <3>1. j - (i - 1) \in 1..(Len(s) - i) /\ i + (j - (i - 1)) = j + 1
            BY <2>2, <1>1
        <3>2. b[j - (i - 1)] = s[j + 1]
            BY <3>1, <1>3
        <3> QED
            BY <2>2, <3>2, <1>1, <1>6
    <2> QED
        BY <2>1, <2>2, <1>1
<1> QED
    BY <1>5, <1>6, <1>7

\* A buffer of one store, and of two.
LEMMA SmallBuffers ==
    ASSUME NEW s \in Seq(Item)
    PROVE  /\ Len(s) = 0 => s = <<>>
           /\ Len(s) = 1 => s = <<s[1]>>
           /\ Len(s) = 2 => s = <<s[1], s[2]>>
<1>1. Len(s) = 0 => s = <<>>
    BY EmptySeq
<1>2. ASSUME Len(s) = 1
      PROVE  s = <<s[1]>>
    <2> DEFINE r == <<s[1]>>
    <2>1. s[1] \in Item
        BY <1>2, ElementOfSeq
    <2>2. r \in Seq(Item) /\ Len(r) = 1 /\ r[1] = s[1]
        BY <2>1
    <2> HIDE DEF r
    <2>3. \A i \in 1..Len(s) : s[i] = r[i]
        BY <1>2, <2>2
    <2>4. s = r
        BY <1>2, <2>2, <2>3, SeqEqual
    <2> QED
        BY <2>4 DEF r
<1>3. ASSUME Len(s) = 2
      PROVE  s = <<s[1], s[2]>>
    <2> DEFINE r == <<s[1], s[2]>>
    <2>1. s[1] \in Item /\ s[2] \in Item
        <3>1. 1 \in 1..Len(s) /\ 2 \in 1..Len(s)
            BY <1>3
        <3> QED
            BY <3>1, ElementOfSeq
    <2>2. r \in Seq(Item) /\ Len(r) = 2 /\ r[1] = s[1] /\ r[2] = s[2]
        BY <2>1
    <2> HIDE DEF r
    <2>3. \A i \in 1..Len(s) : s[i] = r[i]
        BY <1>3, <2>2
    <2>4. s = r
        BY <1>3, <2>2, <2>3, SeqEqual
    <2> QED
        BY <2>4 DEF r
<1> QED
    BY <1>1, <1>2, <1>3

\* What the removal of a store leaves of the buffers that a closure fills.
LEMMA WithoutOne ==
    ASSUME NEW x \in Item
    PROVE  Without(<<x>>, 1) = <<>>
<1> DEFINE s == <<x>>
           w == Without(s, 1)
<1>1. s \in Seq(Item) /\ Len(s) = 1
    OBVIOUS
<1> HIDE DEF s
<1>2. 1 \in 1..Len(s)
    BY <1>1
<1>3. w \in Seq(Item) /\ Len(w) = 0
    BY <1>1, <1>2, WithoutFacts
<1> HIDE DEF w
<1>4. w = <<>>
    BY <1>3, SmallBuffers
<1> QED
    BY <1>4 DEF w, s

\* A buffer of two stores from which one has left.
LEMMA WithoutTwo ==
    ASSUME NEW x \in Item, NEW y \in Item, NEW i \in {1, 2}
    PROVE  Without(<<x, y>>, i) = IF i = 1 THEN <<y>> ELSE <<x>>
<1> DEFINE s == <<x, y>>
           w == Without(s, i)
<1>1. s \in Seq(Item) /\ Len(s) = 2 /\ s[1] = x /\ s[2] = y
    OBVIOUS
<1> HIDE DEF s
<1>2. i \in 1..Len(s)
    BY <1>1
<1>3. w \in Seq(Item) /\ Len(w) = Len(s) - 1
    BY <1>1, <1>2, WithoutFacts
<1>4. \A j \in 1..(Len(s) - 1) : w[j] = IF j < i THEN s[j] ELSE s[j + 1]
    BY <1>1, <1>2, WithoutFacts
<1> HIDE DEF w
<1>5. w[1] = IF 1 < i THEN s[1] ELSE s[2]
    BY <1>1, <1>4
<1>6. w = <<w[1]>>
    BY <1>1, <1>3, SmallBuffers
<1>7. w = IF i = 1 THEN <<y>> ELSE <<x>>
    BY <1>1, <1>5, <1>6
<1> QED
    BY <1>7 DEF w, s

\* Appending to the buffers of Once: one store after the other, "data" and then "done".
LEMMA AppendSmall ==
    ASSUME NEW x \in Item, NEW y \in Item
    PROVE  Append(<<>>, x) = <<x>> /\ Append(<<x>>, y) = <<x, y>>
<1>1. Append(<<>>, x) = <<x>>
    <2> DEFINE s == <<>>
               r == Append(s, x)
    <2>1. s \in Seq(Item) /\ Len(s) = 0
        OBVIOUS
    <2> HIDE DEF s
    <2>2. r \in Seq(Item) /\ Len(r) = Len(s) + 1
        BY <2>1, AppendProperties
    <2>3. r[Len(s) + 1] = x
        BY <2>1, AppendProperties
    <2> HIDE DEF r
    <2>4. r = <<r[1]>>
        BY <2>1, <2>2, SmallBuffers
    <2>5. r = <<x>>
        BY <2>1, <2>3, <2>4
    <2> QED
        BY <2>5 DEF r, s
<1>2. Append(<<x>>, y) = <<x, y>>
    <2> DEFINE s == <<x>>
               r == Append(s, y)
    <2>1. s \in Seq(Item) /\ Len(s) = 1 /\ s[1] = x
        OBVIOUS
    <2> HIDE DEF s
    <2>2. r \in Seq(Item) /\ Len(r) = Len(s) + 1
        BY <2>1, AppendProperties
    <2>3. r[Len(s) + 1] = y
        BY <2>1, AppendProperties
    <2>4. \A j \in 1..Len(s) : r[j] = s[j]
        BY <2>1, AppendProperties
    <2> HIDE DEF r
    <2>5. r = <<r[1], r[2]>>
        BY <2>1, <2>2, SmallBuffers
    <2>6. r = <<x, y>>
        BY <2>1, <2>3, <2>4, <2>5
    <2> QED
        BY <2>6 DEF r, s
<1> QED
    BY <1>1, <1>2

\* One store leaves the buffer of one worker for the memory.
LEMMA FlushFacts ==
    ASSUME Types, NEW t \in Thread, Flush(t)
    PROVE  \E i \in 1..Len(buffer[t]) :
               /\ InOrder => i = 1
               /\ memory' = memory \cup {buffer[t][i]}
               /\ buffer'[t] = Without(buffer[t], i)
               /\ \A u \in Thread \ {t} : buffer'[u] = buffer[u]
               /\ buffer' \in [Thread -> Seq(Item)]
<1>1. buffer \in [Thread -> Seq(Item)] /\ buffer[t] \in Seq(Item)
    BY DEF Types
<1>2. PICK i \in 1..Len(buffer[t]) :
          /\ InOrder => i = 1
          /\ memory' = memory \cup {buffer[t][i]}
          /\ buffer' = [buffer EXCEPT ![t] = Without(buffer[t], i)]
    BY <1>1 DEF Flush, Without
<1>3. Without(buffer[t], i) \in Seq(Item)
    BY <1>1, WithoutFacts
<1>4. /\ buffer'[t] = Without(buffer[t], i)
      /\ \A u \in Thread \ {t} : buffer'[u] = buffer[u]
      /\ buffer' \in [Thread -> Seq(Item)]
    BY <1>1, <1>2, <1>3
<1> QED
    BY <1>2, <1>4


-----------------------------------------------------------------------------
(* Types *)

\* There are finitely many workers.
LEMMA ThreadFinite == IsFiniteSet(Thread) /\ Cardinality(Thread) \in Nat
    BY SyncAssumption, FS_CardinalityType

\* The types at the start.
LEMMA InitTypes == SyncInit => Types
<1> SUFFICES ASSUME SyncInit PROVE Types
    OBVIOUS
<1>1. threshold \in Nat
    BY SyncAssumption, ThreadFinite DEF SyncInit
<1>2. buffer \in [Thread -> Seq(Item)]
    BY EmptySeq DEF SyncInit
<1> QED
    BY <1>1, <1>2 DEF SyncInit, Types, Places

\* The steps of a call keep the types.
LEMMA TypesWork ==
    ASSUME Types, NEW t \in Thread, Work(t)
    PROVE  Types'
<1> USE DEF threads, once, counter
<1>1. CASE Wake(t)
    BY <1>1, GoesFacts DEF Wake, Lock, Types, Places
<1>2. CASE Flush(t)
    <2>1. PICK i \in 1..Len(buffer[t]) :
              memory' = memory \cup {buffer[t][i]} /\ buffer' \in [Thread -> Seq(Item)]
        BY <1>2, FlushFacts
    <2>2. buffer[t][i] \in Item
        BY <2>1, ElementOfSeq DEF Types
    <2> QED
        BY <1>2, <2>1, <2>2 DEF Flush, Types
<1>3. CASE Fast(t)
    <2>1. CASE Returns(t, "ready")
        BY <1>3, <2>1, ReturnsFacts DEF Fast, Types
    <2>2. CASE Goes(t, "ready", "lock") /\ UNCHANGED calls
        BY <1>3, <2>2, GoesFacts DEF Fast, Types, Places
    <2> QED
        BY <1>3, <2>1, <2>2 DEF Fast
<1>4. CASE LockOnce(t)
    BY <1>4, GoesFacts DEF LockOnce, Lock, Types, Places
<1>5. CASE Check(t)
    <2>1. PICK to \in {"unlock", "func"} : Goes(t, "check", to)
        BY <1>5 DEF Check
    <2>2. pc' \in [Thread -> Places]
        BY <2>1, GoesFacts DEF Places
    <2> QED
        BY <1>5, <2>2 DEF Check, Types
<1>6. CASE Func(t)
    <2>1. pc' \in [Thread -> Places]
        BY <1>6, GoesFacts DEF Func, Places
    <2>2. Append(buffer[t], "data") \in Seq(Item)
        BY AppendProperties DEF Types, Item
    <2>3. buffer' \in [Thread -> Seq(Item)]
        BY <1>6, <2>2 DEF Func, Types
    <2>4. ran' \in Nat
        BY <1>6 DEF Func, Types
    <2> QED
        BY <1>6, <2>1, <2>3, <2>4 DEF Func, Types
<1>7. CASE Mark(t)
    <2>1. pc' \in [Thread -> Places]
        BY <1>7, GoesFacts DEF Mark, Places
    <2>2. Append(buffer[t], "done") \in Seq(Item)
        BY AppendProperties DEF Types, Item
    <2> QED
        BY <1>7, <2>1, <2>2 DEF Mark, Types
<1>8. CASE UnlockOnce(t)
    BY <1>8, ReturnsFacts DEF UnlockOnce, Types
<1>9. CASE LockBarrier(t)
    BY <1>9, GoesFacts DEF LockBarrier, Lock, Types, Places
<1>10. CASE Arrive(t)
    <2>1. pc' \in [Thread -> Places]
        BY <1>10, GoesFacts DEF Arrive, Places
    <2>2. seen' \in [Thread -> Int]
        BY <1>10 DEF Arrive, Types
    <2>3. gen' \in Nat /\ count' \in Int
        BY <1>10 DEF Arrive, Types
    <2> QED
        BY <1>10, <2>1, <2>2, <2>3 DEF Arrive, Types
<1>11. CASE Loop(t)
    <2>1. pc' \in [Thread -> Places]
        BY <1>11, GoesFacts DEF Loop, Sleep, Places
    <2> QED
        BY <1>11, <2>1 DEF Loop, Types
<1>12. CASE Leave(t)
    BY <1>12, ReturnsFacts DEF Leave, Types
<1>13. CASE LockSemaphore(t)
    BY <1>13, GoesFacts DEF LockSemaphore, Lock, Types, Places
<1>14. CASE Wait(t)
    <2>1. pc' \in [Thread -> Places]
        BY <1>14, GoesFacts DEF Wait, Sleep, Take, Places
    <2> QED
        BY <1>14, <2>1 DEF Wait, Take, Types
<1>15. CASE TryWait(t)
    <2>1. CASE Take(t, "try") /\ UNCHANGED calls
        <3>1. pc' \in [Thread -> Places]
            BY <2>1, GoesFacts DEF Take, Places
        <3> QED
            BY <1>15, <2>1, <3>1 DEF TryWait, Take, Types
    <2>2. CASE Returns(t, "try") /\ UNCHANGED count
        BY <1>15, <2>2, ReturnsFacts DEF TryWait, Types
    <2> QED
        BY <1>15, <2>1, <2>2 DEF TryWait
<1>16. CASE Post(t)
    BY <1>16, ReturnsFacts DEF Post, Types
<1> QED
    BY <1>1, <1>2, <1>3, <1>4, <1>5, <1>6, <1>7, <1>8, <1>9, <1>10, <1>11, <1>12, <1>13, <1>14,
       <1>15, <1>16 DEF Work

\* Every step keeps the types.
LEMMA TypesStep ==
    ASSUME Types, [SyncNext]_syncVars
    PROVE  Types'
<1> USE DEF threads, once, counter
<1>1. ASSUME NEW t \in Thread, Spawn(t)
      PROVE  Types'
    <2>1. pc' \in [Thread -> Places]
        BY <1>1, GoesFacts DEF Spawn, Places
    <2> QED
        BY <1>1, <2>1 DEF Spawn, Types
<1>2. ASSUME NEW t \in Thread, Join(t)
      PROVE  Types'
    BY <1>2, GoesFacts DEF Join, Types, Places
<1>3. ASSUME NEW t \in Thread, SpuriousWakeup(t)
      PROVE  Types'
    BY <1>3 DEF SpuriousWakeup, Types
<1>4. CASE UNCHANGED syncVars
    BY <1>4 DEF Types, syncVars
<1> QED
    BY <1>1, <1>2, <1>3, <1>4, TypesWork DEF SyncNext, Done


-----------------------------------------------------------------------------
(* The permits of a semaphore *)

Permit == {"taken", "post"}

\* A worker that neither takes nor gives back changes nothing.
LEMMA HeldSame ==
    ASSUME Types, NEW t \in Thread, NEW from, NEW to, Goes(t, from, to),
           from \in Permit <=> to \in Permit
    PROVE  Held' = Held
    BY GoesFacts DEF Held, Permit

\* A worker that takes a permit is one more that holds one.
LEMMA HeldTaken ==
    ASSUME Types, NEW t \in Thread, NEW from, from \notin Permit, Goes(t, from, "taken")
    PROVE  Cardinality(Held') = Cardinality(Held) + 1
<1>1. Held' = Held \cup {t} /\ t \notin Held
    BY GoesFacts DEF Held, Permit
<1>2. IsFiniteSet(Held)
    BY ThreadFinite, FS_Subset DEF Held
<1> QED
    BY <1>1, <1>2, FS_AddElement

\* A worker that posts is one less.
LEMMA HeldPosted ==
    ASSUME Types, NEW t \in Thread, Returns(t, "post")
    PROVE  Cardinality(Held') = Cardinality(Held) - 1
<1>1. Held' = Held \ {t} /\ t \in Held
    BY ReturnsFacts DEF Held
<1>2. IsFiniteSet(Held)
    BY ThreadFinite, FS_Subset DEF Held
<1> QED
    BY <1>1, <1>2, FS_RemoveElement

\* Finitely many workers hold a permit.
LEMMA HeldFinite == IsFiniteSet(Held) /\ Cardinality(Held) \in Nat
<1>1. Held \subseteq Thread
    BY DEF Held
<1> QED
    BY <1>1, ThreadFinite, FS_Subset, FS_CardinalityType

\* What a step of the other objects does not touch.
LEMMA PermitsSame ==
    ASSUME Permits, UNCHANGED <<object, count, threshold>>, object = "semaphore" => Held' = Held
    PROVE  Permits'
    BY DEF Permits

\* A step inside of a call keeps the permits.
LEMMA PermitsWork ==
    ASSUME Types, Permits, object = "semaphore", NEW t \in Thread, Work(t)
    PROVE  Permits'
<1> USE DEF threads, once, counter
<1>0. count \in Nat /\ count + Cardinality(Held) = threshold /\ Cardinality(Held) \in Nat
      /\ threshold \in Nat
    BY HeldFinite DEF Permits, Types
<1>1. CASE Wake(t)
    BY <1>1, HeldSame, PermitsSame DEF Wake, Lock, Permit
<1>2. CASE Flush(t)
    <2>1. Held' = Held
        BY <1>2 DEF Flush, Held
    <2> QED
        BY <1>2, <2>1, PermitsSame DEF Flush
<1>3. CASE LockSemaphore(t)
    BY <1>3, HeldSame, PermitsSame DEF LockSemaphore, Lock, Permit
<1>4. ASSUME NEW from \in {"loop", "try"}, Take(t, from), count > 0, UNCHANGED <<object, threshold>>
      PROVE  Permits'
    <2>1. Cardinality(Held') = Cardinality(Held) + 1
        BY <1>4, HeldTaken DEF Take, Permit
    <2>2. count' \in Nat /\ count' + Cardinality(Held') = threshold
        BY <1>0, <1>4, <2>1 DEF Take
    <2> QED
        BY <1>4, <2>2 DEF Permits
<1>5. CASE Wait(t)
    <2>1. CASE Sleep(t, "loop") /\ UNCHANGED count
        BY <1>5, <2>1, HeldSame, PermitsSame DEF Wait, Sleep, Permit
    <2> QED
        BY <1>4, <1>5, <2>1 DEF Wait
<1>6. CASE TryWait(t)
    <2>1. CASE Returns(t, "try") /\ UNCHANGED count
        <3>1. Held' = Held
            BY <2>1, ReturnsFacts DEF Held
        <3> QED
            BY <1>6, <2>1, <3>1, PermitsSame DEF TryWait
    <2> QED
        BY <1>4, <1>6, <2>1 DEF TryWait
<1>7. CASE Post(t)
    <2>1. Cardinality(Held') = Cardinality(Held) - 1
        BY <1>7, HeldPosted DEF Post
    <2>2. count' \in Nat /\ count' + Cardinality(Held') = threshold
        BY <1>0, <1>7, <2>1 DEF Post
    <2> QED
        BY <1>7, <2>2 DEF Post, Permits
<1> QED
    BY <1>1, <1>2, <1>3, <1>5, <1>6, <1>7
    DEF Work, Fast, LockOnce, Check, Func, Mark, UnlockOnce, LockBarrier, Arrive, Loop, Leave

\* So does every step.
LEMMA PermitsStep ==
    ASSUME Types, Permits, [SyncNext]_syncVars
    PROVE  Permits'
<1> USE DEF threads, once, counter
<1>1. ASSUME NEW t \in Thread, Spawn(t)
      PROVE  Permits'
    BY <1>1, HeldSame, PermitsSame DEF Spawn, Permit
<1>2. ASSUME NEW t \in Thread, Join(t)
      PROVE  Permits'
    BY <1>2, HeldSame, PermitsSame DEF Join, Permit
<1>3. ASSUME NEW t \in Thread, SpuriousWakeup(t)
      PROVE  Permits'
    <2>1. Held' = Held
        BY <1>3 DEF SpuriousWakeup, Held
    <2> QED
        BY <1>3, <2>1, PermitsSame DEF SpuriousWakeup
<1>4. CASE UNCHANGED syncVars
    <2>1. Held' = Held
        BY <1>4 DEF syncVars, Held
    <2> QED
        BY <1>4, <2>1, PermitsSame DEF syncVars
<1>5. ASSUME NEW t \in Thread, Work(t)
      PROVE  Permits'
    <2>1. CASE object = "semaphore"
        BY <1>5, <2>1, PermitsWork
    <2>2. CASE object # "semaphore"
        <3>1. object' = object
            BY <1>5 DEF Work, Wake, Flush, Fast, LockOnce, Check, Func, Mark, UnlockOnce, LockBarrier,
                        Arrive, Loop, Leave, LockSemaphore, Wait, TryWait, Post
        <3> QED
            BY <2>2, <3>1 DEF Permits
    <2> QED
        BY <2>1, <2>2
<1> QED
    BY <1>1, <1>2, <1>3, <1>4, <1>5 DEF SyncNext, Done

\* Nobody holds a permit at the start.
LEMMA InitPermits == SyncInit => Permits
<1> SUFFICES ASSUME SyncInit PROVE Permits
    OBVIOUS
<1>1. Held = {}
    BY DEF SyncInit, Held
<1>2. threshold \in Nat /\ count = threshold
    BY InitTypes DEF SyncInit, Types
<1> QED
    BY <1>1, <1>2, FS_EmptySet DEF Permits


-----------------------------------------------------------------------------
(* The rounds of a barrier *)

\* Finitely many workers wait in a round.
LEMMA WaitingFinite ==
    /\ Waiting \subseteq Thread
    /\ IsFiniteSet(Waiting) /\ Cardinality(Waiting) \in Nat
<1>1. Waiting \subseteq Thread
    BY DEF Waiting
<1> QED
    BY <1>1, ThreadFinite, FS_Subset, FS_CardinalityType

\* Every worker is where its calls say.
Rounded == \A t \in Thread : Round(t)

\* The counter and the round of a step that changes neither the waiting nor the rounds.
LEMMA RoundsSame ==
    ASSUME InRounds, UNCHANGED <<object, threshold, count>>, Waiting' = Waiting,
           object = "barrier" => Rounded'
    PROVE  InRounds'
    BY DEF InRounds, Rounded

\* A worker that moves within the barrier, or outside it.
LEMMA RoundsMove ==
    ASSUME Types, InRounds, NEW t \in Thread, NEW from, NEW to, Goes(t, from, to),
           UNCHANGED <<object, threshold, count, gen, seen, calls>>,
           from \in {"asleep", "loop"} <=> to \in {"asleep", "loop"}, to # "leave", from # "leave"
    PROVE  InRounds'
<1>1. Waiting' = Waiting
    BY GoesFacts DEF Waiting
<1>2. ASSUME object = "barrier", NEW u \in Thread
      PROVE  Round(u)'
    <2>1. Round(u)
        BY <1>2 DEF InRounds
    <2> QED
        BY <2>1, GoesFacts DEF Round, Inside
<1> QED
    BY <1>1, <1>2, RoundsSame DEF Rounded

\* The counter says how many are to come: with all but one in the round, it is 1.
LEMMA LastArrives ==
    ASSUME Types, InRounds, object = "barrier", count = 1, NEW t \in Thread, t \notin Waiting
    PROVE  Waiting = Thread \ {t}
<1>1. Cardinality(Waiting) = Cardinality(Thread) - 1
    BY WaitingFinite, ThreadFinite DEF InRounds
<1>2. IsFiniteSet(Thread \ {t}) /\ Cardinality(Thread \ {t}) = Cardinality(Thread) - 1
    BY ThreadFinite, FS_RemoveElement
<1>3. Waiting \in SUBSET (Thread \ {t})
    BY WaitingFinite
<1> QED
    BY <1>1, <1>2, <1>3, FS_Subset

\* The last worker to arrive opens the next round; any other waits in this one.
LEMMA RoundsArrive ==
    ASSUME Types, InRounds, NEW t \in Thread, Arrive(t)
    PROVE  InRounds'
<1> USE DEF threads, once, counter
<1>0. /\ object = "barrier" /\ threshold = Cardinality(Thread)
      /\ count = threshold - Cardinality(Waiting)
      /\ \A u \in Thread : Round(u)
      /\ UNCHANGED <<object, threshold, calls>>
    BY DEF Arrive, InRounds
<1>1. /\ seen'[t] = gen
      /\ \A u \in Thread \ {t} : seen'[u] = seen[u]
      /\ pc[t] = "arrive" /\ t \notin Waiting
      /\ calls[t] = gen
    <2>1. seen'[t] = gen /\ \A u \in Thread \ {t} : seen'[u] = seen[u]
        BY DEF Arrive, Types
    <2>2. pc[t] = "arrive"
        BY GoesFacts DEF Arrive
    <2> QED
        BY <1>0, <2>1, <2>2 DEF Waiting, Round, Inside
<1>2. gen \in Nat /\ \A u \in Thread : seen[u] \in Int /\ calls[u] \in Nat
    BY DEF Types
<1>3. CASE count = 1 /\ gen' = gen + 1 /\ count' = threshold /\ Goes(t, "arrive", "leave")
    <2>1. pc'[t] = "leave" /\ \A u \in Thread \ {t} : pc'[u] = pc[u]
        BY <1>3, GoesFacts
    <2>2. Waiting = Thread \ {t}
        BY <1>0, <1>1, <1>3, LastArrives
    <2>3. ASSUME NEW u \in Thread
          PROVE  pc'[u] \in Inside /\ seen'[u] = gen /\ calls'[u] = gen
        <3>1. CASE u = t
            BY <1>0, <1>1, <2>1, <3>1 DEF Inside
        <3>2. CASE u # t
            <4>1. pc[u] \in {"asleep", "loop"} /\ seen[u] = gen
                BY <2>2, <3>2 DEF Waiting
            <4>2. calls[u] = seen[u]
                BY <1>0, <4>1 DEF Round, Inside
            <4> QED
                BY <1>0, <1>1, <2>1, <3>2, <4>1, <4>2 DEF Inside
        <3> QED
            BY <3>1, <3>2
    <2>4. Waiting' = {}
        BY <1>2, <1>3, <2>3 DEF Waiting
    <2>5. Cardinality(Waiting') = 0
        BY <2>4, FS_EmptySet
    <2>6. ASSUME NEW u \in Thread
          PROVE  Round(u)'
        BY <1>2, <1>3, <2>3 DEF Round
    <2>7. count' = threshold' - Cardinality(Waiting')
        BY <1>0, <1>3, <2>5, ThreadFinite
    <2> QED
        BY <1>0, <2>6, <2>7 DEF InRounds
<1>4. CASE count' = count - 1 /\ gen' = gen /\ Goes(t, "arrive", "loop")
    <2>1. pc'[t] = "loop" /\ \A u \in Thread \ {t} : pc'[u] = pc[u]
        BY <1>4, GoesFacts
    <2>2. Waiting' = Waiting \cup {t}
        BY <1>1, <1>4, <2>1 DEF Waiting
    <2>3. Cardinality(Waiting') = Cardinality(Waiting) + 1
        BY <1>1, <2>2, WaitingFinite, FS_AddElement
    <2>4. ASSUME NEW u \in Thread
          PROVE  Round(u)'
        <3>1. Round(u)
            BY <1>0
        <3>2. CASE u = t
            BY <1>0, <1>1, <1>2, <1>4, <2>1, <3>2 DEF Round, Inside
        <3>3. CASE u # t
            BY <1>0, <1>1, <1>4, <2>1, <3>1, <3>3 DEF Round, Inside
        <3> QED
            BY <3>2, <3>3
    <2>5. count' = threshold' - Cardinality(Waiting')
        BY <1>0, <1>4, <2>3, ThreadFinite, WaitingFinite
    <2> QED
        BY <1>0, <2>4, <2>5 DEF InRounds
<1> QED
    BY <1>3, <1>4 DEF Arrive

\* A step inside of a call keeps the rounds.
LEMMA RoundsWork ==
    ASSUME Types, InRounds, object = "barrier", NEW t \in Thread, Work(t)
    PROVE  InRounds'
<1> USE DEF threads, once, counter
<1>1. CASE Wake(t)
    BY <1>1, RoundsMove DEF Wake, Lock
<1>2. CASE Flush(t)
    <2>1. Waiting' = Waiting /\ \A u \in Thread : Round(u) => Round(u)'
        BY <1>2 DEF Flush, Waiting, Round
    <2> QED
        BY <1>2, <2>1, RoundsSame DEF Flush, InRounds, Rounded
<1>3. CASE LockBarrier(t)
    BY <1>3, RoundsMove DEF LockBarrier, Lock
<1>4. CASE Arrive(t)
    BY <1>4, RoundsArrive
<1>5. CASE Loop(t)
    <2>1. CASE Sleep(t, "loop")
        BY <1>5, <2>1, RoundsMove DEF Loop, Sleep
    <2>2. CASE seen[t] # gen /\ Goes(t, "loop", "leave")
        <3>1. pc[t] = "loop" /\ pc'[t] = "leave" /\ \A u \in Thread \ {t} : pc'[u] = pc[u]
            BY <2>2, GoesFacts
        <3>2. UNCHANGED <<object, threshold, count, gen, seen, calls>>
            BY <1>5 DEF Loop
        <3>3. Waiting' = Waiting
            BY <2>2, <3>1, <3>2 DEF Waiting
        <3>4. ASSUME NEW u \in Thread
              PROVE  Round(u)'
            <4>1. Round(u)
                BY DEF InRounds
            <4> QED
                BY <2>2, <3>1, <3>2, <4>1 DEF Round, Inside
        <3> QED
            BY <3>2, <3>3, <3>4, RoundsSame DEF Rounded
    <2> QED
        BY <1>5, <2>1, <2>2 DEF Loop
<1>6. CASE Leave(t)
    <2>1. /\ pc[t] = "leave" /\ pc'[t] \in {"ready", "finished"} /\ calls'[t] = calls[t] + 1
          /\ \A u \in Thread \ {t} : pc'[u] = pc[u] /\ calls'[u] = calls[u]
        BY <1>6, ReturnsFacts DEF Leave
    <2>2. UNCHANGED <<object, threshold, count, gen, seen>>
        BY <1>6 DEF Leave
    <2>3. Waiting' = Waiting
        BY <2>1, <2>2 DEF Waiting
    <2>4. ASSUME NEW u \in Thread
          PROVE  Round(u)'
        <3>1. Round(u) /\ gen \in Nat /\ seen[u] \in Int
            BY DEF InRounds, Types
        <3>2. CASE u = t
            BY <2>1, <2>2, <3>1, <3>2 DEF Round, Inside
        <3>3. CASE u # t
            BY <2>1, <2>2, <3>1, <3>3 DEF Round, Inside
        <3> QED
            BY <3>2, <3>3
    <2> QED
        BY <2>2, <2>3, <2>4, RoundsSame DEF Rounded
<1> QED
    BY <1>1, <1>2, <1>3, <1>4, <1>5, <1>6
    DEF Work, Fast, LockOnce, Check, Func, Mark, UnlockOnce, LockSemaphore, Wait, TryWait, Post

\* So does every step.
LEMMA RoundsStep ==
    ASSUME Types, InRounds, [SyncNext]_syncVars
    PROVE  InRounds'
<1> USE DEF threads, once, counter
<1>1. ASSUME NEW t \in Thread, Spawn(t)
      PROVE  InRounds'
    BY <1>1, RoundsMove DEF Spawn
<1>2. ASSUME NEW t \in Thread, Join(t)
      PROVE  InRounds'
    BY <1>2, RoundsMove DEF Join
<1>3. ASSUME UNCHANGED <<object, pc, calls, count, threshold, gen, seen>>
      PROVE  InRounds'
    <2>1. Waiting' = Waiting /\ \A u \in Thread : Round(u) => Round(u)'
        BY <1>3 DEF Waiting, Round
    <2> QED
        BY <1>3, <2>1, RoundsSame DEF InRounds, Rounded
<1>4. ASSUME NEW t \in Thread, SpuriousWakeup(t)
      PROVE  InRounds'
    BY <1>3, <1>4 DEF SpuriousWakeup
<1>5. CASE UNCHANGED syncVars
    BY <1>3, <1>5 DEF syncVars
<1>6. ASSUME NEW t \in Thread, Work(t)
      PROVE  InRounds'
    <2>1. CASE object = "barrier"
        BY <1>6, <2>1, RoundsWork
    <2>2. CASE object # "barrier"
        <3>1. object' = object
            BY <1>6 DEF Work, Wake, Flush, Fast, LockOnce, Check, Func, Mark, UnlockOnce, LockBarrier,
                        Arrive, Loop, Leave, LockSemaphore, Wait, TryWait, Post
        <3> QED
            BY <2>2, <3>1 DEF InRounds
    <2> QED
        BY <2>1, <2>2
<1> QED
    BY <1>1, <1>2, <1>4, <1>5, <1>6 DEF SyncNext, Done

\* Nobody has come to the first round at the start.
LEMMA InitRounds == SyncInit => InRounds
<1> SUFFICES ASSUME SyncInit, object = "barrier" PROVE InRounds
    BY DEF InRounds
<1>1. Waiting = {} /\ threshold = Cardinality(Thread) /\ count = threshold
    BY DEF SyncInit, Waiting
<1>2. Cardinality(Waiting) = 0
    BY <1>1, FS_EmptySet
<1>3. \A t \in Thread : Round(t)
    BY DEF SyncInit, Round, Inside
<1> QED
    BY <1>1, <1>2, <1>3, ThreadFinite DEF InRounds


-----------------------------------------------------------------------------
(* The stages of a Once *)

\* Every worker is where the mutex says.
OncePlaces == \A t \in Thread : OncePlace(t)

Stage == Fresh \/ (\E t \in Thread : Stored(t) \/ Marked(t)) \/ Settled

\* One worker at a time holds the mutex.
LEMMA OneHolds ==
    ASSUME OncePlaces, NEW t \in Thread, NEW u \in Thread, pc[t] \in Holding, pc[u] \in Holding
    PROVE  t = u
    BY DEF OncePlaces, OncePlace

\* The two parts of the invariant of a Once.
LEMMA OnceNames ==
    ASSUME Ran, object = "once"
    PROVE  OncePlaces /\ Stage
    BY DEF Ran, OncePlaces, Stage

\* A worker that neither takes the mutex nor gives it up.
LEMMA PlacesMove ==
    ASSUME Types, OncePlaces, NEW t \in Thread, NEW from, NEW to, Goes(t, from, to), UNCHANGED owner,
           to \in Holding \cup {"unborn", "failed", "ready", "finished", "joined", "lock"},
           from \in Holding <=> to \in Holding
    PROVE  OncePlaces'
<1> SUFFICES ASSUME NEW u \in Thread
             PROVE  OncePlace(u)'
    BY DEF OncePlaces
<1>1. OncePlace(u)
    BY DEF OncePlaces
<1> QED
    BY <1>1, GoesFacts DEF OncePlace

\* Who gives up the mutex is no longer inside.
LEMMA PlacesUnlock ==
    ASSUME Types, OncePlaces, NEW t \in Thread, Returns(t, "unlock"), Unlock(t)
    PROVE  OncePlaces'
<1> SUFFICES ASSUME NEW u \in Thread
             PROVE  OncePlace(u)'
    BY DEF OncePlaces
<1>1. OncePlace(u) /\ OncePlace(t)
    BY DEF OncePlaces
<1>2. u # Nobody
    BY SyncAssumption
<1> QED
    BY <1>1, <1>2, ReturnsFacts DEF OncePlace, Unlock, Holding

\* Who takes it is alone inside.
LEMMA PlacesLock ==
    ASSUME Types, OncePlaces, NEW t \in Thread, Lock(t, "lock", "check")
    PROVE  OncePlaces'
<1> SUFFICES ASSUME NEW u \in Thread
             PROVE  OncePlace(u)'
    BY DEF OncePlaces
<1>1. OncePlace(u)
    BY DEF OncePlaces
<1>2. u # Nobody
    BY SyncAssumption
<1> QED
    BY <1>1, <1>2, GoesFacts DEF OncePlace, Lock, Holding

\* A worker that moves outside the three places that a stage speaks of.
LEMMA StageMove ==
    ASSUME Types, Stage, NEW t \in Thread, NEW from, NEW to, Goes(t, from, to),
           UNCHANGED <<memory, buffer, ran, calls>>,
           from \notin {"func", "mark", "unlock"}, to \notin {"mark", "unlock", "func"}
    PROVE  Stage'
<1>1. pc[t] = from /\ pc'[t] = to /\ \A u \in Thread \ {t} : pc'[u] = pc[u]
    BY GoesFacts
<1>2. CASE Fresh
    BY <1>1, <1>2 DEF Fresh, NoneReturned, Quiet, Stage
<1>3. ASSUME NEW u \in Thread, Stored(u)
      PROVE  Stored(u)'
    BY <1>1, <1>3 DEF Stored, NoneReturned, Quiet
<1>4. ASSUME NEW u \in Thread, Marked(u)
      PROVE  Marked(u)'
    BY <1>1, <1>4 DEF Marked, NoneReturned, Quiet
<1>5. CASE Settled
    BY <1>1, <1>5 DEF Settled, Quiet, Stage
<1> QED
    BY <1>2, <1>3, <1>4, <1>5 DEF Stage

\* In a buffer that is empty nothing can be seen.
LEMMA SeesNothing ==
    ASSUME NEW t \in Thread, Quiet(t), NEW x, x \notin memory
    PROVE  ~Sees(t, x)
<1>1. Len(buffer[t]) = 0
    BY EmptySeq DEF Quiet
<1> QED
    BY <1>1 DEF Sees

\* The test of `done` without the mutex lets a worker pass only when `done` was set.
LEMMA StageFast ==
    ASSUME Types, OncePlaces, Stage, NEW t \in Thread, Fast(t)
    PROVE  Stage'
<1> USE DEF threads, once, counter
<1>1. CASE Goes(t, "ready", "lock") /\ UNCHANGED calls
    BY <1>1, StageMove DEF Fast
<1>2. CASE Sees(t, "done") /\ Returns(t, "ready")
    <2>1. /\ pc[t] = "ready" /\ pc'[t] \in {"ready", "finished"}
          /\ \A u \in Thread \ {t} : pc'[u] = pc[u]
        BY <1>2, ReturnsFacts
    <2>2. UNCHANGED <<memory, buffer, ran>>
        BY DEF Fast
    <2>3. ~Fresh
        BY <1>2, SeesNothing DEF Fresh
    <2>4. ASSUME NEW u \in Thread
          PROVE  ~Stored(u)
        BY <1>2, <2>1, SeesNothing DEF Stored
    <2>5. ASSUME NEW u \in Thread, Marked(u)
          PROVE  Marked(u)'
        <3>1. t # u /\ Quiet(t)
            BY <2>1, <2>5 DEF Marked
        <3>2. "done" \in memory
            BY <1>2, <3>1, SeesNothing
        <3>3. ~InOrder /\ memory = {"done"} /\ buffer[u] = <<"data">>
            BY <2>5, <3>2 DEF Marked
        <3> QED
            BY <2>1, <2>2, <2>5, <3>1, <3>3 DEF Marked, Quiet
    <2>6. CASE Settled
        BY <2>1, <2>2, <2>6 DEF Settled, Quiet, Stage
    <2> QED
        BY <2>3, <2>4, <2>5, <2>6 DEF Stage
<1> QED
    BY <1>1, <1>2 DEF Fast

\* The test under the mutex sends a worker to the closure only when nobody has run it.
LEMMA StageCheck ==
    ASSUME Types, OncePlaces, Stage, NEW t \in Thread, Check(t)
    PROVE  Stage'
<1> USE DEF threads, once, counter
<1>0. UNCHANGED <<memory, buffer, ran, calls>> /\ pc[t] = "check"
    BY GoesFacts DEF Check
<1>1. CASE Fresh
    <2>1. ~Sees(t, "done")
        BY <1>1, SeesNothing DEF Fresh
    <2>2. Goes(t, "check", "func")
        BY <2>1 DEF Check
    <2>3. pc'[t] = "func" /\ \A u \in Thread \ {t} : pc'[u] = pc[u]
        BY <2>2, GoesFacts
    <2> QED
        BY <1>0, <1>1, <2>3 DEF Fresh, NoneReturned, Quiet, Stage
<1>2. ASSUME NEW u \in Thread
      PROVE  ~Stored(u) /\ ~Marked(u)
    BY <1>0, OneHolds DEF Stored, Marked, Holding
<1>3. CASE Settled
    <2>1. Sees(t, "done")
        BY <1>3 DEF Settled, Sees, Item
    <2>2. Goes(t, "check", "unlock")
        BY <2>1 DEF Check
    <2>3. pc'[t] = "unlock" /\ \A u \in Thread \ {t} : pc'[u] = pc[u]
        BY <2>2, GoesFacts
    <2> QED
        BY <1>0, <1>3, <2>3 DEF Settled, Quiet, Stage
<1> QED
    BY <1>1, <1>2, <1>3 DEF Stage

\* The closure runs once.
LEMMA StageFunc ==
    ASSUME Types, OncePlaces, Stage, NEW t \in Thread, Func(t)
    PROVE  Stage'
<1> USE DEF threads, once, counter
<1>0. /\ pc[t] = "func" /\ pc'[t] = "mark" /\ \A u \in Thread \ {t} : pc'[u] = pc[u]
      /\ UNCHANGED <<memory, calls>> /\ ran' = ran + 1
    BY GoesFacts DEF Func
<1>1. buffer'[t] = Append(buffer[t], "data") /\ \A u \in Thread \ {t} : buffer'[u] = buffer[u]
    BY DEF Func, Types
<1>2. CASE Fresh
    <2>1. buffer'[t] = <<"data">>
        BY <1>1, <1>2, AppendSmall DEF Fresh, Quiet, Item
    <2>2. ran' = 1 /\ memory' = {} /\ NoneReturned'
        BY <1>0, <1>2 DEF Fresh, NoneReturned
    <2>3. ASSUME NEW u \in Thread \ {t}
          PROVE  Quiet(u)'
        BY <1>1, <1>2 DEF Fresh, Quiet
    <2>4. Stored(t)'
        BY <1>0, <2>1, <2>2, <2>3 DEF Stored
    <2> QED
        BY <2>4 DEF Stage
<1>3. ASSUME NEW u \in Thread
      PROVE  ~Stored(u) /\ ~Marked(u)
    BY <1>0, OneHolds DEF Stored, Marked, Holding
<1>4. ~Settled
    BY <1>0 DEF Settled
<1> QED
    BY <1>2, <1>3, <1>4 DEF Stage

\* Then `done` is set.
LEMMA StageMark ==
    ASSUME Types, OncePlaces, Stage, NEW t \in Thread, Mark(t)
    PROVE  Stage'
<1> USE DEF threads, once, counter
<1>0. /\ pc[t] = "mark" /\ pc'[t] = "unlock" /\ \A u \in Thread \ {t} : pc'[u] = pc[u]
      /\ UNCHANGED <<memory, calls, ran>>
    BY GoesFacts DEF Mark
<1>1. buffer'[t] = Append(buffer[t], "done") /\ \A u \in Thread \ {t} : buffer'[u] = buffer[u]
    BY DEF Mark, Types
<1>2. ASSUME NEW u \in Thread, Stored(u)
      PROVE  Marked(t)'
    <2>1. u = t
        BY <1>0, <1>2, OneHolds DEF Stored, Holding
    <2>2. Append(<<"data">>, "done") = <<"data", "done">> /\ Append(<<>>, "done") = <<"done">>
        BY AppendSmall DEF Item
    <2>3. \/ memory' = {} /\ buffer'[t] = <<"data", "done">>
          \/ memory' = {"data"} /\ buffer'[t] = <<"done">>
        BY <1>0, <1>1, <1>2, <2>1, <2>2 DEF Stored
    <2> QED
        BY <1>0, <1>1, <1>2, <2>1, <2>3 DEF Stored, Marked, NoneReturned, Quiet
<1>3. ASSUME NEW u \in Thread
      PROVE  ~Marked(u)
    BY <1>0, OneHolds DEF Marked, Holding
<1>4. ~Fresh /\ ~Settled
    BY <1>0 DEF Fresh, Settled
<1> QED
    BY <1>2, <1>3, <1>4 DEF Stage

\* The mutex is given up when all stores are in the memory.
LEMMA StageUnlock ==
    ASSUME Types, OncePlaces, Stage, NEW t \in Thread, UnlockOnce(t)
    PROVE  Stage'
<1> USE DEF threads, once, counter
<1>0. /\ pc[t] = "unlock" /\ pc'[t] \in {"ready", "finished"}
      /\ \A u \in Thread \ {t} : pc'[u] = pc[u]
      /\ UNCHANGED <<memory, buffer, ran>> /\ buffer[t] = <<>>
    BY ReturnsFacts DEF UnlockOnce
<1>1. CASE Settled
    BY <1>0, <1>1 DEF Settled, Quiet, Stage
<1>2. ~Fresh
    BY <1>0 DEF Fresh
<1>3. ASSUME NEW u \in Thread
      PROVE  ~Stored(u) /\ ~Marked(u)
    <2>1. ~Stored(u)
        BY <1>0, OneHolds DEF Stored, Holding
    <2>2. CASE Marked(u)
        <3>1. u = t
            BY <1>0, <2>2, OneHolds DEF Marked, Holding
        <3>2. Len(buffer[t]) = 0
            BY <1>0, EmptySeq
        <3>3. Len(buffer[t]) # 0
            BY <2>2, <3>1 DEF Marked
        <3> QED
            BY <3>2, <3>3
    <2> QED
        BY <2>1, <2>2
<1> QED
    BY <1>1, <1>2, <1>3 DEF Stage

\* With InOrder the store of the closure is in the memory before `done` is.
LEMMA StageFlush ==
    ASSUME Types, OncePlaces, Stage, NEW t \in Thread, Flush(t)
    PROVE  Stage'
<1> USE DEF threads, once, counter
<1>0. UNCHANGED <<pc, ran, calls>>
    BY DEF Flush
<1>1. PICK i \in 1..Len(buffer[t]) :
          /\ InOrder => i = 1
          /\ memory' = memory \cup {buffer[t][i]}
          /\ buffer'[t] = Without(buffer[t], i)
          /\ \A u \in Thread \ {t} : buffer'[u] = buffer[u]
    BY FlushFacts
<1>2. ~Quiet(t)
    <2>1. ASSUME Quiet(t)
          PROVE  Len(buffer[t]) = 0
        BY <2>1, EmptySeq DEF Quiet
    <2> QED
        BY <1>1, <2>1
<1>3. ~Fresh /\ ~Settled
    BY <1>2 DEF Fresh, Settled
<1>4. ASSUME NEW u \in Thread, Stored(u)
      PROVE  Stored(u)'
    <2>1. u = t /\ memory = {} /\ buffer[t] = <<"data">>
        BY <1>2, <1>4 DEF Stored, Quiet
    <2>2. i = 1 /\ buffer[t][i] = "data"
        BY <1>1, <2>1
    <2>3. buffer'[t] = <<>> /\ memory' = {"data"}
        BY <1>1, <2>1, <2>2, WithoutOne DEF Item
    <2> QED
        BY <1>0, <1>1, <1>4, <2>1, <2>3 DEF Stored, NoneReturned, Quiet
<1>5. ASSUME NEW u \in Thread, Marked(u)
      PROVE  Stage'
    <2>0. u = t /\ pc[t] = "unlock" /\ ran = 1 /\ \A w \in Thread \ {t} : Quiet(w)
        BY <1>2, <1>5 DEF Marked, Quiet
    <2>1. CASE memory = {} /\ buffer[t] = <<"data", "done">> /\ NoneReturned
        <3>1. i \in {1, 2} /\ buffer[t][i] = IF i = 1 THEN "data" ELSE "done"
            BY <1>1, <2>1
        <3>2. buffer'[t] = IF i = 1 THEN <<"done">> ELSE <<"data">>
            BY <1>1, <2>1, <3>1, WithoutTwo DEF Item
        <3>3. memory' = IF i = 1 THEN {"data"} ELSE {"done"}
            BY <1>1, <2>1, <3>1
        <3>4. Marked(t)'
            BY <1>0, <1>1, <2>0, <2>1, <3>1, <3>2, <3>3 DEF Marked, NoneReturned, Quiet
        <3> QED
            BY <3>4 DEF Stage
    <2>2. ASSUME NEW x \in Item, buffer[t] = <<x>>, memory \cup {x} = Item
          PROVE  Stage'
        <3>1. i = 1 /\ buffer[t][i] = x
            BY <1>1, <2>2
        <3>2. buffer'[t] = <<>> /\ memory' = Item
            BY <1>1, <2>2, <3>1, WithoutOne
        <3>3. ASSUME NEW w \in Thread
              PROVE  Quiet(w)' /\ pc'[w] \notin {"func", "mark"}
            <4>1. CASE w = t
                BY <1>0, <2>0, <3>2, <4>1 DEF Quiet
            <4>2. CASE w # t
                <5>1. pc[w] \notin Holding
                    BY <2>0, <4>2, OneHolds DEF Holding
                <5> QED
                    BY <1>0, <1>1, <2>0, <4>2, <5>1 DEF Quiet, Holding
            <4> QED
                BY <4>1, <4>2
        <3> QED
            BY <1>0, <2>0, <3>2, <3>3 DEF Settled, Stage
    <2>3. CASE memory = {"data"} /\ buffer[t] = <<"done">>
        BY <2>2, <2>3 DEF Item
    <2>4. CASE memory = {"done"} /\ buffer[t] = <<"data">>
        BY <2>2, <2>4 DEF Item
    <2> QED
        BY <1>5, <2>0, <2>1, <2>3, <2>4 DEF Marked
<1> QED
    BY <1>3, <1>4, <1>5 DEF Stage

\* A step inside of a call keeps the stage.
LEMMA RanWork ==
    ASSUME Types, Ran, object = "once", NEW t \in Thread, Work(t)
    PROVE  OncePlaces' /\ Stage'
<1> USE DEF threads, once, counter
<1>0. OncePlaces /\ Stage
    BY OnceNames
<1>1. CASE Wake(t)
    <2>1. pc[t] # "asleep"
        BY <1>0 DEF OncePlaces, OncePlace, Holding
    <2>2. pc[t] = "asleep"
        BY <1>1, GoesFacts DEF Wake, Lock
    <2> QED
        BY <2>1, <2>2
<1>2. CASE Flush(t)
    <2>1. OncePlaces'
        BY <1>0, <1>2 DEF Flush, OncePlaces, OncePlace
    <2> QED
        BY <1>0, <1>2, <2>1, StageFlush
<1>3. CASE Fast(t)
    <2>1. CASE Goes(t, "ready", "lock")
        BY <1>0, <1>3, <2>1, PlacesMove, StageFast DEF Fast, Holding
    <2>2. CASE Returns(t, "ready")
        <3>1. PICK to \in {"ready", "finished"} : Goes(t, "ready", to)
            BY <2>2 DEF Returns
        <3> QED
            BY <1>0, <1>3, <3>1, PlacesMove, StageFast DEF Fast, Holding
    <2> QED
        BY <1>3, <2>1, <2>2 DEF Fast
<1>4. CASE LockOnce(t)
    BY <1>0, <1>4, PlacesLock, StageMove DEF LockOnce, Lock
<1>5. CASE Check(t)
    <2>1. PICK to \in {"unlock", "func"} : Goes(t, "check", to)
        BY <1>5 DEF Check
    <2> QED
        BY <1>0, <1>5, <2>1, PlacesMove, StageCheck DEF Check, Holding
<1>6. CASE Func(t)
    BY <1>0, <1>6, PlacesMove, StageFunc DEF Func, Holding
<1>7. CASE Mark(t)
    BY <1>0, <1>7, PlacesMove, StageMark DEF Mark, Holding
<1>8. CASE UnlockOnce(t)
    BY <1>0, <1>8, PlacesUnlock, StageUnlock DEF UnlockOnce
<1> QED
    BY <1>1, <1>2, <1>3, <1>4, <1>5, <1>6, <1>7, <1>8
    DEF Work, LockBarrier, Arrive, Loop, Leave, LockSemaphore, Wait, TryWait, Post

\* So does every step.
LEMMA RanStep ==
    ASSUME Types, Ran, [SyncNext]_syncVars
    PROVE  Ran'
<1> USE DEF threads, once, counter
<1>0. object' = object
    BY DEF SyncNext, Done, syncVars, Spawn, Join, SpuriousWakeup, Work, Wake, Flush, Fast, LockOnce,
           Check, Func, Mark, UnlockOnce, LockBarrier, Arrive, Loop, Leave, LockSemaphore, Wait,
           TryWait, Post
<1>1. CASE object # "once"
    <2>1. ran = 0
        BY <1>1 DEF Ran
    <2>2. ran' = ran
        BY <1>1 DEF SyncNext, Done, syncVars, Spawn, Join, SpuriousWakeup, Work, Wake, Flush, Fast,
               LockOnce, Check, Func, Mark, UnlockOnce, LockBarrier, Arrive, Loop, Leave,
               LockSemaphore, Wait, TryWait, Post
    <2> QED
        BY <1>0, <1>1, <2>1, <2>2 DEF Ran
<1>2. CASE object = "once"
    <2>0. OncePlaces /\ Stage
        BY <1>2, OnceNames
    <2>1. ASSUME NEW t \in Thread, Spawn(t)
          PROVE  OncePlaces' /\ Stage'
        BY <2>0, <2>1, PlacesMove, StageMove DEF Spawn, Holding
    <2>2. ASSUME NEW t \in Thread, Join(t)
          PROVE  OncePlaces' /\ Stage'
        BY <2>0, <2>2, PlacesMove, StageMove DEF Join, Holding
    <2>3. ASSUME UNCHANGED <<pc, owner, memory, buffer, ran, calls>>
          PROVE  OncePlaces' /\ Stage'
        BY <2>0, <2>3 DEF OncePlaces, OncePlace, Stage, Fresh, Stored, Marked, Settled, NoneReturned, Quiet
    <2>4. ASSUME NEW t \in Thread, SpuriousWakeup(t)
          PROVE  OncePlaces' /\ Stage'
        BY <2>3, <2>4 DEF SpuriousWakeup
    <2>5. ASSUME UNCHANGED syncVars
          PROVE  OncePlaces' /\ Stage'
        BY <2>3, <2>5 DEF syncVars
    <2>6. OncePlaces' /\ Stage'
        BY <1>2, <2>1, <2>2, <2>4, <2>5, RanWork DEF SyncNext, Done
    <2> QED
        BY <1>0, <1>2, <2>6 DEF Ran, OncePlaces, Stage
<1> QED
    BY <1>1, <1>2

\* The closure has not run at the start.
LEMMA InitRan == SyncInit => Ran
<1> SUFFICES ASSUME SyncInit PROVE Ran
    OBVIOUS
<1>1. ran = 0
    BY DEF SyncInit
<1>2. OncePlaces
    BY SyncAssumption DEF SyncInit, OncePlaces, OncePlace, Holding
<1>3. Fresh
    BY DEF SyncInit, Fresh, NoneReturned, Quiet
<1> QED
    BY <1>1, <1>2, <1>3 DEF Ran, OncePlaces


-----------------------------------------------------------------------------
(* The theorems *)

\* The inductive invariant: types, permits, rounds and stages.
THEOREM SyncInvariant == SyncSpec => []SyncInv
<1>1. SyncInit => SyncInv
    BY InitTypes, InitPermits, InitRounds, InitRan DEF SyncInv
<1>2. SyncInv /\ [SyncNext]_syncVars => SyncInv'
    BY TypesStep, PermitsStep, RoundsStep, RanStep DEF SyncInv
<1> QED
    BY <1>1, <1>2, PTL DEF SyncSpec

\* In every stage the closure has run at most once.
LEMMA StagesRunOnce == Ran => ran <= 1
    BY DEF Ran, Fresh, Stored, Marked, Settled

\* Once.call: the closure never runs twice, in whatever order the stores reach the memory.
THEOREM ClosureRunsOnce == SyncSpec => [](ran <= 1)
<1>1. SyncInv => ran <= 1
    BY StagesRunOnce DEF SyncInv
<1> QED
    BY <1>1, SyncInvariant, PTL

\* Once.call: the closure runs at most once and a call that has returned sees what it stored,
\* if stores reach the memory in their order.
THEOREM OnceSound ==
    ASSUME InOrder
    PROVE  SyncSpec => []OnceRunsOnce
<1>1. SyncInv => OnceRunsOnce
    <2> SUFFICES ASSUME SyncInv PROVE OnceRunsOnce
        OBVIOUS
    <2>1. ran <= 1
        BY StagesRunOnce DEF SyncInv
    <2>2. ASSUME object = "once", NEW t \in Thread, calls[t] > 0
          PROVE  ran = 1 /\ Sees(t, "data")
        <3>1. Stage /\ ~NoneReturned
            BY <2>2, OnceNames DEF SyncInv, NoneReturned
        <3>2. Settled
            BY <3>1 DEF Stage, Fresh, Stored, Marked
        <3> QED
            BY <3>2 DEF Settled, Sees, Item
    <2> QED
        BY <2>1, <2>2 DEF OnceRunsOnce
<1> QED
    BY <1>1, SyncInvariant, PTL

\* Barrier.wait: nobody returns from a round that somebody has not come to.
THEOREM BarrierSound == SyncSpec => []BarrierRounds
<1>1. SyncInv => BarrierRounds
    <2> SUFFICES ASSUME SyncInv, object = "barrier", NEW t \in Thread, NEW u \in Thread
                 PROVE  calls[t] <= calls[u] + IF pc[u] \in Inside THEN 1 ELSE 0
        BY DEF BarrierRounds, Inside
    <2>1. Round(t) /\ Round(u) /\ gen \in Nat
        BY DEF SyncInv, InRounds, Types
    <2>2. calls[t] \in {gen - 1, gen}
        BY <2>1 DEF Round
    <2>3. calls[u] = gen \/ (pc[u] \in Inside /\ calls[u] \in {gen - 1, gen})
        BY <2>1 DEF Round
    <2> QED
        BY <2>1, <2>2, <2>3
<1> QED
    BY <1>1, SyncInvariant, PTL

\* Semaphore: the permits that are there and those that are held make up the value it was made
\* with, and nobody takes one that is not there.
THEOREM PermitsSound == SyncSpec => []PermitsConserved
<1>1. SyncInv => PermitsConserved
    BY DEF SyncInv, Permits, PermitsConserved, Held
<1> QED
    BY <1>1, SyncInvariant, PTL

-----------------------------------------------------------------------------
(* Somebody can always go on *)

\* Where a worker holds the mutex.
Critical == {"check", "func", "mark", "unlock", "arrive", "loop", "leave", "try", "post"}

\* The mutex is held by the worker that is there, if any.
Owning ==
    /\ owner \in Thread \cup {Nobody}
    /\ \A t \in Thread : pc[t] \in Critical <=> owner = t

\* A worker that is done has made its calls, and no other has.
Over == {"finished", "joined"}

Counted ==
    \A t \in Thread : IF pc[t] \in Over THEN calls[t] >= Rounds /\ calls[t] > 0
                                        ELSE calls[t] < Rounds \/ calls[t] = 0

\* The workers that were woken, or have come, and will look at the count of a semaphore.
Coming == {t \in Thread : (pc[t] = "asleep" /\ t \notin asleep) \/ pc[t] = "loop"}

\* Whoever sleeps waits for the open round of a barrier, which is not complete.
Missed ==
    /\ \A t \in asleep : seen[t] = gen
    /\ Thread # {} => count > 0
    /\ \A t \in Thread : pc[t] # "failed"

\* Nobody sleeps on a Once; nobody sleeps at a semaphore while more permits are there than
\* workers come for.
Sleepers ==
    /\ \A t \in asleep : t \in Thread /\ pc[t] = "asleep"
    /\ object = "barrier" => Missed
    /\ object = "once" => asleep = {}
    /\ object = "semaphore" => asleep = {} \/ count <= Cardinality(Coming)

\* A worker that can make a step: its thread can be created or joined, it holds the mutex, or
\* it is woken, or about to begin a call or give a permit back, and the mutex is free.
CanGo(t) ==
    \/ pc[t] \in {"unborn", "finished"}
    \/ owner = t
    \/ owner = Nobody /\ pc[t] \in {"ready", "lock", "taken"}
    \/ owner = Nobody /\ pc[t] = "asleep" /\ t \notin asleep

\* Some worker can go on until all are joined.  Workers that wait on a semaphore made with no
\* permits before any of them posts do wait for ever.
SomebodyGoes ==
    (object = "semaphore" => threshold > 0) =>
        (\A t \in Thread : pc[t] \in {"joined", "failed"}) \/ \E t \in Thread : CanGo(t)

\* A step inside or outside of the mutex.
LEMMA OwningMoves ==
    ASSUME Types, Owning, NEW t \in Thread, \A u \in Thread \ {t} : pc'[u] = pc[u],
           pc[t] \in Critical <=> pc'[t] \in Critical, owner' = owner
    PROVE  Owning'
    BY DEF Owning

\* The mutex is taken.
LEMMA OwningLocks ==
    ASSUME Types, Owning, NEW t \in Thread, NEW from, NEW to, to \in Critical, Lock(t, from, to)
    PROVE  Owning'
<1>1. pc'[t] = to /\ \A u \in Thread \ {t} : pc'[u] = pc[u]
    BY GoesFacts DEF Lock
<1> QED
    BY <1>1, SyncAssumption DEF Owning, Lock

\* The mutex is given up.
LEMMA OwningUnlocks ==
    ASSUME Types, Owning, NEW t \in Thread, Unlock(t), pc'[t] \notin Critical,
           \A u \in Thread \ {t} : pc'[u] = pc[u]
    PROVE  Owning'
    BY SyncAssumption DEF Owning, Unlock

\* Every step keeps the mutex with whom it is.
LEMMA OwningStep ==
    ASSUME Types, Owning, [SyncNext]_syncVars
    PROVE  Owning'
<1> USE DEF threads, once, counter
<1>1. ASSUME NEW t \in Thread, NEW from, NEW to, Goes(t, from, to),
             from \in Critical <=> to \in Critical, owner' = owner
      PROVE  Owning'
    BY <1>1, GoesFacts, OwningMoves
<1>2. ASSUME NEW t \in Thread, NEW from, NEW to, Goes(t, from, to), to \notin Critical, Unlock(t)
      PROVE  Owning'
    BY <1>2, GoesFacts, OwningUnlocks
<1>3. ASSUME NEW t \in Thread, NEW from, Returns(t, from), Unlock(t)
      PROVE  Owning'
    BY <1>3, ReturnsFacts, OwningUnlocks DEF Critical
<1>4. ASSUME NEW t \in Thread, Returns(t, "ready"), owner' = owner
      PROVE  Owning'
    BY <1>4, ReturnsFacts, OwningMoves DEF Critical
<1>5. ASSUME UNCHANGED <<pc, owner>>
      PROVE  Owning'
    BY <1>5 DEF Owning
<1>6. ASSUME NEW t \in Thread, Spawn(t) \/ Join(t) \/ SpuriousWakeup(t)
      PROVE  Owning'
    BY <1>1, <1>5, <1>6 DEF Spawn, Join, SpuriousWakeup, Critical
<1>7. ASSUME NEW t \in Thread, Wake(t) \/ LockOnce(t) \/ LockBarrier(t) \/ LockSemaphore(t)
      PROVE  Owning'
    BY <1>7, OwningLocks DEF Wake, LockOnce, LockBarrier, LockSemaphore, Critical
<1>8. ASSUME NEW t \in Thread, Flush(t) \/ Fast(t) \/ Check(t) \/ Func(t) \/ Mark(t) \/ UnlockOnce(t)
      PROVE  Owning'
    <2>1. CASE Check(t)
        <3>1. \E to \in {"unlock", "func"} : Goes(t, "check", to)
            BY <2>1 DEF Check
        <3> QED
            BY <1>1, <2>1, <3>1 DEF Check, Critical
    <2> QED
        BY <1>1, <1>3, <1>4, <1>5, <1>8, <2>1 DEF Flush, Fast, Func, Mark, UnlockOnce, Critical
<1>9. ASSUME NEW t \in Thread, Arrive(t) \/ Loop(t) \/ Leave(t)
      PROVE  Owning'
    BY <1>1, <1>2, <1>3, <1>9 DEF Arrive, Loop, Leave, Sleep, Critical
<1>10. ASSUME NEW t \in Thread, Wait(t) \/ TryWait(t) \/ Post(t)
       PROVE  Owning'
    BY <1>2, <1>3, <1>10 DEF Wait, TryWait, Post, Sleep, Take, Critical
<1>11. CASE UNCHANGED syncVars
    BY <1>5, <1>11 DEF syncVars
<1> QED
    BY <1>6, <1>7, <1>8, <1>9, <1>10, <1>11 DEF SyncNext, Done, Work

\* A worker that is not done has a call to make.
LEMMA CountedStep ==
    ASSUME Types, Counted, [SyncNext]_syncVars
    PROVE  Counted'
<1> USE DEF threads, once, counter
<1>1. ASSUME NEW t \in Thread, NEW from, NEW to, Goes(t, from, to),
             from \in Over <=> to \in Over, calls' = calls
      PROVE  Counted'
    BY <1>1, GoesFacts DEF Counted
<1>2. ASSUME NEW t \in Thread, NEW from, Returns(t, from), from \notin Over
      PROVE  Counted'
    <2>1. /\ pc[t] = from /\ calls[t] \in Nat /\ calls'[t] = calls[t] + 1
          /\ \A u \in Thread \ {t} : pc'[u] = pc[u] /\ calls'[u] = calls[u]
        BY <1>2, ReturnsFacts DEF Types
    <2>2. pc'[t] = IF calls[t] + 1 < Rounds THEN "ready" ELSE "finished"
        BY <1>2, GoesFacts DEF Returns
    <2>3. ASSUME NEW u \in Thread
          PROVE  IF pc'[u] \in Over THEN calls'[u] >= Rounds /\ calls'[u] > 0
                                    ELSE calls'[u] < Rounds \/ calls'[u] = 0
        <3>1. CASE u = t
            BY <2>1, <2>2, <3>1, SyncAssumption DEF Over
        <3>2. CASE u # t
            BY <2>1, <3>2 DEF Counted
        <3> QED
            BY <3>1, <3>2
    <2> QED
        BY <2>3 DEF Counted
<1>3. ASSUME UNCHANGED <<pc, calls>>
      PROVE  Counted'
    BY <1>3 DEF Counted
<1>4. ASSUME NEW t \in Thread, Spawn(t) \/ Join(t) \/ SpuriousWakeup(t)
      PROVE  Counted'
    BY <1>1, <1>3, <1>4 DEF Spawn, Join, SpuriousWakeup, Over
<1>5. ASSUME NEW t \in Thread, Wake(t) \/ LockOnce(t) \/ LockBarrier(t) \/ LockSemaphore(t)
      PROVE  Counted'
    BY <1>1, <1>5 DEF Wake, LockOnce, LockBarrier, LockSemaphore, Lock, Over
<1>6. ASSUME NEW t \in Thread, Flush(t) \/ Fast(t) \/ Check(t) \/ Func(t) \/ Mark(t) \/ UnlockOnce(t)
      PROVE  Counted'
    <2>1. CASE Check(t)
        <3>1. \E to \in {"unlock", "func"} : Goes(t, "check", to)
            BY <2>1 DEF Check
        <3> QED
            BY <1>1, <2>1, <3>1 DEF Check, Over
    <2> QED
        BY <1>1, <1>2, <1>3, <1>6, <2>1 DEF Flush, Fast, Func, Mark, UnlockOnce, Over
<1>7. ASSUME NEW t \in Thread, Arrive(t) \/ Loop(t) \/ Leave(t)
      PROVE  Counted'
    BY <1>1, <1>2, <1>7 DEF Arrive, Loop, Leave, Sleep, Over
<1>8. ASSUME NEW t \in Thread, Wait(t) \/ TryWait(t) \/ Post(t)
      PROVE  Counted'
    BY <1>1, <1>2, <1>8 DEF Wait, TryWait, Post, Sleep, Take, Over
<1>9. CASE UNCHANGED syncVars
    BY <1>3, <1>9 DEF syncVars
<1> QED
    BY <1>4, <1>5, <1>6, <1>7, <1>8, <1>9 DEF SyncNext, Done, Work

\* Finitely many workers come, and more of them when none goes.
LEMMA ComingFinite ==
    /\ IsFiniteSet(Coming) /\ Cardinality(Coming) \in Nat
    /\ IsFiniteSet(Coming') /\ Cardinality(Coming') \in Nat
    /\ Coming \subseteq Coming' => Cardinality(Coming) <= Cardinality(Coming')
<1>1. Coming \subseteq Thread /\ Coming' \subseteq Thread
    BY DEF Coming
<1> QED
    BY <1>1, ThreadFinite, FS_Subset, FS_CardinalityType

\* A step of one worker that neither sleeps nor wakes anybody.
LEMMA SleepersMove ==
    ASSUME Types, Sleepers, NEW t \in Thread, \A u \in Thread \ {t} : pc'[u] = pc[u],
           t \notin asleep, UNCHANGED <<object, asleep, count, gen, seen>>,
           pc'[t] = "failed" => object # "barrier",
           object = "semaphore" /\ t \in Coming => pc'[t] \in {"asleep", "loop"}
    PROVE  Sleepers'
<1>1. \A u \in asleep : u \in Thread /\ u # t /\ pc'[u] = "asleep"
    BY DEF Sleepers
<1>2. object = "barrier" => Missed'
    BY DEF Sleepers, Missed
<1>3. ASSUME object = "semaphore", asleep # {}
      PROVE  count <= Cardinality(Coming')
    <2>1. Coming \subseteq Coming'
        BY <1>3 DEF Coming
    <2>2. count <= Cardinality(Coming) /\ count \in Int
        BY <1>3 DEF Sleepers, Types
    <2> QED
        BY <2>1, <2>2, ComingFinite
<1> QED
    BY <1>1, <1>2, <1>3 DEF Sleepers

\* Nobody moves.
LEMMA SleepersSame ==
    ASSUME Sleepers, UNCHANGED <<object, pc, asleep, count, gen, seen>>
    PROVE  Sleepers'
<1>1. Coming' = Coming
    BY DEF Coming
<1>2. Missed' = Missed
    BY DEF Missed
<1> QED
    BY <1>1, <1>2 DEF Sleepers

\* The last worker of a round wakes all; any other leaves one more to come.
LEMMA SleepersArrive ==
    ASSUME Types, Sleepers, InRounds, NEW t \in Thread, Arrive(t)
    PROVE  Sleepers'
<1> USE DEF threads, once, counter
<1>0. /\ object = "barrier" /\ object' = object /\ threshold = Cardinality(Thread)
      /\ count = threshold - Cardinality(Waiting) /\ Cardinality(Waiting) \in Nat
      /\ Missed /\ count \in Int /\ Cardinality(Thread) \in Nat
    BY WaitingFinite, ThreadFinite DEF Arrive, InRounds, Sleepers, Types
<1>1. pc[t] = "arrive" /\ (\A u \in Thread \ {t} : seen'[u] = seen[u])
    BY GoesFacts DEF Arrive, Types
<1>2. CASE count = 1 /\ gen' = gen + 1 /\ count' = threshold /\ Broadcast /\ Goes(t, "arrive", "leave")
    <2>1. asleep' = {} /\ count' > 0
        BY <1>0, <1>2 DEF Broadcast
    <2>2. \A u \in Thread : pc'[u] # "failed"
        BY <1>0, <1>2, GoesFacts DEF Missed
    <2> QED
        BY <1>0, <2>1, <2>2 DEF Sleepers, Missed
<1>3. CASE /\ count # 1
           /\ count' = count - 1 /\ Goes(t, "arrive", "loop") /\ UNCHANGED <<gen, asleep>>
    <2>1. count' > 0
        BY <1>0, <1>3 DEF Missed
    <2>2. pc'[t] = "loop" /\ \A u \in Thread \ {t} : pc'[u] = pc[u]
        BY <1>3, GoesFacts
    <2>3. \A u \in asleep : u \in Thread /\ u # t /\ pc'[u] = "asleep" /\ seen'[u] = gen
        BY <1>0, <1>1, <2>2 DEF Sleepers, Missed
    <2>4. \A u \in Thread : pc'[u] # "failed"
        BY <1>0, <2>2 DEF Missed
    <2> QED
        BY <1>0, <1>3, <2>1, <2>3, <2>4 DEF Sleepers, Missed
<1> QED
    BY <1>2, <1>3 DEF Arrive

\* Whoever goes to sleep at a barrier has come to the open round, and nobody is missed.
LEMMA SleepersLoop ==
    ASSUME Types, Sleepers, NEW t \in Thread, Loop(t)
    PROVE  Sleepers'
<1> USE DEF threads, once, counter
<1>0. object = "barrier" /\ Missed /\ UNCHANGED <<object, count, gen, seen>>
    BY DEF Loop, Sleepers
<1>1. CASE seen[t] = gen /\ Sleep(t, "loop")
    <2>1. asleep' = asleep \cup {t} /\ pc'[t] = "asleep" /\ \A u \in Thread \ {t} : pc'[u] = pc[u]
        BY <1>1, GoesFacts DEF Sleep
    <2>2. \A u \in asleep' : u \in Thread /\ pc'[u] = "asleep" /\ seen[u] = gen
        BY <1>0, <1>1, <2>1 DEF Sleepers, Missed
    <2>3. \A u \in Thread : pc'[u] # "failed"
        BY <1>0, <2>1 DEF Missed
    <2> QED
        BY <1>0, <2>2, <2>3 DEF Sleepers, Missed
<1>2. CASE Goes(t, "loop", "leave") /\ UNCHANGED asleep
    <2>1. pc[t] = "loop" /\ pc'[t] = "leave" /\ \A u \in Thread \ {t} : pc'[u] = pc[u]
        BY <1>2, GoesFacts
    <2>2. t \notin asleep
        BY <2>1 DEF Sleepers
    <2> QED
        BY <1>0, <1>2, <2>1, <2>2, SleepersMove
<1> QED
    BY <1>1, <1>2 DEF Loop

\* A permit is taken by a worker that has come for it, or by one that did not wait.
LEMMA SleepersTake ==
    ASSUME Types, Sleepers, object = "semaphore", NEW t \in Thread, NEW from \in {"loop", "try"},
           Take(t, from), UNCHANGED <<object, asleep>>
    PROVE  Sleepers'
<1>1. /\ pc[t] = from /\ pc'[t] = "taken" /\ count' = count - 1 /\ count \in Int
      /\ \A u \in Thread \ {t} : pc'[u] = pc[u]
    BY GoesFacts DEF Take, Types
<1>2. \A u \in asleep : u \in Thread /\ u # t /\ pc'[u] = "asleep"
    BY <1>1 DEF Sleepers
<1>3. Coming' = Coming \ {t}
    BY <1>1 DEF Coming
<1>4. Cardinality(Coming') >= Cardinality(Coming) - 1
    <2>1. CASE t \in Coming
        BY <1>3, <2>1, ComingFinite, FS_RemoveElement
    <2>2. CASE t \notin Coming
        <3>1. Coming' = Coming
            BY <1>3, <2>2
        <3> QED
            BY <3>1, ComingFinite
    <2> QED
        BY <2>1, <2>2
<1>5. asleep = {} \/ count' <= Cardinality(Coming')
    BY <1>1, <1>4, ComingFinite DEF Sleepers
<1> QED
    BY <1>2, <1>5 DEF Sleepers

\* A worker sleeps only when there is no permit.
LEMMA SleepersWait ==
    ASSUME Types, Sleepers, NEW t \in Thread, Wait(t)
    PROVE  Sleepers'
<1> USE DEF threads, once, counter
<1>0. object = "semaphore" /\ object' = object
    BY DEF Wait
<1>1. CASE count <= 0 /\ Sleep(t, "loop") /\ UNCHANGED count
    <2>1. asleep' = asleep \cup {t} /\ pc'[t] = "asleep" /\ \A u \in Thread \ {t} : pc'[u] = pc[u]
        BY <1>1, GoesFacts DEF Sleep
    <2>2. \A u \in asleep' : u \in Thread /\ pc'[u] = "asleep"
        BY <2>1 DEF Sleepers
    <2>3. count' <= Cardinality(Coming')
        BY <1>1, ComingFinite DEF Types
    <2> QED
        BY <1>0, <2>2, <2>3 DEF Sleepers
<1>2. CASE Take(t, "loop") /\ UNCHANGED asleep
    BY <1>0, <1>2, SleepersTake
<1> QED
    BY <1>1, <1>2 DEF Wait

\* A permit is given back, and one that sleeps is woken for it.
LEMMA SleepersPost ==
    ASSUME Types, Sleepers, NEW t \in Thread, Post(t)
    PROVE  Sleepers'
<1> USE DEF threads, once, counter
<1>0. /\ object = "semaphore" /\ object' = object /\ count' = count + 1 /\ count \in Int
      /\ pc[t] = "post" /\ pc'[t] \in {"ready", "finished"} /\ \A u \in Thread \ {t} : pc'[u] = pc[u]
    BY ReturnsFacts DEF Post, Types
<1>1. \A u \in asleep : u \in Thread /\ u # t /\ pc'[u] = "asleep"
    BY <1>0 DEF Sleepers
<1>2. CASE asleep = {} /\ UNCHANGED asleep
    BY <1>0, <1>2 DEF Sleepers
<1>3. ASSUME NEW s \in asleep, asleep' = asleep \ {s}
      PROVE  Sleepers'
    <2>1. s \in Thread /\ pc[s] = "asleep" /\ pc'[s] = "asleep"
        BY <1>1 DEF Sleepers
    <2>2. Coming' = Coming \cup {s} /\ s \notin Coming
        BY <1>0, <1>3, <2>1 DEF Coming
    <2>3. Cardinality(Coming') = Cardinality(Coming) + 1
        BY <2>2, ComingFinite, FS_AddElement
    <2>4. count' <= Cardinality(Coming')
        BY <1>0, <1>3, <2>3, ComingFinite DEF Sleepers
    <2> QED
        BY <1>0, <1>1, <1>3, <2>4 DEF Sleepers
<1> QED
    BY <1>2, <1>3 DEF Post, Signal

\* A wakeup without a signal is one worker more that comes.
LEMMA SleepersSpurious ==
    ASSUME Types, Sleepers, NEW t \in Thread, SpuriousWakeup(t)
    PROVE  Sleepers'
<1> USE DEF threads, once, counter
<1>0. UNCHANGED <<object, pc, count, gen, seen>> /\ asleep' = asleep \ {t} /\ t \in asleep
    BY DEF SpuriousWakeup
<1>1. Coming \subseteq Coming' /\ count \in Int
    BY <1>0 DEF Coming, Types
<1>2. object = "semaphore" => count' <= Cardinality(Coming')
    BY <1>0, <1>1, ComingFinite DEF Sleepers
<1>3. object = "barrier" => Missed'
    BY <1>0 DEF Sleepers, Missed
<1> QED
    BY <1>0, <1>2, <1>3 DEF Sleepers

\* Every step leaves nobody asleep who should be awake.
LEMMA SleepersStep ==
    ASSUME Types, Sleepers, InRounds, [SyncNext]_syncVars
    PROVE  Sleepers'
<1> USE DEF threads, once, counter
<1>1. ASSUME NEW t \in Thread, NEW from, NEW to, Goes(t, from, to), from \notin {"asleep", "loop"},
             UNCHANGED <<object, asleep, count, gen, seen>>, to = "failed" => object # "barrier"
      PROVE  Sleepers'
    <2>1. pc[t] = from /\ pc'[t] = to /\ \A u \in Thread \ {t} : pc'[u] = pc[u]
        BY <1>1, GoesFacts
    <2>2. t \notin asleep /\ t \notin Coming
        BY <1>1, <2>1 DEF Sleepers, Coming
    <2> QED
        BY <1>1, <2>1, <2>2, SleepersMove
<1>2. ASSUME NEW t \in Thread, NEW from, Returns(t, from), from \notin {"asleep", "loop"},
             UNCHANGED <<object, asleep, count, gen, seen>>
      PROVE  Sleepers'
    <2>1. \E to \in {"ready", "finished"} : Goes(t, from, to)
        BY <1>2 DEF Returns
    <2> QED
        BY <1>1, <1>2, <2>1
<1>3. ASSUME NEW t \in Thread, Spawn(t)
      PROVE  Sleepers'
    BY <1>1, <1>3 DEF Spawn
<1>4. ASSUME NEW t \in Thread, Join(t)
      PROVE  Sleepers'
    BY <1>1, <1>4 DEF Join
<1>5. ASSUME NEW t \in Thread, Wake(t)
      PROVE  Sleepers'
    <2>1. pc'[t] = "loop" /\ t \notin asleep /\ \A u \in Thread \ {t} : pc'[u] = pc[u]
        BY <1>5, GoesFacts DEF Wake, Lock
    <2> QED
        BY <1>5, <2>1, SleepersMove DEF Wake
<1>6. ASSUME NEW t \in Thread, Flush(t)
      PROVE  Sleepers'
    BY <1>6, SleepersSame DEF Flush
<1>7. ASSUME NEW t \in Thread, LockOnce(t) \/ LockBarrier(t) \/ LockSemaphore(t)
      PROVE  Sleepers'
    BY <1>1, <1>7 DEF LockOnce, LockBarrier, LockSemaphore, Lock
<1>8. ASSUME NEW t \in Thread, Fast(t) \/ Func(t) \/ Mark(t) \/ UnlockOnce(t)
      PROVE  Sleepers'
    BY <1>1, <1>2, <1>8 DEF Fast, Func, Mark, UnlockOnce
<1>9. ASSUME NEW t \in Thread, Check(t)
      PROVE  Sleepers'
    <2>1. \E to \in {"unlock", "func"} : Goes(t, "check", to)
        BY <1>9 DEF Check
    <2> QED
        BY <1>1, <1>9, <2>1 DEF Check
<1>10. ASSUME NEW t \in Thread, Leave(t)
       PROVE  Sleepers'
    BY <1>2, <1>10 DEF Leave
<1>11. ASSUME NEW t \in Thread, TryWait(t)
       PROVE  Sleepers'
    <2>1. CASE Take(t, "try")
        BY <1>11, <2>1, SleepersTake DEF TryWait
    <2>2. CASE Returns(t, "try") /\ UNCHANGED count
        BY <1>2, <1>11, <2>2 DEF TryWait
    <2> QED
        BY <1>11, <2>1, <2>2 DEF TryWait
<1>12. CASE UNCHANGED syncVars
    BY <1>12, SleepersSame DEF syncVars
<1> QED
    BY <1>3, <1>4, <1>5, <1>6, <1>7, <1>8, <1>9, <1>10, <1>11, <1>12, SleepersArrive, SleepersLoop,
       SleepersWait, SleepersPost, SleepersSpurious DEF SyncNext, Done, Work

\* At the start nobody sleeps.
LEMMA InitAwake == SyncInit => Owning /\ Counted /\ Sleepers
<1> SUFFICES ASSUME SyncInit PROVE Owning /\ Counted /\ Sleepers
    OBVIOUS
<1>1. Owning
    BY SyncAssumption DEF SyncInit, Owning, Critical
<1>2. Counted
    BY DEF SyncInit, Counted, Over
<1>3. ASSUME object = "barrier", Thread # {}
      PROVE  count > 0
    <2>1. count = Cardinality(Thread)
        BY <1>3 DEF SyncInit
    <2>2. Cardinality(Thread) # 0
        BY <1>3, ThreadFinite, FS_EmptySet
    <2> QED
        BY <2>1, <2>2, ThreadFinite
<1>4. Sleepers
    BY <1>3 DEF SyncInit, Sleepers, Missed
<1> QED
    BY <1>1, <1>2, <1>4

\* A worker that sleeps at a barrier waits for one that is still to come.
LEMMA BarrierAwaits ==
    ASSUME SyncInv, Owning, Counted, Sleepers, object = "barrier", owner = Nobody, NEW t \in asleep
    PROVE  \E u \in Thread : CanGo(u)
<1>1. /\ t \in Thread /\ pc[t] = "asleep" /\ seen[t] = gen /\ count > 0 /\ Types /\ Missed
      /\ count = Cardinality(Thread) - Cardinality(Waiting) /\ \A u \in Thread : Round(u)
    BY DEF Sleepers, Missed, SyncInv, InRounds
<1>2. Waiting # Thread
    BY <1>1, ThreadFinite
<1>3. PICK u \in Thread : u \notin Waiting
    BY <1>2, WaitingFinite
<1>4. pc[u] \notin Over
    <2> SUFFICES ASSUME pc[u] \in Over PROVE FALSE
        OBVIOUS
    <2>1. calls[u] = gen /\ calls[t] = gen /\ gen \in Nat
        BY <1>1 DEF Round, Inside, Over, Types
    <2>2. gen >= Rounds /\ gen > 0
        BY <2>1 DEF Counted
    <2>3. gen < Rounds \/ gen = 0
        BY <1>1, <2>1 DEF Counted, Over
    <2> QED
        BY <2>1, <2>2, <2>3, SyncAssumption
<1>5. pc[u] \in Places /\ pc[u] \notin Critical /\ pc[u] # "failed" /\ pc[u] \notin Over
    BY <1>1, <1>3, <1>4, SyncAssumption DEF Owning, Types, Missed
<1>6. u \notin asleep
    BY <1>1, <1>3 DEF Waiting, Sleepers, Missed
<1>7. CanGo(u)
    BY <1>5, <1>6 DEF CanGo, Places, Critical, Over
<1> QED
    BY <1>7

\* A worker that sleeps at a semaphore waits for one that was woken, or that holds a permit.
LEMMA SemaphoreAwaits ==
    ASSUME SyncInv, Owning, Sleepers, object = "semaphore", threshold > 0, owner = Nobody,
           asleep # {}
    PROVE  \E u \in Thread : CanGo(u)
<1>1. /\ count <= Cardinality(Coming) /\ count \in Nat /\ count + Cardinality(Held) = threshold
      /\ \A u \in Thread : pc[u] \notin Critical
    BY SyncAssumption DEF Sleepers, SyncInv, Permits, Owning
<1>2. CASE count > 0
    <2>1. Coming # {}
        BY <1>1, <1>2, FS_EmptySet
    <2>2. PICK u \in Thread : u \in Coming
        BY <2>1 DEF Coming
    <2>3. CanGo(u)
        BY <1>1, <2>2 DEF Coming, CanGo, Critical
    <2> QED
        BY <2>3
<1>3. CASE count = 0
    <2>1. Held # {}
        BY <1>1, <1>3, FS_EmptySet
    <2>2. PICK u \in Thread : u \in Held
        BY <2>1 DEF Held
    <2>3. CanGo(u)
        BY <1>1, <2>2 DEF Held, CanGo, Critical
    <2> QED
        BY <2>3
<1> QED
    BY <1>1, <1>2, <1>3

\* The workers never wait for one another, all of them: until all are joined one can go on.
\* The signals of Barrier and Semaphore reach whom they must, and the mutex is given up.
THEOREM NeverStuck == SyncSpec => []SomebodyGoes
<1>1. SyncInit => SyncInv /\ Owning /\ Counted /\ Sleepers
    BY InitTypes, InitPermits, InitRounds, InitRan, InitAwake DEF SyncInv
<1>2. /\ SyncInv /\ Owning /\ Counted /\ Sleepers /\ [SyncNext]_syncVars
      => (SyncInv /\ Owning /\ Counted /\ Sleepers)'
    BY TypesStep, PermitsStep, RoundsStep, RanStep, OwningStep, CountedStep, SleepersStep DEF SyncInv
<1>3. SyncInv /\ Owning /\ Counted /\ Sleepers => SomebodyGoes
    <2> SUFFICES ASSUME SyncInv, Owning, Counted, Sleepers, object = "semaphore" => threshold > 0,
                        NEW t \in Thread, pc[t] \notin {"joined", "failed"}
                 PROVE  \E u \in Thread : CanGo(u)
        BY DEF SomebodyGoes
    <2>1. CASE owner # Nobody
        BY <2>1 DEF Owning, CanGo
    <2>2. CASE owner = Nobody /\ t \notin asleep
        <3>1. pc[t] \in Places /\ pc[t] \notin Critical
            BY <2>2, SyncAssumption DEF Owning, SyncInv, Types
        <3>2. CanGo(t)
            BY <2>2, <3>1 DEF CanGo, Places, Critical
        <3> QED
            BY <3>2
    <2>3. CASE owner = Nobody /\ t \in asleep
        <3>1. object \in {"barrier", "semaphore"}
            BY <2>3, SyncAssumption DEF Sleepers, SyncInv, Types
        <3> QED
            BY <2>3, <3>1, BarrierAwaits, SemaphoreAwaits
    <2> QED
        BY <2>1, <2>2, <2>3
<1> QED
    BY <1>1, <1>2, <1>3, PTL DEF SyncSpec
=============================================================================
