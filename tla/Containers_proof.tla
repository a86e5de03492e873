-------------------------- MODULE Containers_proof --------------------------
(***************************************************************************)
(* Every queue, stack and vector of std is a sequence of its own: modules  *)
(* Queue, Stack and Vec implement module Lists, for containers of any      *)
(* length and capacity.  First buffers, then one container after the other.*)
(***************************************************************************)
EXTENDS Containers, Sequences, SequenceTheorems, WellFoundedInduction, TLAPS

\* What a slot of a buffer holds.
Datum == Val \cup {Junk}

\* The first n slots of a buffer, as a sequence.
Listed(d, n) == [i \in 1..n |-> d[i - 1]]

\* The slots of a buffer are a sequence of data.
LEMMA ListedIs ==
    ASSUME NEW m \in Nat, NEW n \in 0..m, NEW d \in [Slots(m) -> Datum]
    PROVE  /\ Listed(d, n) \in Seq(Datum) /\ Len(Listed(d, n)) = n
           /\ \A i \in 1..n : Listed(d, n)[i] = d[i - 1]
<1>1. \A i \in 1..n : i - 1 \in Slots(m)
  BY DEF Slots
<1>2. Listed(d, n) \in [1..n -> Datum]
  BY <1>1 DEF Listed
<1> QED
  BY <1>2 DEF Listed

\* A sequence that the slots hold is what they list.
LEMMA ListedEqual ==
    ASSUME NEW n \in Nat, NEW d, NEW s \in Seq(Datum), Len(s) = n, \A i \in 1..n : d[i - 1] = s[i]
    PROVE  Listed(d, n) = s
<1>1. s = [i \in 1..n |-> s[i]]
  OBVIOUS
<1> QED
  BY <1>1 DEF Listed

\* Loads within a buffer list it.
LEMMA LoadsAre ==
    ASSUME NEW m \in Nat, NEW n \in 0..m, NEW d \in [Slots(m) -> Datum]
    PROVE  [i \in 1..n |-> Load(d, i - 1)] = Listed(d, n)
<1>1. \A i \in 1..n : Load(d, i - 1) = d[i - 1]
  BY DEF Load, Slots
<1> QED
  BY <1>1 DEF Listed

\* realloc keeps what fits into the new buffer.
LEMMA ReallocIs ==
    ASSUME NEW m \in Nat, NEW k \in Nat, NEW d \in [Slots(m) -> Datum]
    PROVE  /\ Realloc(d, k) \in [Slots(k) -> Datum]
           /\ \A i \in Slots(k) : i < m => Realloc(d, k)[i] = d[i]
<1>1. \A i \in Slots(k) : Load(d, i) \in Datum /\ (i < m => Load(d, i) = d[i])
  BY DEF Load, Slots, Datum
<1> QED
  BY <1>1 DEF Realloc

\* A store within a buffer changes one slot.
LEMMA StoreIs ==
    ASSUME NEW m \in Nat, NEW d \in [Slots(m) -> Datum], NEW i \in Slots(m), NEW x \in Datum
    PROVE  /\ Store(d, i, x) \in [Slots(m) -> Datum] /\ Store(d, i, x)[i] = x
           /\ \A j \in Slots(m) : j # i => Store(d, i, x)[j] = d[j]
BY DEF Store

\* What a pop leaves in front of the new length.
LEMMA DroppedIs ==
    ASSUME NEW m \in Nat, NEW d \in [Slots(m) -> Datum], NEW k \in Nat
    PROVE  /\ Dropped(d, k) \in [Slots(m) -> Datum]
           /\ \A j \in Slots(m) : j < k => Dropped(d, k)[j] = d[j]
BY DEF Dropped, Datum

\* c is a buffer of m slots: d with k items of s, from a slot on, written to another on.
IsCopy(c, m, d, to, s, from, k) ==
    /\ c \in [Slots(m) -> Datum]
    /\ \A i \in Slots(m) : c[i] = IF to <= i /\ i < to + k THEN s[from + i - to] ELSE d[i]

\* memcpy and memmove within both buffers.
LEMMA CopiedIs ==
    ASSUME NEW m \in Nat, NEW d \in [Slots(m) -> Datum],
           NEW n \in Nat, NEW s \in [Slots(n) -> Datum],
           NEW to \in Nat, NEW from \in Nat, NEW k \in Nat, from + k <= n
    PROVE  IsCopy(Copied(d, to, s, from, k), m, d, to, s, from, k)
<1>1. ASSUME NEW i \in Slots(m)
      PROVE  /\ i \in to..to + k - 1 <=> to <= i /\ i < to + k
             /\ i \in to..to + k - 1 => /\ from + i - to \in Slots(n)
                                        /\ Load(s, from + i - to) = s[from + i - to]
                                        /\ s[from + i - to] \in Datum
             /\ d[i] \in Datum
  BY DEF Slots, Load
<1> QED
  BY <1>1 DEF Copied, IsCopy

\* A new buffer.
LEMMA AllocIs == ASSUME NEW n \in Nat PROVE Alloc(n) \in [Slots(n) -> Datum]
BY DEF Alloc, Datum

\* Values in slots are a buffer.
LEMMA BufferOf == ASSUME NEW n \in Nat, NEW d \in [Slots(n) -> Datum]
                  PROVE  d \in Buffer
BY DEF Buffer, Datum

\* A buffer that differs from d only from slot n on lists the same n items.
LEMMA SameListed ==
    ASSUME NEW n \in Nat, NEW c, NEW d, \A i \in 0..n-1 : c[i] = d[i]
    PROVE  Listed(c, n) = Listed(d, n)
<1>1. \A i \in 1..n : c[i - 1] = d[i - 1]
  OBVIOUS
<1> QED
  BY <1>1 DEF Listed

\* An item stored behind n others is appended.
LEMMA StoredAppends ==
    ASSUME NEW m \in Nat, NEW d \in [Slots(m) -> Datum], NEW n \in Slots(m), NEW x \in Datum
    PROVE  Listed(Store(d, n, x), n + 1) = Append(Listed(d, n), x)
<1> DEFINE c == Store(d, n, x)
           s == Listed(d, n)
<1>0. n \in 0..m-1 /\ n \in 0..m /\ n \in Nat /\ n + 1 \in Nat
  BY DEF Slots
<1>1. s \in Seq(Datum) /\ Len(s) = n /\ \A i \in 1..n : s[i] = d[i - 1]
  BY <1>0, ListedIs
<1>2. c[n] = x /\ \A j \in Slots(m) : j # n => c[j] = d[j]
  BY StoreIs
<1> HIDE DEF c, s
<1>3. /\ Append(s, x) \in Seq(Datum) /\ Len(Append(s, x)) = n + 1
      /\ \A i \in 1..n : Append(s, x)[i] = s[i]
      /\ Append(s, x)[n + 1] = x
  BY <1>1, AppendProperties
<1>4. ASSUME NEW i \in 1..n + 1 PROVE c[i - 1] = Append(s, x)[i]
  <2>1. CASE i = n + 1
    BY <2>1, <1>0, <1>2, <1>3
  <2>2. CASE i # n + 1
    <3>1. i \in 1..n /\ i - 1 \in Slots(m) /\ i - 1 # n
      BY <2>2, <1>0 DEF Slots
    <3> QED
      BY <3>1, <1>1, <1>2, <1>3
  <2> QED
    BY <2>1, <2>2
<1> QED
  BY <1>0, <1>3, <1>4, ListedEqual DEF c, s

\* The beginning of a list.
LEMMA ListedFront ==
    ASSUME NEW m \in Nat, NEW d \in [Slots(m) -> Datum], NEW n \in 0..m, NEW k \in 0..n
    PROVE  SubSeq(Listed(d, n), 1, k) = Listed(d, k)
<1> DEFINE s == Listed(d, n)
<1>1. s \in Seq(Datum) /\ Len(s) = n /\ \A i \in 1..n : s[i] = d[i - 1]
  BY ListedIs
<1> HIDE DEF s
<1>2. SubSeq(s, 1, k) = [i \in 1..k |-> s[i]]
  BY <1>1
<1>3. \A i \in 1..k : s[i] = d[i - 1]
  BY <1>1
<1> QED
  BY <1>2, <1>3 DEF Listed, s

\* No slot lists no item.
LEMMA ListedNone == ASSUME NEW d PROVE Listed(d, 0) = << >>
BY DEF Listed

-----------------------------------------------------------------------------
(* Queues *)

\* The slot of the i-th oldest item, without a remainder.
SlotOf(q, i) == IF q.head + i - 1 < q.cap THEN q.head + i - 1 ELSE q.head + i - 1 - q.cap

\* The struct Queue.
Record == [data : Buffer, cap : Nat, head : Nat, tail : Nat, count : Nat]

\* A queue is well formed: its items lie between head and tail.
Ring(q) ==
    /\ q \in Record
    /\ q.data \in [Slots(q.cap) -> Datum]
    /\ q.count <= q.cap
    /\ IF q.cap = 0 THEN q.head = 0 /\ q.tail = 0
       ELSE q.head < q.cap /\ q.tail = SlotOf(q, q.count + 1)

\* The invariant: every queue is well formed.
Rings == queue \in [Handle -> Record] /\ \A h \in Handle : Ring(queue[h])

\* What is below the capacity does not wrap.
LEMMA SmallMod == \A c \in Nat \ {0} : \A i \in 0..c-1 : i % c = i
OBVIOUS

\* What is behind it wraps once.
LEMMA LargeMod == \A c \in Nat \ {0} : \A i \in c..2*c-1 : i % c = i - c
OBVIOUS

\* The slot of an item is one of the buffer.
LEMMA SlotIsSlot ==
    ASSUME NEW q, Ring(q), q.cap # 0, NEW i \in 1..q.cap
    PROVE  SlotOf(q, i) \in Slots(q.cap) /\ (q.head + i - 1) % q.cap = SlotOf(q, i)
<1>1. q.cap \in Nat \ {0} /\ q.head \in 0..q.cap - 1
  BY DEF Ring, Record
<1>2. CASE q.head + i - 1 < q.cap
  <2>1. q.head + i - 1 \in 0..q.cap - 1
    BY <1>1, <1>2
  <2> QED
    BY <2>1, <1>1, <1>2, SmallMod DEF SlotOf, Slots
<1>3. CASE ~(q.head + i - 1 < q.cap)
  <2>1. q.head + i - 1 \in q.cap..2 * q.cap - 1
    BY <1>1, <1>3
  <2> QED
    BY <2>1, <1>1, <1>3, LargeMod DEF SlotOf, Slots
<1> QED
  BY <1>2, <1>3

\* Two items are in two slots.
LEMMA SlotsDiffer ==
    ASSUME NEW q, Ring(q), q.cap # 0, NEW i \in 1..q.cap, NEW j \in 1..q.cap, i # j
    PROVE  SlotOf(q, i) # SlotOf(q, j)
BY DEF Ring, Record, SlotOf

\* The sequence a queue stands for, slot by slot.
LEMMA ItemsAre ==
    ASSUME NEW q, Ring(q)
    PROVE  /\ Items(q) = [i \in 1..q.count |-> q.data[SlotOf(q, i)]]
           /\ Items(q) \in Seq(Datum)
           /\ Len(Items(q)) = q.count
<1>1. ASSUME NEW i \in 1..q.count
      PROVE  /\ Load(q.data, (q.head + i - 1) % q.cap) = q.data[SlotOf(q, i)]
             /\ q.data[SlotOf(q, i)] \in Datum
  <2>1. q.cap # 0 /\ i \in 1..q.cap
    BY DEF Ring, Record
  <2>2. SlotOf(q, i) \in Slots(q.cap) /\ (q.head + i - 1) % q.cap = SlotOf(q, i)
    BY <2>1, SlotIsSlot
  <2> QED
    BY <2>2 DEF Load, Ring
<1>2. Items(q) = [i \in 1..q.count |-> q.data[SlotOf(q, i)]]
  BY <1>1 DEF Items
<1>3. q.count \in Nat
  BY DEF Ring, Record
<1>4. Items(q) \in [1..q.count -> Datum]
  BY <1>1, <1>2
<1> QED
  BY <1>2, <1>3, <1>4

\* The buffer c is d with the k datums of s from a slot on written over its first k slots.
Overlaid(c, n, d, s, from, k) ==
    /\ c \in [Slots(n) -> Datum]
    /\ \A i \in Slots(n) : c[i] = IF i < k THEN s[from + i] ELSE d[i]

\* The buffer c is d with the first k datums of s written from the slot to on.
Continued(c, n, d, to, s, k) ==
    /\ c \in [Slots(n) -> Datum]
    /\ \A i \in Slots(n) : c[i] = IF to <= i /\ i < to + k THEN s[i - to] ELSE d[i]

\* A copy to the beginning of a buffer, and one from the beginning of another.
LEMMA CopiedToStart ==
    ASSUME NEW n \in Nat, NEW d \in [Slots(n) -> Datum], NEW m \in Nat,
           NEW s \in [Slots(m) -> Datum], NEW from \in Nat, NEW k \in Nat, from + k <= m
    PROVE  Overlaid(Copied(d, 0, s, from, k), n, d, s, from, k)
<1>1. ASSUME NEW i \in Slots(n)
      PROVE  /\ i \in 0..0 + k - 1 <=> i < k
             /\ i \in 0..0 + k - 1 => /\ from + i - 0 \in Slots(m)
                                     /\ Load(s, from + i - 0) = s[from + i]
                                     /\ s[from + i] \in Datum
             /\ d[i] \in Datum
  BY DEF Slots, Load
<1> QED
  BY <1>1 DEF Copied, Overlaid

\* A copy of the first slots of a buffer.
LEMMA CopiedFromStart ==
    ASSUME NEW n \in Nat, NEW d \in [Slots(n) -> Datum], NEW m \in Nat,
           NEW s \in [Slots(m) -> Datum], NEW to \in Nat, NEW k \in Nat, k <= m
    PROVE  Continued(Copied(d, to, s, 0, k), n, d, to, s, k)
<1>1. ASSUME NEW i \in Slots(n)
      PROVE  /\ i \in to..to + k - 1 <=> to <= i /\ i < to + k
             /\ i \in to..to + k - 1 => /\ 0 + i - to \in Slots(m)
                                       /\ Load(s, 0 + i - to) = s[i - to]
                                       /\ s[i - to] \in Datum
             /\ d[i] \in Datum
  BY DEF Slots, Load
<1> QED
  BY <1>1 DEF Copied, Continued

\* Growing and copying lay the items out from slot 0 on, wherever they wrapped round.
LEMMA UnrolledIs ==
    ASSUME NEW q, Ring(q), NEW n \in Nat, q.count <= n
    PROVE  /\ Unrolled(q, n) \in [Slots(n) -> Datum]
           /\ \A i \in 1..q.count : Unrolled(q, n)[i - 1] = q.data[SlotOf(q, i)]
<1>1. /\ q.cap \in Nat /\ q.head \in Nat /\ q.tail \in Nat /\ q.count \in Nat
      /\ q.data \in [Slots(q.cap) -> Datum] /\ q.count <= q.cap
  BY DEF Ring, Record
<1>2. Alloc(n) \in [Slots(n) -> Datum]
  BY AllocIs
<1>3. CASE q.count = 0
  BY <1>2, <1>3 DEF Unrolled
<1>4. CASE q.count # 0 /\ q.tail > q.head
  <2>1. q.cap # 0 /\ q.head < q.cap /\ q.head + q.count <= q.cap
    BY <1>1, <1>4 DEF Ring, SlotOf
  <2>2. Unrolled(q, n) = Copied(Alloc(n), 0, q.data, q.head, q.count)
    BY <1>4 DEF Unrolled
  <2>3. /\ Unrolled(q, n) \in [Slots(n) -> Datum]
        /\ \A i \in Slots(n) : Unrolled(q, n)[i] =
              IF i < q.count THEN q.data[q.head + i] ELSE Alloc(n)[i]
    <3>1. /\ q.head \in Nat /\ q.count \in Nat /\ q.cap \in Nat /\ q.head + q.count <= q.cap
          /\ q.data \in [Slots(q.cap) -> Datum]
      BY <2>1, <1>1
    <3>2. Overlaid(Copied(Alloc(n), 0, q.data, q.head, q.count), n, Alloc(n), q.data,
                   q.head, q.count)
      BY <3>1, <1>2, CopiedToStart
    <3> QED
      BY <2>2, <3>2 DEF Overlaid
  <2>4. ASSUME NEW i \in 1..q.count
        PROVE  Unrolled(q, n)[i - 1] = q.data[SlotOf(q, i)]
    <3>1. i - 1 \in Slots(n) /\ i - 1 < q.count
      BY <1>1 DEF Slots
    <3>2. q.head + (i - 1) = SlotOf(q, i)
      BY <1>1, <2>1 DEF SlotOf
    <3> QED
      BY <3>1, <3>2, <2>3
  <2> QED
    BY <2>3, <2>4
<1>5. CASE q.count # 0 /\ ~(q.tail > q.head)
  <2> DEFINE first == q.cap - q.head
             one == Copied(Alloc(n), 0, q.data, q.head, first)
  <2>1. /\ q.cap # 0 /\ q.head < q.cap /\ first \in Nat /\ q.head + first <= q.cap
        /\ q.tail = q.head + q.count - q.cap /\ q.tail <= q.cap
        /\ first + q.tail = q.count
    BY <1>1, <1>5 DEF Ring, SlotOf
  <2>2. Unrolled(q, n) = Copied(one, first, q.data, 0, q.tail)
    BY <1>5 DEF Unrolled
  <2> HIDE DEF first
  <2>3. /\ one \in [Slots(n) -> Datum]
        /\ \A i \in Slots(n) : one[i] =
              IF i < first THEN q.data[q.head + i] ELSE Alloc(n)[i]
    <3>1. /\ q.head \in Nat /\ q.cap \in Nat /\ first \in Nat /\ q.head + first <= q.cap
          /\ q.data \in [Slots(q.cap) -> Datum]
      BY <2>1, <1>1
    <3>2. Overlaid(one, n, Alloc(n), q.data, q.head, first)
      BY <3>1, <1>2, CopiedToStart
    <3> QED
      BY <3>2 DEF Overlaid
  <2> HIDE DEF one
  <2>a. /\ first \in Nat /\ q.cap \in Nat /\ q.tail \in Nat /\ q.tail <= q.cap
        /\ q.data \in [Slots(q.cap) -> Datum]
    BY <1>1, <2>1
  <2>b. ASSUME NEW d \in [Slots(n) -> Datum]
        PROVE  Continued(Copied(d, first, q.data, 0, q.tail), n, d, first, q.data, q.tail)
    BY <2>a, CopiedFromStart
  <2>4. /\ Unrolled(q, n) \in [Slots(n) -> Datum]
        /\ \A i \in Slots(n) : Unrolled(q, n)[i] =
              IF first <= i /\ i < first + q.tail THEN q.data[i - first] ELSE one[i]
    <3>1. Continued(Unrolled(q, n), n, one, first, q.data, q.tail)
      BY <2>2, <2>3, <2>b
    <3> QED
      BY <3>1 DEF Continued
  <2>5. ASSUME NEW i \in 1..q.count
        PROVE  Unrolled(q, n)[i - 1] = q.data[SlotOf(q, i)]
    <3>a. q.count \in Nat /\ i - 1 < q.count /\ i - 1 \in 0..n - 1
      BY <1>1
    <3>1. i - 1 \in Slots(n) /\ i - 1 < first + q.tail
      BY <3>a, <2>1 DEF Slots
    <3>2. CASE i - 1 < first
      <4>1. q.head + (i - 1) = SlotOf(q, i)
        BY <1>1, <2>1, <3>2 DEF SlotOf, first
      <4> QED
        BY <4>1, <3>1, <3>2, <2>3, <2>4, <2>1
    <3>3. CASE ~(i - 1 < first)
      <4>1. (i - 1) - first = SlotOf(q, i)
        BY <1>1, <2>1, <3>3 DEF SlotOf, first
      <4> QED
        BY <4>1, <3>1, <3>3, <2>4, <2>1
    <3> QED
      BY <3>2, <3>3
  <2> QED
    BY <2>4, <2>5
<1> QED
  BY <1>3, <1>4, <1>5

\* A queue whose items were laid out from slot 0 on is the same sequence.
LEMMA LaidOut ==
    ASSUME NEW q, Ring(q), NEW n \in Nat, q.count <= n, q.count < n \/ n = 0
    PROVE  LET r == [data |-> Unrolled(q, n), cap |-> n, head |-> 0, tail |-> q.count,
                     count |-> q.count]
           IN  Ring(r) /\ Items(r) = Items(q)
<1> DEFINE r == [data |-> Unrolled(q, n), cap |-> n, head |-> 0, tail |-> q.count,
                 count |-> q.count]
<1>1. /\ Unrolled(q, n) \in [Slots(n) -> Datum]
      /\ \A i \in 1..q.count : Unrolled(q, n)[i - 1] = q.data[SlotOf(q, i)]
  BY UnrolledIs
<1>2. q.count \in Nat
  BY DEF Ring, Record
<1>3. Unrolled(q, n) \in Buffer
  BY <1>1, BufferOf
<1>4. r \in Record
  BY <1>2, <1>3 DEF Record
<1>5. Ring(r)
  <2>1. n # 0 => SlotOf(r, q.count + 1) = q.count
    BY <1>2 DEF SlotOf
  <2> QED
    BY <1>1, <1>2, <1>4, <2>1 DEF Ring
<1>6. Items(r) = [i \in 1..q.count |-> Unrolled(q, n)[SlotOf(r, i)]]
  BY <1>5, ItemsAre
<1>7. ASSUME NEW i \in 1..q.count
      PROVE  Unrolled(q, n)[SlotOf(r, i)] = q.data[SlotOf(q, i)]
  <2>1. SlotOf(r, i) = i - 1
    BY <1>2 DEF SlotOf
  <2> QED
    BY <2>1, <1>1
<1>8. Items(q) = [i \in 1..q.count |-> q.data[SlotOf(q, i)]]
  BY ItemsAre
<1> QED
  BY <1>5, <1>6, <1>7, <1>8

\* Making room changes no item.
LEMMA RoomIs ==
    ASSUME NEW q, Ring(q)
    PROVE  /\ Ring(Room(q)) /\ Items(Room(q)) = Items(q)
           /\ Room(q).count = q.count /\ Room(q).count < Room(q).cap
<1>1. q.cap \in Nat /\ q.count \in Nat /\ q.count <= q.cap
  BY DEF Ring, Record
<1>2. CASE q.count # q.cap
  BY <1>1, <1>2 DEF Room
<1>3. CASE q.count = q.cap
  <2> DEFINE n == IF q.cap = 0 THEN MinCap ELSE 2 * q.cap
  <2>1. n \in Nat /\ q.count < n /\ q.count <= n
    BY <1>1, <1>3, QueueAssumption
  <2>2. Room(q) = [data |-> Unrolled(q, n), cap |-> n, head |-> 0, tail |-> q.count,
                   count |-> q.count]
    BY <1>3 DEF Room, Grown
  <2> HIDE DEF n
  <2> QED
    BY <2>1, <2>2, LaidOut
<1> QED
  BY <1>2, <1>3

\* One slot further, round the end of the buffer.
LEMMA NextSlot ==
    ASSUME NEW c \in Nat \ {0}, NEW i \in 0..c-1
    PROVE  (i + 1) % c = IF i + 1 < c THEN i + 1 ELSE 0
<1>1. i + 1 < c => i + 1 \in 0..c-1
  OBVIOUS
<1>2. ~(i + 1 < c) => i + 1 = c /\ c \in c..2*c-1
  OBVIOUS
<1>3. i + 1 < c => (i + 1) % c = i + 1
  BY <1>1, SmallMod
<1>4. ~(i + 1 < c) => (i + 1) % c = c - c
  BY <1>2, LargeMod
<1> QED
  BY <1>3, <1>4

\* push appends.
LEMMA PushedIs ==
    ASSUME NEW q, Ring(q), NEW x \in Val
    PROVE  Ring(Pushed(q, x)) /\ Items(Pushed(q, x)) = Append(Items(q), x)
<1> DEFINE r == Room(q)
           p == Pushed(q, x)
<1>1. Ring(r) /\ Items(r) = Items(q) /\ r.count < r.cap
  BY RoomIs
<1>2. p = [r EXCEPT !.data = Store(r.data, r.tail, x), !.tail = (r.tail + 1) % r.cap,
                    !.count = r.count + 1]
  BY DEF Pushed
<1> HIDE DEF r
<1>3. /\ r.cap \in Nat \ {0} /\ r.head \in 0..r.cap - 1 /\ r.count \in Nat
      /\ r.data \in [Slots(r.cap) -> Datum] /\ r \in Record
      /\ r.tail = SlotOf(r, r.count + 1)
  BY <1>1 DEF Ring, Record
<1>4. r.tail \in Slots(r.cap)
  BY <1>1, <1>3, SlotIsSlot
<1>5. Store(r.data, r.tail, x) \in [Slots(r.cap) -> Datum]
  BY <1>3 DEF Store, Datum
<1>6. Store(r.data, r.tail, x) \in Buffer
  BY <1>3, <1>5, BufferOf
<1>7. /\ (r.tail + 1) % r.cap = IF r.tail + 1 < r.cap THEN r.tail + 1 ELSE 0
      /\ (r.tail + 1) % r.cap \in Nat
  BY <1>3, <1>4, NextSlot DEF Slots
<1>8. /\ p \in Record
      /\ p.data = Store(r.data, r.tail, x) /\ p.cap = r.cap /\ p.head = r.head
      /\ p.tail = (r.tail + 1) % r.cap /\ p.count = r.count + 1
  <2>1. p = [data |-> Store(r.data, r.tail, x), cap |-> r.cap, head |-> r.head,
             tail |-> (r.tail + 1) % r.cap, count |-> r.count + 1]
    BY <1>2, <1>3 DEF Record
  <2> QED
    BY <2>1, <1>3, <1>6, <1>7 DEF Record
<1> HIDE DEF p
<1>9. \A i \in Nat : SlotOf(p, i) = SlotOf(r, i)
  BY <1>8 DEF SlotOf
<1>10. Ring(p)
  <2>1. p.tail = SlotOf(p, p.count + 1)
    BY <1>1, <1>3, <1>7, <1>8 DEF SlotOf
  <2> QED
    BY <2>1, <1>1, <1>3, <1>5, <1>8 DEF Ring
<1>11. Items(p) = [i \in 1..r.count + 1 |-> p.data[SlotOf(p, i)]]
  BY <1>8, <1>10, ItemsAre
<1>12. Items(r) = [i \in 1..r.count |-> r.data[SlotOf(r, i)]] /\ Items(r) \in Seq(Datum)
       /\ Len(Items(r)) = r.count
  BY <1>1, ItemsAre
<1>13. ASSUME NEW i \in 1..r.count
       PROVE  p.data[SlotOf(p, i)] = r.data[SlotOf(r, i)]
  <2>1. i \in 1..r.cap /\ r.count + 1 \in 1..r.cap /\ i # r.count + 1 /\ i \in Nat
    BY <1>1, <1>3
  <2>2. SlotOf(r, i) # r.tail /\ SlotOf(r, i) \in Slots(r.cap)
    BY <2>1, <1>1, <1>3, SlotsDiffer, SlotIsSlot
  <2> QED
    BY <2>1, <2>2, <1>3, <1>8, <1>9 DEF Store
<1>14. p.data[SlotOf(p, r.count + 1)] = x
  BY <1>3, <1>4, <1>8, <1>9 DEF Store
<1>15. /\ Append(Items(r), x) \in Seq(Datum) /\ Len(Append(Items(r), x)) = r.count + 1
       /\ \A i \in 1..r.count : Append(Items(r), x)[i] = Items(r)[i]
       /\ Append(Items(r), x)[r.count + 1] = x
  <2>1. x \in Datum
    BY DEF Datum
  <2>2. ASSUME NEW s \in Seq(Datum)
        PROVE  /\ Append(s, x) \in Seq(Datum)
               /\ Len(Append(s, x)) = Len(s) + 1
               /\ \A i \in 1..Len(s) : Append(s, x)[i] = s[i]
               /\ Append(s, x)[Len(s) + 1] = x
    BY <2>1, AppendProperties
  <2> QED
    BY <2>2, <1>12, <1>3
<1>16. Items(p) \in Seq(Datum) /\ Len(Items(p)) = r.count + 1
  BY <1>8, <1>10, ItemsAre
<1>17. ASSUME NEW i \in 1..Len(Items(p))
       PROVE  Items(p)[i] = Append(Items(r), x)[i]
  <2>1. CASE i \in 1..r.count
    BY <2>1, <1>3, <1>11, <1>12, <1>13, <1>15
  <2>2. CASE i \notin 1..r.count
    <3>1. i = r.count + 1
      BY <2>2, <1>3, <1>16
    <3> QED
      BY <3>1, <1>3, <1>11, <1>14, <1>15
  <2> QED
    BY <2>1, <2>2
<1>18. Items(p) = Append(Items(r), x)
  BY <1>15, <1>16, <1>17, SeqEqual
<1> QED
  BY <1>1, <1>10, <1>18 DEF p

\* pop takes the first item.
LEMMA PoppedIs ==
    ASSUME NEW q, Ring(q), q.count > 0
    PROVE  /\ Ring(Popped(q)) /\ Items(q) # << >>
           /\ Items(Popped(q)) = Tail(Items(q)) /\ Load(q.data, q.head) = Head(Items(q))
<1> DEFINE p == Popped(q)
<1>1. /\ q.cap \in Nat \ {0} /\ q.head \in 0..q.cap - 1 /\ q.count \in 1..q.cap
      /\ q.data \in [Slots(q.cap) -> Datum] /\ q \in Record /\ q.tail \in Nat
      /\ q.tail = SlotOf(q, q.count + 1)
  BY DEF Ring, Record
<1>2. /\ (q.head + 1) % q.cap = IF q.head + 1 < q.cap THEN q.head + 1 ELSE 0
      /\ (q.head + 1) % q.cap \in Nat
  BY <1>1, NextSlot
<1>3. Store(q.data, q.head, Junk) \in [Slots(q.cap) -> Datum]
  BY <1>1 DEF Store, Datum
<1>4. Store(q.data, q.head, Junk) \in Buffer
  BY <1>1, <1>3, BufferOf
<1>5. /\ p \in Record
      /\ p.data = Store(q.data, q.head, Junk) /\ p.cap = q.cap
      /\ p.head = (q.head + 1) % q.cap /\ p.tail = q.tail /\ p.count = q.count - 1
  <2>1. p = [data |-> Store(q.data, q.head, Junk), cap |-> q.cap,
             head |-> (q.head + 1) % q.cap, tail |-> q.tail, count |-> q.count - 1]
    <3>1. p = [q EXCEPT !.data = Store(q.data, q.head, Junk),
                        !.head = (q.head + 1) % q.cap, !.count = q.count - 1]
      BY DEF Popped
    <3> HIDE DEF p
    <3> QED
      BY <3>1, <1>1 DEF Record
  <2>2. q.count - 1 \in Nat
    BY <1>1
  <2> QED
    BY <2>1, <2>2, <1>1, <1>2, <1>4 DEF Record
<1> HIDE DEF p
<1>6. ASSUME NEW i \in 1..q.count
      PROVE  SlotOf(p, i) = SlotOf(q, i + 1)
  <2>1. CASE q.head + 1 < q.cap
    <3>1. p.head = q.head + 1 /\ p.cap = q.cap
      BY <2>1, <1>2, <1>5
    <3> QED
      BY <3>1, <2>1, <1>1 DEF SlotOf
  <2>2. CASE ~(q.head + 1 < q.cap)
    <3>1. p.head = 0 /\ p.cap = q.cap /\ q.head + 1 = q.cap
      BY <2>2, <1>1, <1>2, <1>5
    <3> QED
      BY <3>1, <1>1 DEF SlotOf
  <2> QED
    BY <2>1, <2>2
<1>7. Ring(p)
  <2>1. p.tail = SlotOf(p, p.count + 1)
    BY <1>1, <1>5, <1>6
  <2>2. p.head < p.cap /\ p.count <= p.cap
    BY <1>1, <1>2, <1>5
  <2> QED
    BY <2>1, <2>2, <1>1, <1>3, <1>5 DEF Ring
<1>8. Items(p) = [i \in 1..q.count - 1 |-> p.data[SlotOf(p, i)]]
  BY <1>5, <1>7, ItemsAre
<1>9. /\ Items(q) = [i \in 1..q.count |-> q.data[SlotOf(q, i)]] /\ Items(q) \in Seq(Datum)
      /\ Len(Items(q)) = q.count
  BY ItemsAre
<1>10. SlotOf(q, 1) = q.head
  BY <1>1 DEF SlotOf
<1>11. ASSUME NEW i \in 1..q.count - 1
       PROVE  p.data[SlotOf(p, i)] = q.data[SlotOf(q, i + 1)]
  <2>1. i \in 1..q.count /\ i + 1 \in 1..q.cap /\ 1 \in 1..q.cap /\ i + 1 # 1
    BY <1>1
  <2>2. SlotOf(q, i + 1) # q.head /\ SlotOf(q, i + 1) \in Slots(q.cap)
    BY <2>1, <1>1, <1>10, SlotsDiffer, SlotIsSlot
  <2> QED
    BY <2>1, <2>2, <1>1, <1>5, <1>6 DEF Store
<1>12. Items(q) # << >>
  BY <1>1, <1>9, EmptySeq
<1>13. /\ Tail(Items(q)) \in Seq(Datum) /\ Len(Tail(Items(q))) = q.count - 1
       /\ \A i \in 1..q.count - 1 : Tail(Items(q))[i] = Items(q)[i + 1]
  BY <1>9, <1>12, HeadTailProperties
<1>a. Head(Items(q)) = q.data[q.head]
  <2>1. Head(Items(q)) = Items(q)[1]
    BY <1>9, <1>12
  <2> QED
    BY <2>1, <1>1, <1>9, <1>10
<1>b. Items(p) \in Seq(Datum) /\ Len(Items(p)) = q.count - 1
  BY <1>5, <1>7, ItemsAre
<1>c. ASSUME NEW i \in 1..Len(Items(p))
      PROVE  Items(p)[i] = Tail(Items(q))[i]
  <2>1. i \in 1..q.count - 1 /\ i + 1 \in 1..q.count
    BY <1>1, <1>b
  <2>2. Items(p)[i] = p.data[SlotOf(p, i)]
    BY <2>1, <1>8
  <2>3. Items(q)[i + 1] = q.data[SlotOf(q, i + 1)]
    BY <2>1, <1>9
  <2>4. Tail(Items(q))[i] = Items(q)[i + 1]
    BY <2>1, <1>13, Zenon
  <2>5. p.data[SlotOf(p, i)] = q.data[SlotOf(q, i + 1)]
    BY <2>1, <1>11, Zenon
  <2> QED
    BY <2>2, <2>3, <2>4, <2>5, Zenon
<1>d. Items(p) = Tail(Items(q))
  BY <1>b, <1>c, <1>13, SeqEqual
<1>14. Load(q.data, q.head) = q.data[q.head]
  BY <1>1 DEF Load, Slots
<1> QED
  BY <1>7, <1>12, <1>a, <1>d, <1>14 DEF p

\* new, free and clear leave an empty queue.
LEMMA EmptyIs ==
    ASSUME NEW q \in Record, Ring(q), q.head = 0, q.tail = 0, q.count = 0
    PROVE  Items(q) = << >>
<1>1. Items(q) \in Seq(Datum) /\ Len(Items(q)) = 0
  BY ItemsAre
<1> QED
  BY <1>1, EmptySeq

\* A new queue is empty.
LEMMA NewIs == Ring(New) /\ Items(New) = << >>
<1>1. Alloc(0) \in [Slots(0) -> Datum]
  BY AllocIs
<1>2. Alloc(0) \in Buffer
  BY <1>1, BufferOf
<1>3. New \in Record
  BY <1>2 DEF New, Record
<1>4. Ring(New)
  BY <1>1, <1>3 DEF New, Ring
<1> QED
  BY <1>3, <1>4, EmptyIs DEF New

\* So is one that was cleared.
LEMMA ClearedIs ==
    ASSUME NEW q, Ring(q)
    PROVE  LET r == [q EXCEPT !.data = Dropped(q.data, 0), !.head = 0, !.tail = 0, !.count = 0]
           IN  Ring(r) /\ Items(r) = << >>
<1> DEFINE r == [q EXCEPT !.data = Dropped(q.data, 0), !.head = 0, !.tail = 0, !.count = 0]
<1>1. q \in Record /\ q.cap \in Nat /\ q.data \in [Slots(q.cap) -> Datum]
  BY DEF Ring, Record
<1>2. Dropped(q.data, 0) \in [Slots(q.cap) -> Datum]
  BY <1>1 DEF Dropped, Datum
<1>3. Dropped(q.data, 0) \in Buffer
  BY <1>1, <1>2, BufferOf
<1>4. /\ r \in Record
      /\ r.data = Dropped(q.data, 0) /\ r.cap = q.cap /\ r.head = 0 /\ r.tail = 0
      /\ r.count = 0
  BY <1>1, <1>3 DEF Record
<1> HIDE DEF r
<1>5. Ring(r)
  BY <1>1, <1>2, <1>4 DEF Ring, SlotOf
<1>6. Items(r) = << >>
  BY <1>4, <1>5, EmptyIs
<1> QED
  BY <1>5, <1>6 DEF r

\* A queue that is not full is cloned item by item.
LEMMA ClonedIs ==
    ASSUME NEW q, Ring(q), q.count < q.cap \/ q.cap = 0
    PROVE  Ring(Cloned(q)) /\ Items(Cloned(q)) = Items(q)
<1>1. q.cap \in Nat /\ q.count <= q.cap
  BY DEF Ring, Record
<1> QED
  BY <1>1, LaidOut DEF Cloned

----------------------------------------------------------------------------
\* What the refinement mapping makes of a queue's new state.
LEMMA SetIs ==
    ASSUME Rings, NEW h \in Handle, NEW q, NEW r, Ring(q), Set(h, q, r)
    PROVE  /\ Rings'
           /\ [g \in Handle |-> Items(queue[g])]' =
                 [[g \in Handle |-> Items(queue[g])] EXCEPT ![h] = Items(q)]
           /\ ret' = r
<1>1. queue' = [queue EXCEPT ![h] = q] /\ ret' = r /\ queue \in [Handle -> Record]
  BY DEF Set, Rings
<1>2. q \in Record
  BY DEF Ring
<1>3. queue' \in [Handle -> Record] /\ \A g \in Handle : queue'[g] = IF g = h THEN q ELSE queue[g]
  BY <1>1, <1>2
<1>4. Rings'
  BY <1>3 DEF Rings
<1>5. \A g \in Handle : Items(queue'[g]) = IF g = h THEN Items(q) ELSE Items(queue[g])
  BY <1>3
<1> QED
  BY <1>1, <1>4, <1>5

\* What each call does to the sequence.
LEMMA NextIsList ==
    ASSUME Rings, Next
    PROVE  Rings' /\ List!Next
<1> DEFINE list == [g \in Handle |-> Items(queue[g])]
<1> PICK h \in Handle : \/ Pop(h) \/ Clear(h) \/ Free(h)
                        \/ \E x \in Val : Push(h, x)
                        \/ \E g \in Handle : Clone(h, g)
  BY DEF Next
<1>1. \A g \in Handle : Ring(queue[g])
  BY DEF Rings
<1>2. \A g \in Handle : list[g] = Items(queue[g])
  OBVIOUS
<1>3. CASE Pop(h)
  <2>1. CASE queue[h].count = 0 /\ Set(h, queue[h], Nothing)
    <3>1. Items(queue[h]) = << >>
      <4>1. Items(queue[h]) \in Seq(Datum) /\ Len(Items(queue[h])) = 0
        BY <2>1, <1>1, ItemsAre
      <4> QED
        BY <4>1, EmptySeq
    <3>2. Rings' /\ list' = [list EXCEPT ![h] = << >>] /\ ret' = Nothing
      BY <2>1, <3>1, <1>1, SetIs
    <3>3. List!PopBack(h) \/ List!PopFront(h)
      BY <3>1, <3>2, <1>2 DEF List!PopFront, List!Has, List!Becomes
    <3> QED
      BY <3>2, <3>3 DEF List!Next
  <2>2. CASE queue[h].count > 0 /\ Set(h, Popped(queue[h]), Load(queue[h].data, queue[h].head))
    <3>1. /\ Ring(Popped(queue[h])) /\ Items(queue[h]) # << >>
          /\ Items(Popped(queue[h])) = Tail(Items(queue[h]))
          /\ Load(queue[h].data, queue[h].head) = Head(Items(queue[h]))
      BY <2>2, <1>1, PoppedIs
    <3>2. /\ Rings' /\ list' = [list EXCEPT ![h] = Tail(Items(queue[h]))]
          /\ ret' = Head(Items(queue[h]))
      BY <2>2, <3>1, SetIs
    <3>3. List!PopFront(h)
      BY <3>1, <3>2, <1>2 DEF List!PopFront, List!Has, List!Becomes
    <3> QED
      BY <3>2, <3>3 DEF List!Next
  <2> QED
    BY <1>3, <2>1, <2>2 DEF Pop
<1>4. CASE Clear(h) \/ Free(h)
  <2>1. Rings' /\ list' = [list EXCEPT ![h] = << >>] /\ ret' = Nothing
    <3>1. CASE Clear(h)
      <4> DEFINE q == queue[h]
                 r == [q EXCEPT !.data = Dropped(q.data, 0), !.head = 0, !.tail = 0,
                                !.count = 0]
      <4>1. Ring(r) /\ Items(r) = << >>
        BY <1>1, ClearedIs
      <4>2. Set(h, r, Nothing)
        BY <3>1 DEF Clear
      <4> HIDE DEF r
      <4> QED
        BY <4>1, <4>2, SetIs
    <3>2. CASE Free(h)
      BY <3>2, <1>1, NewIs, SetIs DEF Free
    <3> QED
      BY <1>4, <3>1, <3>2
  <2>2. List!Clear(h)
    BY <2>1 DEF List!Clear, List!Has, List!Becomes
  <2> QED
    BY <2>1, <2>2 DEF List!Next
<1>5. CASE \E x \in Val : Push(h, x)
  <2> PICK x \in Val : Push(h, x)
    BY <1>5
  <2>1. Ring(Pushed(queue[h], x)) /\ Items(Pushed(queue[h], x)) = Append(Items(queue[h]), x)
    BY <1>1, PushedIs
  <2>2. /\ Rings' /\ list' = [list EXCEPT ![h] = Append(Items(queue[h]), x)]
        /\ ret' = Nothing
    BY <2>1, SetIs DEF Push
  <2>3. List!PushBack(h, x)
    BY <2>2, <1>2 DEF List!PushBack, List!Has, List!Becomes
  <2> QED
    BY <2>2, <2>3 DEF List!Next
<1>6. CASE \E g \in Handle : Clone(h, g)
  <2> PICK g \in Handle : Clone(h, g)
    BY <1>6
  <2>1. Ring(Cloned(queue[g])) /\ Items(Cloned(queue[g])) = Items(queue[g])
    BY <1>1, ClonedIs DEF Clone
  <2>2. Rings' /\ list' = [list EXCEPT ![h] = Items(queue[g])] /\ ret' = Nothing
    BY <2>1, SetIs DEF Clone
  <2>3. List!Copy(h, g)
    BY <2>2, <1>2 DEF List!Copy, List!Has, List!Becomes
  <2> QED
    BY <2>2, <2>3 DEF List!Next
<1> QED
  BY <1>3, <1>4, <1>5, <1>6

\* However the calls on any number of queues are ordered, every queue is well formed: head and
\* tail are slots of its buffer, and the items lie between them.
THEOREM QueueWellFormed == Spec => []Rings
<1>1. Init => Rings
  <2> SUFFICES ASSUME Init PROVE Rings
    OBVIOUS
  <2>1. Ring(New) /\ New \in Record
    BY NewIs DEF Ring
  <2> QED
    BY <2>1 DEF Init, Rings
<1>2. Rings /\ [Next]_vars => Rings'
  <2>1. Rings /\ Next => Rings'
    BY NextIsList
  <2>2. Rings /\ UNCHANGED vars => Rings'
    BY DEF Rings, vars
  <2> QED
    BY <2>1, <2>2
<1> QED
  BY <1>1, <1>2, PTL DEF Spec

\* A queue hands its values out in the order in which they were pushed, each once and
\* unchanged, and the calls on one queue never change another (Queue implements Lists):
\* for every type of value, first capacity and length.
THEOREM QueueImplementsList == Spec => QueueIsList
<1>1. Init => List!Init
  <2> SUFFICES ASSUME Init PROVE List!Init
    OBVIOUS
  <2>1. \A h \in Handle : Items(queue[h]) = << >>
    BY NewIs DEF Init
  <2> QED
    BY <2>1 DEF Init, List!Init
<1>2. Rings /\ [Next]_vars => [List!Next]_List!vars
  <2>1. Rings /\ Next => List!Next
    BY NextIsList
  <2>2. UNCHANGED vars => UNCHANGED List!vars
    BY DEF vars, List!vars
  <2> QED
    BY <2>1, <2>2
<1> QED
  BY <1>1, <1>2, QueueWellFormed, PTL DEF Spec, QueueIsList, List!Spec

-----------------------------------------------------------------------------
(* Stacks *)

\* The struct Stack.
StackRecord == [data : Buffer, null : BOOLEAN, len : Nat, cap : Nat]

\* A stack without a buffer is empty; one with a buffer has cap slots and at most cap items.
StackSound(s) ==
    /\ s \in StackRecord
    /\ IF s.null THEN s.len = 0 /\ s.data \in [Slots(0) -> Datum]
       ELSE s.cap > 0 /\ s.len <= s.cap /\ s.data \in [Slots(s.cap) -> Datum]

\* The invariant: every stack is sound.
Stacks == stk \in [Handle -> StackRecord] /\ \A h \in Handle : StackSound(stk[h])

\* The operators of Buffers are the same seen from Stack.
LEMMA StackBuffers ==
    /\ \A d, i : S!Load(d, i) = Load(d, i)
    /\ \A d, i, x : S!Store(d, i, x) = Store(d, i, x)
    /\ \A d, n : S!Realloc(d, n) = Realloc(d, n)
    /\ \A d, n : S!Dropped(d, n) = Dropped(d, n)
    /\ \A d, to, s, from, n : S!Copied(d, to, s, from, n) = Copied(d, to, s, from, n)
    /\ \A n : S!Alloc(n) = Alloc(n)
<1>1. \A d, i : S!Load(d, i) = Load(d, i)
  BY DEF S!Load, Load
<1>2. \A d, i, x : S!Store(d, i, x) = Store(d, i, x)
  BY DEF S!Store, Store
<1>3. \A n : S!Slots(n) = Slots(n)
  BY DEF S!Slots, Slots
<1>4. \A d, n : S!Realloc(d, n) = Realloc(d, n)
  BY <1>1, <1>3 DEF S!Realloc, Realloc
<1>5. \A d, n : S!Dropped(d, n) = Dropped(d, n)
  BY DEF S!Dropped, Dropped
<1>6. \A d, to, s, from, n : S!Copied(d, to, s, from, n) = Copied(d, to, s, from, n)
  BY <1>1 DEF S!Copied, Copied
<1>7. \A n : S!Alloc(n) = Alloc(n)
  BY <1>3 DEF S!Alloc, Alloc
<1> QED
  BY <1>1, <1>2, <1>4, <1>5, <1>6, <1>7

\* The buffer of a stack has as many slots as it says, and no less than it has items.
SlotsOf(s) == IF s.null THEN 0 ELSE s.cap

\* What the fields of a sound stack hold.
LEMMA StackParts ==
    ASSUME NEW s, StackSound(s)
    PROVE  /\ s.len \in Nat /\ s.cap \in Nat /\ s.null \in BOOLEAN /\ SlotsOf(s) \in Nat
           /\ s.len \in 0..SlotsOf(s) /\ s.data \in [Slots(SlotsOf(s)) -> Datum]
           /\ s \in StackRecord
BY DEF StackSound, StackRecord, SlotsOf

\* A stack put together of fields that fit.
LEMMA StackOf ==
    ASSUME NEW n \in Nat \ {0}, NEW d \in [Slots(n) -> Datum], NEW l \in 0..n
    PROVE  StackSound([data |-> d, null |-> FALSE, len |-> l, cap |-> n])
<1>1. d \in Buffer
  BY BufferOf
<1> QED
  BY <1>1 DEF StackSound, StackRecord

\* The sequence a stack stands for.
LEMMA StackItems ==
    ASSUME NEW s, StackSound(s)
    PROVE  /\ S!Items(s) = Listed(s.data, s.len)
           /\ S!Items(s) \in Seq(Datum) /\ Len(S!Items(s)) = s.len
<1>1. SlotsOf(s) \in Nat /\ s.len \in 0..SlotsOf(s) /\ s.data \in [Slots(SlotsOf(s)) -> Datum]
  BY StackParts
<1>2. S!Items(s) = [i \in 1..s.len |-> Load(s.data, i - 1)]
  BY StackBuffers DEF S!Items
<1>3. S!Items(s) = Listed(s.data, s.len)
  BY <1>1, <1>2, LoadsAre
<1> QED
  BY <1>1, <1>3, ListedIs

\* push makes room for an item without losing any.
LEMMA StackRoom ==
    ASSUME NEW s, StackSound(s)
    PROVE  /\ StackSound(S!Room(s)) /\ ~S!Room(s).null
           /\ S!Room(s).len = s.len /\ s.len < S!Room(s).cap
           /\ Listed(S!Room(s).data, s.len) = Listed(s.data, s.len)
<1> DEFINE t == IF s.null THEN [s EXCEPT !.data = S!Alloc(MinCap), !.null = FALSE, !.cap = MinCap]
                ELSE s
           u == IF t.len = t.cap THEN [t EXCEPT !.data = S!Realloc(@, 2 * t.cap), !.cap = 2 * @]
                ELSE t
<1>0. MinCap \in Nat \ {0}
  BY QueueAssumption
<1>1. StackSound(t) /\ ~t.null /\ t.len = s.len /\ Listed(t.data, s.len) = Listed(s.data, s.len)
  <2>1. CASE s.null
    <3>1. s.len = 0
      BY <2>1 DEF StackSound
    <3>2. t = [data |-> Alloc(MinCap), null |-> FALSE, len |-> 0, cap |-> MinCap]
      <4>1. t = [s EXCEPT !.data = Alloc(MinCap), !.null = FALSE, !.cap = MinCap]
        BY <2>1, StackBuffers
      <4>2. s \in StackRecord
        BY StackParts
      <4> HIDE DEF t
      <4> QED
        BY <3>1, <4>1, <4>2 DEF StackRecord
    <3>3. Alloc(MinCap) \in [Slots(MinCap) -> Datum]
      BY <1>0, AllocIs
    <3>4. StackSound(t)
      BY <1>0, <3>2, <3>3, StackOf
    <3> QED
      BY <3>1, <3>2, <3>4, ListedNone
  <2>2. CASE ~s.null
    BY <2>2
  <2> QED
    BY <2>1, <2>2
<1> HIDE DEF t
<1>2. /\ t.cap \in Nat \ {0} /\ t.len \in 0..t.cap /\ t.data \in [Slots(t.cap) -> Datum]
      /\ t \in StackRecord /\ t.null = FALSE
  BY <1>1 DEF StackSound, StackRecord
<1>3. u = S!Room(s)
  BY DEF S!Room, t
<1>4. StackSound(u) /\ ~u.null /\ u.len = t.len /\ t.len < u.cap
      /\ Listed(u.data, t.len) = Listed(t.data, t.len)
  <2>1. CASE t.len = t.cap
    <3> DEFINE n == 2 * t.cap
               d == Realloc(t.data, n)
    <3>1. n \in Nat \ {0} /\ t.len < n /\ t.len \in 0..n
      BY <1>2, <2>1
    <3>2. u = [data |-> d, null |-> FALSE, len |-> t.len, cap |-> n]
      <4>1. u = [t EXCEPT !.data = d, !.cap = n]
        BY <2>1, StackBuffers
      <4> HIDE DEF u, d, n
      <4> QED
        BY <1>2, <4>1 DEF StackRecord
    <3> HIDE DEF n
    <3>3. d \in [Slots(n) -> Datum] /\ \A i \in Slots(n) : i < t.cap => d[i] = t.data[i]
      BY <1>2, <3>1, ReallocIs
    <3> HIDE DEF d, u
    <3>4. \A i \in 0..t.len - 1 : d[i] = t.data[i]
      BY <1>2, <3>1, <3>3 DEF Slots
    <3>5. Listed(d, t.len) = Listed(t.data, t.len)
      BY <1>2, <3>4, SameListed
    <3>6. StackSound(u)
      BY <3>1, <3>2, <3>3, StackOf
    <3> QED
      BY <3>1, <3>2, <3>5, <3>6
  <2>2. CASE t.len # t.cap
    BY <1>1, <1>2, <2>2
  <2> QED
    BY <2>1, <2>2
<1> HIDE DEF u
<1> QED
  BY <1>1, <1>3, <1>4

\* push appends.
LEMMA StackPushed ==
    ASSUME NEW s, StackSound(s), NEW x \in Val
    PROVE  StackSound(S!Pushed(s, x)) /\ S!Items(S!Pushed(s, x)) = Append(S!Items(s), x)
<1> DEFINE t == S!Room(s)
           p == S!Pushed(s, x)
           d == Store(t.data, t.len, x)
<1>1. StackSound(t) /\ ~t.null /\ t.len = s.len /\ t.len < t.cap
      /\ Listed(t.data, t.len) = Listed(s.data, s.len)
  BY StackRoom
<1>2. /\ t.cap \in Nat \ {0} /\ t.len \in 0..t.cap /\ t.data \in [Slots(t.cap) -> Datum]
      /\ t \in StackRecord /\ t.null = FALSE
  BY <1>1 DEF StackSound, StackRecord
<1>3. p = [t EXCEPT !.data = d, !.len = t.len + 1]
  BY StackBuffers DEF S!Pushed
<1> HIDE DEF t, p
<1>4. p = [data |-> d, null |-> FALSE, len |-> t.len + 1, cap |-> t.cap]
  <2> HIDE DEF d
  <2> QED
    BY <1>2, <1>3 DEF StackRecord
<1>5. t.len \in Slots(t.cap) /\ x \in Datum /\ t.len + 1 \in 0..t.cap
  BY <1>1, <1>2 DEF Slots, Datum
<1>6. d \in [Slots(t.cap) -> Datum] /\ Listed(d, t.len + 1) = Append(Listed(t.data, t.len), x)
  <2>1. t.cap \in Nat
    BY <1>2
  <2>2. d \in [Slots(t.cap) -> Datum]
    BY <2>1, <1>2, <1>5, StoreIs
  <2>3. Listed(d, t.len + 1) = Append(Listed(t.data, t.len), x)
    BY <2>1, <1>2, <1>5, StoredAppends
  <2> QED
    BY <2>2, <2>3
<1> HIDE DEF d, p
<1>7. StackSound(p)
  BY <1>2, <1>4, <1>5, <1>6, StackOf
<1>8. S!Items(p) = Listed(d, t.len + 1)
  BY <1>4, <1>7, StackItems
<1> QED
  BY <1>1, <1>6, <1>7, <1>8, StackItems DEF p

\* Taking items from the end leaves those in front.
LEMMA StackCut ==
    ASSUME NEW s, StackSound(s), NEW n \in 0..s.len
    PROVE  LET r == [s EXCEPT !.data = S!Dropped(@, n), !.len = n]
           IN  StackSound(r) /\ S!Items(r) = SubSeq(S!Items(s), 1, n)
<1> DEFINE r == [s EXCEPT !.data = S!Dropped(@, n), !.len = n]
           d == Dropped(s.data, n)
           m == SlotsOf(s)
<1>1. /\ s.len \in Nat /\ s.cap \in Nat /\ s.null \in BOOLEAN /\ m \in Nat
      /\ s.len \in 0..m /\ s.data \in [Slots(m) -> Datum]
      /\ s \in StackRecord
  BY StackParts
<1>2. r = [data |-> d, null |-> s.null, len |-> n, cap |-> s.cap]
  <2>1. r = [s EXCEPT !.data = d, !.len = n]
    BY StackBuffers
  <2> HIDE DEF r, d
  <2> QED
    BY <1>1, <2>1 DEF StackRecord
<1>3. n \in Nat /\ n \in 0..m
  BY <1>1
<1>4. d \in [Slots(m) -> Datum] /\ \A j \in Slots(m) : j < n => d[j] = s.data[j]
  BY <1>1, <1>3, DroppedIs
<1>5. d \in Buffer
  BY <1>1, <1>4, BufferOf
<1> HIDE DEF r, d
<1>6. StackSound(r)
  <2>1. r \in StackRecord
    BY <1>1, <1>2, <1>3, <1>5 DEF StackRecord
  <2> QED
    BY <1>1, <1>2, <1>3, <1>4, <2>1 DEF StackSound, SlotsOf
<1>7. Listed(d, n) = Listed(s.data, n)
  <2>1. \A j \in 0..n - 1 : d[j] = s.data[j]
    BY <1>1, <1>3, <1>4 DEF Slots
  <2> QED
    BY <1>3, <2>1, SameListed
<1>8. SubSeq(Listed(s.data, s.len), 1, n) = Listed(s.data, n)
  BY <1>1, ListedFront
<1>9. S!Items(r) = Listed(d, n)
  BY <1>2, <1>6, StackItems
<1> QED
  BY <1>6, <1>7, <1>8, <1>9, StackItems DEF r

\* free leaves an empty stack.
LEMMA StackFreed ==
    ASSUME NEW s, StackSound(s)
    PROVE  StackSound(S!Freed(s)) /\ S!Items(S!Freed(s)) = << >>
<1>1. S!Freed(s) = [data |-> Alloc(0), null |-> TRUE, len |-> 0, cap |-> s.cap]
  <2>1. S!Freed(s) = [s EXCEPT !.data = Alloc(0), !.null = TRUE, !.len = 0]
    BY StackBuffers DEF S!Freed
  <2>2. s \in StackRecord
    BY StackParts
  <2> QED
    BY <2>1, <2>2 DEF StackRecord
<1>2. Alloc(0) \in [Slots(0) -> Datum] /\ Alloc(0) \in Buffer /\ s.cap \in Nat
  BY AllocIs, BufferOf, StackParts
<1>3. StackSound(S!Freed(s))
  BY <1>1, <1>2 DEF StackSound, StackRecord
<1> QED
  BY <1>1, <1>3, StackItems, ListedNone

\* A new stack is empty.
LEMMA StackNew == StackSound(S!New) /\ S!Items(S!New) = << >>
<1>1. S!New = [data |-> Alloc(0), null |-> TRUE, len |-> 0, cap |-> 0]
  BY StackBuffers DEF S!New
<1>2. Alloc(0) \in [Slots(0) -> Datum] /\ Alloc(0) \in Buffer
  BY AllocIs, BufferOf
<1>3. StackSound(S!New)
  BY <1>1, <1>2 DEF StackSound, StackRecord
<1> QED
  BY <1>1, <1>3, StackItems, ListedNone

\* A clone has the items in a buffer of its own.
LEMMA StackCloned ==
    ASSUME NEW s, StackSound(s), s.cap > 0
    PROVE  StackSound(S!Cloned(s)) /\ S!Items(S!Cloned(s)) = S!Items(s)
<1> DEFINE m == SlotsOf(s)
           d == Copied(Alloc(s.cap), 0, s.data, 0, s.len)
<1>1. /\ s.len \in Nat /\ s.cap \in Nat \ {0} /\ s.null \in BOOLEAN /\ m \in Nat
      /\ s.len \in 0..m /\ s.len \in 0..s.cap /\ s.data \in [Slots(m) -> Datum]
  BY StackParts DEF SlotsOf
<1>2. S!Cloned(s) = [data |-> d, null |-> FALSE, len |-> s.len, cap |-> s.cap]
  BY StackBuffers DEF S!Cloned
<1>3. Alloc(s.cap) \in [Slots(s.cap) -> Datum] /\ 0 + s.len <= m
  BY <1>1, AllocIs
<1> HIDE DEF m
<1>4. /\ d \in [Slots(s.cap) -> Datum]
      /\ \A i \in Slots(s.cap) :
            d[i] = IF 0 <= i /\ i < 0 + s.len THEN s.data[0 + i - 0] ELSE Alloc(s.cap)[i]
  <2>1. IsCopy(d, s.cap, Alloc(s.cap), 0, s.data, 0, s.len)
    BY <1>1, <1>3, CopiedIs
  <2> QED
    BY <2>1 DEF IsCopy
<1> HIDE DEF d
<1>5. \A i \in 0..s.len - 1 : d[i] = s.data[i]
  BY <1>1, <1>4 DEF Slots
<1>6. StackSound(S!Cloned(s))
  BY <1>1, <1>2, <1>4, StackOf
<1>7. Listed(d, s.len) = Listed(s.data, s.len)
  BY <1>1, <1>5, SameListed
<1> QED
  BY <1>2, <1>6, <1>7, StackItems

\* What the mapping makes of a stack's new state.
LEMMA StackSet ==
    ASSUME Stacks, NEW h \in Handle, NEW s, NEW r, StackSound(s), S!Set(h, s, r)
    PROVE  /\ Stacks'
           /\ [g \in Handle |-> S!Items(stk[g])]' =
                 [[g \in Handle |-> S!Items(stk[g])] EXCEPT ![h] = S!Items(s)]
           /\ top' = r
<1>1. stk' = [stk EXCEPT ![h] = s] /\ top' = r /\ stk \in [Handle -> StackRecord]
  BY DEF S!Set, Stacks
<1>2. s \in StackRecord
  BY DEF StackSound
<1>3. stk' \in [Handle -> StackRecord] /\ \A g \in Handle : stk'[g] = IF g = h THEN s ELSE stk[g]
  BY <1>1, <1>2
<1>4. Stacks'
  BY <1>3 DEF Stacks
<1>5. \A g \in Handle : S!Items(stk'[g]) = IF g = h THEN S!Items(s) ELSE S!Items(stk[g])
  BY <1>3
<1> QED
  BY <1>1, <1>4, <1>5

\* What each call does to the sequence.
LEMMA StackNext ==
    ASSUME Stacks, S!Next
    PROVE  Stacks' /\ S!List!Next
<1> DEFINE list == [g \in Handle |-> S!Items(stk[g])]
<1> PICK h \in Handle : \/ S!Pop(h) \/ S!Clear(h) \/ S!Free(h)
                        \/ \E x \in Val : S!Push(h, x)
                        \/ \E g \in Handle : S!Clone(h, g)
  BY DEF S!Next
<1>1. \A g \in Handle : StackSound(stk[g]) /\ stk[g].len \in Nat
  BY StackParts DEF Stacks
<1>2. \A g \in Handle : /\ list[g] = S!Items(stk[g])
                        /\ list[g] \in Seq(Datum) /\ Len(list[g]) = stk[g].len
  BY <1>1, StackItems
<1>3. CASE S!Pop(h)
  <2>1. CASE stk[h].len = 0 /\ S!Set(h, stk[h], Nothing)
    <3>1. S!Items(stk[h]) = << >>
      BY <2>1, <1>2, EmptySeq
    <3>2. Stacks' /\ list' = [list EXCEPT ![h] = << >>] /\ top' = Nothing
      BY <2>1, <3>1, <1>1, StackSet
    <3>3. S!List!PopBack(h)
      BY <3>1, <3>2, <1>2 DEF S!List!PopBack, S!List!Has, S!List!Becomes
    <3> QED
      BY <3>2, <3>3 DEF S!List!Next
  <2>2. CASE /\ stk[h].len > 0
             /\ LET n == stk[h].len - 1
                IN  S!Set(h, [stk[h] EXCEPT !.data = S!Dropped(@, n), !.len = n],
                          S!Load(stk[h].data, n))
    <3> DEFINE n == stk[h].len - 1
               r == [stk[h] EXCEPT !.data = S!Dropped(@, n), !.len = n]
    <3>1. n \in 0..stk[h].len /\ n + 1 = stk[h].len /\ n \in Nat
      BY <2>2, <1>1
    <3>2. StackSound(r) /\ S!Items(r) = SubSeq(S!Items(stk[h]), 1, n)
      BY <3>1, <1>1, StackCut
    <3>3. S!Set(h, r, S!Load(stk[h].data, n))
      BY <2>2
    <3> HIDE DEF r
    <3>4. /\ Stacks' /\ list' = [list EXCEPT ![h] = SubSeq(S!Items(stk[h]), 1, n)]
          /\ top' = S!Load(stk[h].data, n)
      BY <3>2, <3>3, <1>1, StackSet
    <3>5. S!Load(stk[h].data, n) = list[h][Len(list[h])]
      <4>1. S!Items(stk[h]) = [i \in 1..n + 1 |-> S!Load(stk[h].data, i - 1)]
        BY <3>1 DEF S!Items
      <4>2. S!Items(stk[h])[n + 1] = S!Load(stk[h].data, n)
        BY <3>1, <4>1
      <4> QED
        BY <4>2, <3>1, <1>2
    <3>6. n = Len(list[h]) - 1 /\ list[h] # << >>
      BY <3>1, <1>2
    <3>7. S!List!PopBack(h)
      <4> HIDE DEF list, n
      <4> QED
        BY <3>4, <3>5, <3>6, <1>2 DEF S!List!PopBack, S!List!Has, S!List!Becomes, list
    <3> QED
      BY <3>4, <3>7 DEF S!List!Next
  <2> QED
    BY <1>3, <2>1, <2>2 DEF S!Pop
<1>4. CASE S!Clear(h) \/ S!Free(h)
  <2>1. Stacks' /\ list' = [list EXCEPT ![h] = << >>] /\ top' = Nothing
    <3>1. CASE S!Clear(h)
      <4> DEFINE r == [stk[h] EXCEPT !.data = S!Dropped(@, 0), !.len = 0]
      <4>1. 0 \in 0..stk[h].len
        BY <1>1
      <4>2. StackSound(r) /\ S!Items(r) = SubSeq(S!Items(stk[h]), 1, 0)
        BY <4>1, <1>1, StackCut
      <4>3. SubSeq(S!Items(stk[h]), 1, 0) = << >>
        BY <1>2
      <4>4. S!Set(h, r, Nothing)
        BY <3>1 DEF S!Clear
      <4> HIDE DEF r
      <4> QED
        BY <4>2, <4>3, <4>4, StackSet
    <3>2. CASE S!Free(h)
      BY <3>2, <1>1, StackFreed, StackSet DEF S!Free
    <3> QED
      BY <1>4, <3>1, <3>2
  <2>2. S!List!Clear(h)
    BY <2>1 DEF S!List!Clear, S!List!Has, S!List!Becomes
  <2> QED
    BY <2>1, <2>2 DEF S!List!Next
<1>5. CASE \E x \in Val : S!Push(h, x)
  <2> PICK x \in Val : S!Push(h, x)
    BY <1>5
  <2>1. /\ StackSound(S!Pushed(stk[h], x))
        /\ S!Items(S!Pushed(stk[h], x)) = Append(S!Items(stk[h]), x)
    BY <1>1, StackPushed
  <2>2. /\ Stacks' /\ list' = [list EXCEPT ![h] = Append(S!Items(stk[h]), x)]
        /\ top' = Nothing
    BY <2>1, StackSet DEF S!Push
  <2>3. S!List!PushBack(h, x)
    BY <2>2, <1>2 DEF S!List!PushBack, S!List!Has, S!List!Becomes
  <2> QED
    BY <2>2, <2>3 DEF S!List!Next
<1>6. CASE \E g \in Handle : S!Clone(h, g)
  <2> PICK g \in Handle : S!Clone(h, g)
    BY <1>6
  <2>1. StackSound(S!Cloned(stk[g])) /\ S!Items(S!Cloned(stk[g])) = S!Items(stk[g])
    BY <1>1, StackCloned DEF S!Clone
  <2>2. Stacks' /\ list' = [list EXCEPT ![h] = S!Items(stk[g])] /\ top' = Nothing
    BY <2>1, StackSet DEF S!Clone
  <2>3. S!List!Copy(h, g)
    BY <2>2, <1>2 DEF S!List!Copy, S!List!Has, S!List!Becomes
  <2> QED
    BY <2>2, <2>3 DEF S!List!Next
<1> QED
  BY <1>3, <1>4, <1>5, <1>6

\* Every stack of std/stack.zc is a sequence of its own: push appends to it, pop takes its
\* last item, clone copies it and clear and free empty it, and no call shows in another stack.
THEOREM StackImplementsList == S!Spec => StackIsList
<1>1. S!Init => Stacks /\ S!List!Init
  <2> SUFFICES ASSUME S!Init PROVE Stacks /\ S!List!Init
    OBVIOUS
  <2>1. stk = [h \in Handle |-> S!New] /\ top = Nothing
    BY DEF S!Init
  <2>2. StackSound(S!New) /\ S!New \in StackRecord /\ S!Items(S!New) = << >>
    BY StackNew DEF StackSound
  <2> QED
    BY <2>1, <2>2 DEF Stacks, S!List!Init
<1>2. Stacks /\ [S!Next]_S!vars => Stacks' /\ [S!List!Next]_S!List!vars
  <2>1. Stacks /\ S!Next => Stacks' /\ S!List!Next
    BY StackNext
  <2>2. Stacks /\ UNCHANGED S!vars => Stacks' /\ UNCHANGED S!List!vars
    BY DEF S!vars, S!List!vars, Stacks
  <2> QED
    BY <2>1, <2>2
<1> QED
  BY <1>1, <1>2, PTL DEF S!Spec, StackIsList, S!StackIsList, S!List!Spec

-----------------------------------------------------------------------------
(* Loops *)

\* A set of numbers that is not empty has a least one.
LEMMA LeastOf ==
    ASSUME NEW T \in SUBSET Nat, T # {}
    PROVE  \E m \in T : \A i \in T : m <= i
<1> DEFINE R == OpToRel(<, Nat)
<1>1. IsWellFoundedOn(R, Nat)
  BY NatLessThanWellFounded
<1> HIDE DEF R
<1>2. PICK m \in T : \A y \in T : ~(<<y, m>> \in R)
  BY <1>1, WFMin
<1>3. ASSUME NEW y \in T PROVE m <= y
  <2>1. y < m => <<y, m>> \in R
    BY DEF R, OpToRel
  <2> QED
    BY <2>1, <1>2
<1> QED
  BY <1>3

\* Induction, for a set.
LEMMA SetInduction ==
    ASSUME NEW T, 0 \in T, \A n \in Nat : n \in T => n + 1 \in T
    PROVE  Nat \subseteq T
<1> DEFINE U == Nat \ T
<1>1. ASSUME U # {} PROVE FALSE
  <2>1. PICK m \in U : \A i \in U : m <= i
    BY <1>1, LeastOf
  <2>2. m \in Nat /\ m # 0 /\ m - 1 \in Nat
    OBVIOUS
  <2>3. m - 1 \in U
    BY <2>2
  <2> QED
    BY <2>1, <2>2, <2>3
<1> QED
  BY <1>1

\* f is what a loop makes of x that applies G to it c times.
Loop(f, x, G, c) == f = [k \in 0..c |-> IF k = 0 THEN x ELSE G[f[k - 1]]]

\* A loop can be run, and what its body preserves holds of its results.
LEMMA LoopRuns ==
    ASSUME NEW D, NEW x \in D, NEW G \in [D -> D], NEW c \in Nat
    PROVE  \E f \in [0..c -> D] : Loop(f, x, G, c)
<1> DEFINE T == {b \in Nat : \E f \in [0..b -> D] : Loop(f, x, G, b)}
<1>1. 0 \in T
  <2> DEFINE f == [k \in 0..0 |-> x]
  <2>1. f \in [0..0 -> D] /\ Loop(f, x, G, 0)
    BY DEF Loop
  <2> QED
    BY <2>1
<1>2. ASSUME NEW b \in Nat, b \in T PROVE b + 1 \in T
  <2>1. PICK f \in [0..b -> D] : Loop(f, x, G, b)
    BY <1>2
  <2> DEFINE g == [k \in 0..b+1 |-> IF k = b + 1 THEN G[f[b]] ELSE f[k]]
  <2>2. f[b] \in D /\ \A k \in 0..b : f[k] \in D
    OBVIOUS
  <2>3. g \in [0..b+1 -> D]
    <3>1. \A k \in 0..b+1 : k # b + 1 => k \in 0..b
      OBVIOUS
    <3> QED
      BY <2>2, <3>1
  <2>4. \A k \in 0..b : f[k] = IF k = 0 THEN x ELSE G[f[k - 1]]
    BY <2>1 DEF Loop
  <2>5. ASSUME NEW k \in 0..b+1
        PROVE  g[k] = IF k = 0 THEN x ELSE G[g[k - 1]]
    <3>1. CASE k = b + 1
      <4>1. k # 0 /\ k - 1 = b /\ b \in 0..b+1 /\ b # b + 1
        BY <3>1
      <4> QED
        BY <3>1, <4>1
    <3>2. CASE k # b + 1
      <4>1. k \in 0..b /\ g[k] = f[k] /\ (k # 0 => k - 1 \in 0..b+1 /\ k - 1 # b + 1)
        BY <3>2
      <4>2. k # 0 => g[k - 1] = f[k - 1]
        BY <4>1
      <4> QED
        BY <4>1, <4>2, <2>4
    <3> QED
      BY <3>1, <3>2
  <2> HIDE DEF g
  <2>6. Loop(g, x, G, b + 1)
    BY <2>3, <2>5 DEF Loop
  <2> QED
    BY <2>3, <2>6
<1> HIDE DEF T
<1>3. c \in T
  BY <1>1, <1>2, SetInduction
<1> QED
  BY <1>3 DEF T

\* Doubling: the capacity never shrinks, and n items fit in the end.
LEMMA DoubledFits ==
    ASSUME NEW cap \in Nat, NEW n \in Nat
    PROVE  V!Doubled(cap, n) \in Nat /\ V!Doubled(cap, n) >= n /\ V!Doubled(cap, n) >= cap
<1> DEFINE first == IF cap = 0 THEN MinCap ELSE cap
           G == [a \in Nat |-> IF a < n THEN 2 * a ELSE a]
           IsGrown(f) == f = [k \in 0..n |-> IF k = 0 THEN IF cap = 0 THEN MinCap ELSE cap
                                           ELSE IF f[k - 1] < n THEN 2 * f[k - 1] ELSE f[k - 1]]
           g == CHOOSE f : IsGrown(f)
<1>1. first \in Nat \ {0} /\ first >= cap
  BY QueueAssumption
<1>2. G \in [Nat -> Nat]
  OBVIOUS
<1>3. PICK e \in [0..n -> Nat] : Loop(e, first, G, n)
  <2> HIDE DEF first, G
  <2> QED
    BY <1>1, <1>2, LoopRuns
<1>4. IsGrown(e)
  <2>1. ASSUME NEW k \in 0..n
        PROVE  e[k] = IF k = 0 THEN IF cap = 0 THEN MinCap ELSE cap
                      ELSE IF e[k - 1] < n THEN 2 * e[k - 1] ELSE e[k - 1]
    <3>1. e[k] = IF k = 0 THEN first ELSE G[e[k - 1]]
      <4> HIDE DEF first, G
      <4> QED
        BY <1>3 DEF Loop
    <3>2. k # 0 => e[k - 1] \in Nat
      OBVIOUS
    <3> QED
      BY <3>1, <3>2
  <2> QED
    BY <2>1
<1>5. IsGrown(g)
  BY <1>4
<1>6. V!Doubled(cap, n) = g[n]
  BY DEF V!Doubled
<1> HIDE DEF g
<1>7. /\ g[0] = first
      /\ \A k \in 0..n : k # 0 => g[k] = IF g[k - 1] < n THEN 2 * g[k - 1] ELSE g[k - 1]
  BY <1>5
<1> DEFINE U == {k \in Nat : k <= n => g[k] \in Nat /\ g[k] >= cap /\ (g[k] >= n \/ g[k] > k)}
<1>8. 0 \in U
  BY <1>1, <1>7
<1>9. ASSUME NEW k \in Nat, k \in U PROVE k + 1 \in U
  <2> SUFFICES ASSUME k + 1 <= n PROVE g[k + 1] \in Nat /\ g[k + 1] >= cap
                                        /\ (g[k + 1] >= n \/ g[k + 1] > k + 1)
    BY DEF U
  <2>1. k + 1 \in 0..n /\ k + 1 # 0 /\ (k + 1) - 1 = k
    OBVIOUS
  <2>2. g[k + 1] = IF g[k] < n THEN 2 * g[k] ELSE g[k]
    BY <1>7, <2>1
  <2>3. g[k] \in Nat /\ g[k] >= cap /\ (g[k] >= n \/ g[k] > k)
    BY <1>9
  <2> QED
    BY <2>2, <2>3
<1> HIDE DEF U
<1>10. n \in U
  BY <1>8, <1>9, SetInduction
<1> QED
  BY <1>6, <1>10 DEF U

-----------------------------------------------------------------------------
(* Vectors *)

\* The struct Vec.
VecRecord == [data : Buffer, len : Nat, cap : Nat]

\* A vector is sound: its items fit into its buffer.
VecSound(v) == v \in VecRecord /\ v.len <= v.cap /\ v.data \in [Slots(v.cap) -> Datum]

\* The invariant: every vector is sound.
Vecs == vec \in [Handle -> VecRecord] /\ \A h \in Handle : VecSound(vec[h])

\* The operators of Buffers are the same seen from Vec.
LEMMA VecBuffers ==
    /\ \A d, i : V!Load(d, i) = Load(d, i)
    /\ \A d, i, x : V!Store(d, i, x) = Store(d, i, x)
    /\ \A d, n : V!Realloc(d, n) = Realloc(d, n)
    /\ \A d, n : V!Dropped(d, n) = Dropped(d, n)
    /\ \A d, to, s, from, n : V!Copied(d, to, s, from, n) = Copied(d, to, s, from, n)
    /\ \A n : V!Alloc(n) = Alloc(n)
<1>1. \A d, i : V!Load(d, i) = Load(d, i)
  BY DEF V!Load, Load
<1>2. \A d, i, x : V!Store(d, i, x) = Store(d, i, x)
  BY DEF V!Store, Store
<1>3. \A n : V!Slots(n) = Slots(n)
  BY DEF V!Slots, Slots
<1>4. \A d, n : V!Realloc(d, n) = Realloc(d, n)
  BY <1>1, <1>3 DEF V!Realloc, Realloc
<1>5. \A d, n : V!Dropped(d, n) = Dropped(d, n)
  BY DEF V!Dropped, Dropped
<1>6. \A d, to, s, from, n : V!Copied(d, to, s, from, n) = Copied(d, to, s, from, n)
  BY <1>1 DEF V!Copied, Copied
<1>7. \A n : V!Alloc(n) = Alloc(n)
  BY <1>3 DEF V!Alloc, Alloc
<1> QED
  BY <1>1, <1>2, <1>4, <1>5, <1>6, <1>7

\* What the fields of a sound vector hold.
LEMMA VecParts ==
    ASSUME NEW v, VecSound(v)
    PROVE  /\ v \in VecRecord /\ v.len \in Nat /\ v.cap \in Nat /\ v.len \in 0..v.cap
           /\ v.data \in [Slots(v.cap) -> Datum]
BY DEF VecSound, VecRecord

\* A vector put together of fields that fit.
LEMMA VecOf ==
    ASSUME NEW n \in Nat, NEW d \in [Slots(n) -> Datum], NEW l \in 0..n
    PROVE  VecSound([data |-> d, len |-> l, cap |-> n])
<1>1. d \in Buffer
  BY BufferOf
<1> QED
  BY <1>1 DEF VecSound, VecRecord

\* The sequence a vector stands for.
LEMMA VecItems ==
    ASSUME NEW v, VecSound(v)
    PROVE  /\ V!Items(v) = Listed(v.data, v.len)
           /\ V!Items(v) \in Seq(Datum) /\ Len(V!Items(v)) = v.len
           /\ \A i \in 1..v.len : V!Items(v)[i] = v.data[i - 1]
<1>1. v.cap \in Nat /\ v.len \in 0..v.cap /\ v.data \in [Slots(v.cap) -> Datum]
  BY VecParts
<1>2. V!Items(v) = [i \in 1..v.len |-> Load(v.data, i - 1)]
  BY VecBuffers DEF V!Items
<1>3. V!Items(v) = Listed(v.data, v.len)
  BY <1>1, <1>2, LoadsAre
<1>4. /\ Listed(v.data, v.len) \in Seq(Datum) /\ Len(Listed(v.data, v.len)) = v.len
      /\ \A i \in 1..v.len : Listed(v.data, v.len)[i] = v.data[i - 1]
  BY <1>1, ListedIs
<1> QED
  BY <1>3, <1>4

\* A vector whose slots hold the items of a sequence stands for it.
LEMMA VecStandsFor ==
    ASSUME NEW v, VecSound(v), NEW s \in Seq(Datum), Len(s) = v.len,
           \A i \in 1..v.len : v.data[i - 1] = s[i]
    PROVE  V!Items(v) = s
<1>1. v.len \in Nat
  BY VecParts
<1>2. Listed(v.data, v.len) = s
  BY <1>1, ListedEqual
<1> QED
  BY <1>2, VecItems

\* w has v's items, and room for n.
Holds(w, v, n) == /\ VecSound(w) /\ w.len = v.len /\ w.cap >= n
                  /\ \A i \in 0..v.len - 1 : w.data[i] = v.data[i]

\* A vector moved to a buffer that is not smaller than its length.
LEMMA VecMoved ==
    ASSUME NEW v, VecSound(v), NEW n \in Nat, v.len <= n
    PROVE  Holds([v EXCEPT !.data = V!Realloc(v.data, n), !.cap = n], v, n)
<1> DEFINE w == [v EXCEPT !.data = V!Realloc(v.data, n), !.cap = n]
           d == Realloc(v.data, n)
<1>1. /\ v \in VecRecord /\ v.len \in Nat /\ v.cap \in Nat /\ v.len \in 0..v.cap
      /\ v.data \in [Slots(v.cap) -> Datum] /\ v.len \in 0..n
  BY VecParts
<1>2. w = [v EXCEPT !.data = d, !.cap = n]
  BY VecBuffers
<1>3. d \in [Slots(n) -> Datum] /\ \A i \in Slots(n) : i < v.cap => d[i] = v.data[i]
  BY <1>1, ReallocIs
<1> HIDE DEF w, d
<1>4. w = [data |-> d, len |-> v.len, cap |-> n]
  BY <1>1, <1>2 DEF VecRecord
<1>5. VecSound(w)
  BY <1>1, <1>3, <1>4, VecOf
<1>6. \A i \in 0..v.len - 1 : d[i] = v.data[i]
  BY <1>1, <1>3 DEF Slots
<1>7. Holds(w, v, n)
  BY <1>4, <1>5, <1>6 DEF Holds
<1> QED
  BY <1>7 DEF w

\* A push or an insert has room for its item.
LEMMA VecRoom == ASSUME NEW v, VecSound(v)  PROVE Holds(V!Room(v), v, v.len + 1)
<1>0. v.len \in Nat /\ v.cap \in Nat /\ v.len <= v.cap /\ MinCap \in Nat \ {0}
  BY VecParts, QueueAssumption
<1>1. CASE v.len >= v.cap
  <2> DEFINE cap == IF v.cap = 0 THEN MinCap ELSE 2 * v.cap
  <2>1. cap \in Nat /\ cap >= v.len + 1 /\ v.len <= cap
    BY <1>0, <1>1
  <2>2. V!Room(v) = [v EXCEPT !.data = V!Realloc(v.data, cap), !.cap = cap]
    BY <1>1 DEF V!Room, V!Grow
  <2> HIDE DEF cap
  <2>3. Holds([v EXCEPT !.data = V!Realloc(v.data, cap), !.cap = cap], v, cap)
    BY <2>1, VecMoved
  <2>4. Holds(V!Room(v), v, cap)
    BY <2>2, <2>3
  <2>5. V!Room(v).cap \in Nat
    BY <2>4, VecParts DEF Holds
  <2> QED
    BY <1>0, <2>1, <2>4, <2>5 DEF Holds
<1>2. CASE ~(v.len >= v.cap)
  BY <1>0, <1>2 DEF V!Room, Holds
<1> QED
  BY <1>1, <1>2

\* grow_to_fit makes room for n items.
LEMMA VecFits == ASSUME NEW v, VecSound(v), NEW n \in Nat  PROVE Holds(V!GrowToFit(v, n), v, n)
<1>0. v.len \in Nat /\ v.cap \in Nat /\ v.len <= v.cap
  BY VecParts
<1>1. CASE v.cap >= n
  BY <1>0, <1>1 DEF V!GrowToFit, Holds
<1>2. CASE ~(v.cap >= n)
  <2> DEFINE cap == V!Doubled(v.cap, n)
  <2>0. cap \in Nat /\ cap >= n /\ cap >= v.cap
    BY <1>0, DoubledFits
  <2>2. V!GrowToFit(v, n) = [v EXCEPT !.data = V!Realloc(v.data, cap), !.cap = cap]
    BY <1>2 DEF V!GrowToFit
  <2> HIDE DEF cap
  <2>1. v.len <= cap
    BY <1>0, <2>0
  <2>3. Holds([v EXCEPT !.data = V!Realloc(v.data, cap), !.cap = cap], v, cap)
    BY <2>0, <2>1, VecMoved
  <2>4. Holds(V!GrowToFit(v, n), v, cap)
    BY <2>2, <2>3
  <2>5. V!GrowToFit(v, n).cap \in Nat
    BY <2>4, VecParts DEF Holds
  <2> QED
    BY <1>0, <2>0, <2>4, <2>5 DEF Holds
<1> QED
  BY <1>1, <1>2

\* w is v with the n items d in the same buffer.
Filled(w, v, d, n) == VecSound(w) /\ w.len = n /\ w.data = d /\ w.cap = v.cap

\* A vector given n items in the buffer it has is sound.
LEMMA VecFilled ==
    ASSUME NEW v, VecSound(v), NEW d \in [Slots(v.cap) -> Datum], NEW n \in 0..v.cap
    PROVE  Filled([v EXCEPT !.data = d, !.len = n], v, d, n)
<1> DEFINE w == [v EXCEPT !.data = d, !.len = n]
<1>1. v \in VecRecord /\ v.cap \in Nat
  BY VecParts
<1>2. w = [v EXCEPT !.data = d, !.len = n]
  OBVIOUS
<1> HIDE DEF w
<1>3. w = [data |-> d, len |-> n, cap |-> v.cap]
  BY <1>1, <1>2 DEF VecRecord
<1>4. VecSound([data |-> d, len |-> n, cap |-> v.cap])
  BY <1>1, VecOf
<1>5. Filled(w, v, d, n)
  BY <1>3, <1>4 DEF Filled
<1> QED
  BY <1>5 DEF w

\* push appends.
LEMMA VecPushed ==
    ASSUME NEW v, VecSound(v), NEW x \in Val
    PROVE  VecSound(V!Pushed(v, x)) /\ V!Items(V!Pushed(v, x)) = Append(V!Items(v), x)
<1> DEFINE w == V!Room(v)
           d == Store(w.data, w.len, x)
           p == V!Pushed(v, x)
           s == V!Items(v)
<1>1. Holds(w, v, v.len + 1)
  BY VecRoom
<1>2. p = [w EXCEPT !.data = d, !.len = w.len + 1]
  BY VecBuffers DEF V!Pushed
<1> HIDE DEF w, p
<1>3. /\ v.len \in Nat /\ VecSound(w) /\ w.len = v.len /\ w.cap \in Nat /\ w.len \in Slots(w.cap)
      /\ w.len + 1 \in 0..w.cap /\ w.data \in [Slots(w.cap) -> Datum]
  BY <1>1, VecParts DEF Holds, Slots
<1>4. x \in Datum
  BY DEF Datum
<1>5. /\ d \in [Slots(w.cap) -> Datum] /\ d[w.len] = x
      /\ \A j \in Slots(w.cap) : j # w.len => d[j] = w.data[j]
  BY <1>3, <1>4, StoreIs
<1> HIDE DEF d
<1>6. VecSound(p) /\ p.len = v.len + 1 /\ p.data = d
  <2>1. Filled([w EXCEPT !.data = d, !.len = w.len + 1], w, d, w.len + 1)
    BY <1>3, <1>5, VecFilled
  <2> QED
    BY <1>2, <1>3, <2>1 DEF Filled
<1>7. s \in Seq(Datum) /\ Len(s) = v.len /\ \A i \in 1..v.len : s[i] = v.data[i - 1]
  BY VecItems
<1> HIDE DEF s
<1>8. /\ Append(s, x) \in Seq(Datum) /\ Len(Append(s, x)) = v.len + 1
      /\ \A i \in 1..v.len : Append(s, x)[i] = s[i]
      /\ Append(s, x)[v.len + 1] = x
  BY <1>4, <1>7, AppendProperties
<1>9. ASSUME NEW i \in 1..p.len PROVE p.data[i - 1] = Append(s, x)[i]
  <2>1. CASE i = v.len + 1
    BY <2>1, <1>3, <1>5, <1>6, <1>8
  <2>2. CASE i # v.len + 1
    <3>1. i \in 1..v.len /\ i - 1 \in 0..v.len - 1 /\ i - 1 \in Slots(w.cap) /\ i - 1 # w.len
      BY <2>2, <1>3, <1>6 DEF Slots
    <3>2. d[i - 1] = w.data[i - 1] /\ w.data[i - 1] = v.data[i - 1]
      BY <3>1, <1>1, <1>5 DEF Holds
    <3> QED
      BY <3>1, <3>2, <1>6, <1>7, <1>8
  <2> QED
    BY <2>1, <2>2
<1> QED
  BY <1>6, <1>8, <1>9, VecStandsFor DEF s, p

\* The items in front of one, and those behind it.
LEMMA FrontAndBack ==
    ASSUME NEW s \in Seq(Datum), NEW i \in 0..Len(s), NEW k \in 1..Len(s) + 1
    PROVE  /\ SubSeq(s, 1, i) \in Seq(Datum) /\ Len(SubSeq(s, 1, i)) = i
           /\ \A j \in 1..i : SubSeq(s, 1, i)[j] = s[j]
           /\ SubSeq(s, k, Len(s)) \in Seq(Datum)
           /\ Len(SubSeq(s, k, Len(s))) = Len(s) + 1 - k
           /\ \A j \in 1..Len(s) + 1 - k : SubSeq(s, k, Len(s))[j] = s[k + j - 1]
<1>1. Len(s) \in Nat /\ \A j \in 1..Len(s) : s[j] \in Datum
  OBVIOUS
<1>2. \A j \in 1..i : s[j] \in Datum
  BY <1>1
<1>3. \A j \in k..Len(s) : s[j] \in Datum
  BY <1>1
<1>4. 1 \in Int /\ i \in Int /\ k \in Int /\ Len(s) \in Int
  BY <1>1
<1>5. /\ SubSeq(s, 1, i) \in Seq(Datum) /\ Len(SubSeq(s, 1, i)) = IF 1 <= i THEN i - 1 + 1 ELSE 0
      /\ \A j \in 1..i - 1 + 1 : SubSeq(s, 1, i)[j] = s[1 + j - 1]
  BY <1>2, <1>4, SubSeqProperties
<1>6. /\ SubSeq(s, k, Len(s)) \in Seq(Datum)
      /\ Len(SubSeq(s, k, Len(s))) = IF k <= Len(s) THEN Len(s) - k + 1 ELSE 0
      /\ \A j \in 1..Len(s) - k + 1 : SubSeq(s, k, Len(s))[j] = s[k + j - 1]
  BY <1>3, <1>4, SubSeqProperties
<1>7. \A j \in 1..i : j \in 1..i - 1 + 1 /\ 1 + j - 1 = j
  OBVIOUS
<1>8. \A j \in 1..Len(s) + 1 - k : j \in 1..Len(s) - k + 1
  BY <1>1
<1>9. i - 1 + 1 = i /\ (~(1 <= i) => i = 0) /\ Len(s) - k + 1 = Len(s) + 1 - k
      /\ (~(k <= Len(s)) => Len(s) + 1 - k = 0)
  BY <1>1
<1> QED
  BY <1>5, <1>6, <1>7, <1>8, <1>9

\* What List!Insert and List!Remove make of a sequence, item by item.
LEMMA WithItem ==
    ASSUME NEW s \in Seq(Datum), NEW i \in 0..Len(s), NEW x \in Datum
    PROVE  LET t == SubSeq(s, 1, i) \o <<x>> \o SubSeq(s, i + 1, Len(s))
           IN  /\ t \in Seq(Datum) /\ Len(t) = Len(s) + 1
               /\ \A j \in 1..Len(s) + 1 :
                     t[j] = IF j <= i THEN s[j] ELSE IF j = i + 1 THEN x ELSE s[j - 1]
<1> DEFINE a == SubSeq(s, 1, i)
           b == SubSeq(s, i + 1, Len(s))
           c == a \o <<x>>
           t == c \o b
<1>0. Len(s) \in Nat /\ i + 1 \in 1..Len(s) + 1
  OBVIOUS
<1>1. /\ a \in Seq(Datum) /\ Len(a) = i /\ \A j \in 1..i : a[j] = s[j]
      /\ b \in Seq(Datum) /\ Len(b) = Len(s) + 1 - (i + 1)
      /\ \A j \in 1..Len(s) + 1 - (i + 1) : b[j] = s[(i + 1) + j - 1]
  BY <1>0, FrontAndBack
<1> HIDE DEF a, b
<1>2. <<x>> \in Seq(Datum) /\ Len(<<x>>) = 1 /\ <<x>>[1] = x
  OBVIOUS
<1>3. /\ c \in Seq(Datum) /\ Len(c) = i + 1
      /\ \A j \in 1..i + 1 : c[j] = IF j <= i THEN s[j] ELSE x
  <2>1. /\ c \in Seq(Datum) /\ Len(c) = Len(a) + Len(<<x>>)
        /\ \A j \in 1..Len(a) + Len(<<x>>) :
              c[j] = IF j <= Len(a) THEN a[j] ELSE <<x>>[j - Len(a)]
    BY <1>1, <1>2, ConcatProperties
  <2>2. ASSUME NEW j \in 1..i + 1 PROVE c[j] = IF j <= i THEN s[j] ELSE x
    <3>1. c[j] = IF j <= i THEN a[j] ELSE <<x>>[j - i]
      BY <1>1, <1>2, <2>1
    <3>2. j <= i => j \in 1..i
      OBVIOUS
    <3>3. ~(j <= i) => j - i = 1
      OBVIOUS
    <3> QED
      BY <3>1, <3>2, <3>3, <1>1, <1>2
  <2> QED
    BY <1>1, <1>2, <2>1, <2>2
<1> HIDE DEF c
<1>4. /\ t \in Seq(Datum) /\ Len(t) = Len(c) + Len(b)
      /\ \A j \in 1..Len(c) + Len(b) : t[j] = IF j <= Len(c) THEN c[j] ELSE b[j - Len(c)]
  BY <1>1, <1>3, ConcatProperties
<1> HIDE DEF t
<1>5. ASSUME NEW j \in 1..Len(s) + 1
      PROVE  t[j] = IF j <= i THEN s[j] ELSE IF j = i + 1 THEN x ELSE s[j - 1]
  <2>1. t[j] = IF j <= i + 1 THEN c[j] ELSE b[j - (i + 1)]
    BY <1>0, <1>1, <1>3, <1>4
  <2>2. j <= i + 1 => j \in 1..i + 1 /\ c[j] = IF j <= i THEN s[j] ELSE x
    BY <1>3
  <2>3. ~(j <= i + 1) => /\ j - (i + 1) \in 1..Len(s) + 1 - (i + 1)
                         /\ (i + 1) + (j - (i + 1)) - 1 = j - 1
    BY <1>0
  <2>4. ~(j <= i + 1) => b[j - (i + 1)] = s[j - 1]
    BY <2>3, <1>1
  <2> QED
    BY <1>0, <2>1, <2>2, <2>4
<1>6. Len(t) = Len(s) + 1
  BY <1>0, <1>1, <1>3, <1>4
<1> QED
  BY <1>4, <1>5, <1>6 DEF t, c, a, b

\* A sequence without the item at i.
LEMMA WithoutItem ==
    ASSUME NEW s \in Seq(Datum), NEW i \in 0..Len(s) - 1
    PROVE  LET t == SubSeq(s, 1, i) \o SubSeq(s, i + 2, Len(s))
           IN  /\ t \in Seq(Datum) /\ Len(t) = Len(s) - 1
               /\ \A j \in 1..Len(s) - 1 : t[j] = IF j <= i THEN s[j] ELSE s[j + 1]
<1> DEFINE a == SubSeq(s, 1, i)
           b == SubSeq(s, i + 2, Len(s))
           t == a \o b
<1>0. Len(s) \in Nat /\ i + 2 \in 1..Len(s) + 1 /\ i \in 0..Len(s)
  OBVIOUS
<1>1. /\ a \in Seq(Datum) /\ Len(a) = i /\ \A j \in 1..i : a[j] = s[j]
      /\ b \in Seq(Datum) /\ Len(b) = Len(s) + 1 - (i + 2)
      /\ \A j \in 1..Len(s) + 1 - (i + 2) : b[j] = s[(i + 2) + j - 1]
  BY <1>0, FrontAndBack
<1> HIDE DEF a, b
<1>2. /\ t \in Seq(Datum) /\ Len(t) = Len(a) + Len(b)
      /\ \A j \in 1..Len(a) + Len(b) : t[j] = IF j <= Len(a) THEN a[j] ELSE b[j - Len(a)]
  BY <1>1, ConcatProperties
<1> HIDE DEF t
<1>3. Len(a) + Len(b) = Len(s) - 1
  BY <1>0, <1>1
<1>4. ASSUME NEW j \in 1..Len(s) - 1
      PROVE  t[j] = IF j <= i THEN s[j] ELSE s[j + 1]
  <2>1. t[j] = IF j <= i THEN a[j] ELSE b[j - i]
    BY <1>1, <1>2, <1>3
  <2>2. j <= i => j \in 1..i /\ a[j] = s[j]
    BY <1>1
  <2>3. ~(j <= i) => j - i \in 1..Len(s) + 1 - (i + 2) /\ (i + 2) + (j - i) - 1 = j + 1
    BY <1>0
  <2>4. ~(j <= i) => b[j - i] = s[j + 1]
    BY <2>3, <1>1
  <2> QED
    BY <2>1, <2>2, <2>4
<1> QED
  BY <1>2, <1>3, <1>4 DEF t, a, b

\* insert shifts what is behind the item.
LEMMA VecInserted ==
    ASSUME NEW v, VecSound(v), NEW i \in 0..v.len, NEW x \in Val
    PROVE  /\ VecSound(V!Inserted(v, i, x))
           /\ V!Items(V!Inserted(v, i, x)) =
                 LET s == V!Items(v)
                 IN  SubSeq(s, 1, i) \o <<x>> \o SubSeq(s, i + 1, Len(s))
<1> DEFINE w == V!Room(v)
           c == IF i < w.len THEN Copied(w.data, i + 1, w.data, i, w.len - i) ELSE w.data
           d == Store(c, i, x)
           p == V!Inserted(v, i, x)
           s == V!Items(v)
           t == SubSeq(s, 1, i) \o <<x>> \o SubSeq(s, i + 1, Len(s))
<1>1. Holds(w, v, v.len + 1)
  BY VecRoom
<1>2. p = [w EXCEPT !.data = d, !.len = w.len + 1]
  BY VecBuffers DEF V!Inserted
<1> HIDE DEF w, p
<1>3. /\ v.len \in Nat /\ VecSound(w) /\ w.len = v.len /\ w.cap \in Nat /\ w.cap >= v.len + 1
      /\ w.len + 1 \in 0..w.cap /\ w.data \in [Slots(w.cap) -> Datum] /\ i \in Slots(w.cap)
  BY <1>1, VecParts DEF Holds, Slots
<1>4. x \in Datum
  BY DEF Datum
<1>5. /\ c \in [Slots(w.cap) -> Datum]
      /\ \A j \in Slots(w.cap) : /\ j < i => c[j] = w.data[j]
                                 /\ i < j /\ j <= w.len => c[j] = w.data[j - 1]
  <2>1. CASE i < w.len
    <3> DEFINE k == w.len - i
               to == i + 1
    <3>1. to \in Nat /\ i \in Nat /\ k \in Nat /\ i + k <= w.cap
      BY <2>1, <1>3
    <3>a. /\ Copied(w.data, to, w.data, i, k) \in [Slots(w.cap) -> Datum]
          /\ \A j \in Slots(w.cap) : Copied(w.data, to, w.data, i, k)[j] =
                IF to <= j /\ j < to + k THEN w.data[i + j - to] ELSE w.data[j]
      <4> HIDE DEF k, to
      <4>1. IsCopy(Copied(w.data, to, w.data, i, k), w.cap, w.data, to, w.data, i, k)
        BY <3>1, <1>3, CopiedIs
      <4> QED
        BY <4>1 DEF IsCopy
    <3>2. /\ Copied(w.data, i + 1, w.data, i, w.len - i) \in [Slots(w.cap) -> Datum]
          /\ \A j \in Slots(w.cap) : Copied(w.data, i + 1, w.data, i, w.len - i)[j] =
                IF i + 1 <= j /\ j < i + 1 + (w.len - i) THEN w.data[i + j - (i + 1)]
                ELSE w.data[j]
      BY <3>a
    <3>3. c = Copied(w.data, i + 1, w.data, i, w.len - i)
      BY <2>1
    <3> HIDE DEF c
    <3>4. ASSUME NEW j \in Slots(w.cap)
          PROVE  /\ j < i => c[j] = w.data[j]
                 /\ i < j /\ j <= w.len => c[j] = w.data[j - 1]
      <4>1. c[j] = IF i + 1 <= j /\ j < i + 1 + (w.len - i) THEN w.data[i + j - (i + 1)]
                   ELSE w.data[j]
        BY <3>2, <3>3
      <4>2. /\ j < i => ~(i + 1 <= j)
            /\ i < j /\ j <= w.len => i + 1 <= j /\ j < i + 1 + (w.len - i)
            /\ i + j - (i + 1) = j - 1
        BY <1>3 DEF Slots
      <4> QED
        BY <4>1, <4>2
    <3> QED
      BY <3>2, <3>3, <3>4
  <2>2. CASE ~(i < w.len)
    <3>1. c = w.data
      BY <2>2
    <3> HIDE DEF c
    <3> QED
      BY <2>2, <3>1, <1>3 DEF Slots
  <2> QED
    BY <2>1, <2>2
<1> HIDE DEF c
<1>6. /\ d \in [Slots(w.cap) -> Datum] /\ d[i] = x
      /\ \A j \in Slots(w.cap) : j # i => d[j] = c[j]
  BY <1>3, <1>4, <1>5, StoreIs
<1> HIDE DEF d
<1>7. VecSound(p) /\ p.len = v.len + 1 /\ p.data = d
  <2>1. Filled([w EXCEPT !.data = d, !.len = w.len + 1], w, d, w.len + 1)
    BY <1>3, <1>6, VecFilled
  <2> QED
    BY <1>2, <1>3, <2>1 DEF Filled
<1>8. s \in Seq(Datum) /\ Len(s) = v.len /\ \A j \in 1..v.len : s[j] = v.data[j - 1]
  BY VecItems
<1> HIDE DEF s
<1>9. /\ t \in Seq(Datum) /\ Len(t) = v.len + 1
      /\ \A j \in 1..v.len + 1 :
            t[j] = IF j <= i THEN s[j] ELSE IF j = i + 1 THEN x ELSE s[j - 1]
  BY <1>4, <1>8, WithItem
<1> HIDE DEF t
<1>10. ASSUME NEW j \in 1..p.len PROVE p.data[j - 1] = t[j]
  <2>0. j \in 1..v.len + 1 /\ j - 1 \in Slots(w.cap)
    BY <1>3, <1>7 DEF Slots
  <2>1. CASE j <= i
    <3>1. j - 1 < i /\ j - 1 \in 0..v.len - 1 /\ j \in 1..v.len /\ j - 1 # i
      BY <2>0, <2>1, <1>3
    <3>2. d[j - 1] = c[j - 1] /\ c[j - 1] = w.data[j - 1] /\ w.data[j - 1] = v.data[j - 1]
      BY <3>1, <2>0, <1>1, <1>5, <1>6 DEF Holds
    <3> QED
      BY <2>0, <2>1, <3>1, <3>2, <1>7, <1>8, <1>9
  <2>2. CASE j = i + 1
    BY <2>0, <2>2, <1>6, <1>7, <1>9
  <2>3. CASE i + 1 < j
    <3>1. i < j - 1 /\ j - 1 <= w.len /\ j - 1 # i /\ (j - 1) - 1 \in 0..v.len - 1
          /\ j - 1 \in 1..v.len /\ ~(j <= i) /\ j # i + 1
      BY <2>0, <2>3, <1>3
    <3>2. /\ d[j - 1] = c[j - 1] /\ c[j - 1] = w.data[(j - 1) - 1]
          /\ w.data[(j - 1) - 1] = v.data[(j - 1) - 1]
      BY <3>1, <2>0, <1>1, <1>5, <1>6 DEF Holds
    <3> QED
      BY <2>0, <3>1, <3>2, <1>7, <1>8, <1>9
  <2> QED
    BY <2>0, <2>1, <2>2, <2>3
<1>11. V!Items(p) = t
  BY <1>7, <1>9, <1>10, VecStandsFor
<1> QED
  BY <1>7, <1>11 DEF s, t, p

\* remove closes the gap.
LEMMA VecRemoved ==
    ASSUME NEW v, VecSound(v), NEW i \in 0..v.len - 1
    PROVE  /\ VecSound(V!Removed(v, i))
           /\ V!Items(V!Removed(v, i)) =
                 LET s == V!Items(v) IN SubSeq(s, 1, i) \o SubSeq(s, i + 2, Len(s))
<1> DEFINE c == IF i < v.len - 1 THEN Copied(v.data, i, v.data, i + 1, v.len - i - 1) ELSE v.data
           d == Dropped(c, v.len - 1)
           p == V!Removed(v, i)
           s == V!Items(v)
           t == SubSeq(s, 1, i) \o SubSeq(s, i + 2, Len(s))
<1>1. /\ v.len \in Nat /\ v.cap \in Nat /\ v.len \in 0..v.cap
      /\ v.data \in [Slots(v.cap) -> Datum]
  BY VecParts
<1>2. p = [v EXCEPT !.data = d, !.len = v.len - 1]
  BY VecBuffers DEF V!Removed
<1> HIDE DEF p
<1>3. v.len - 1 \in Nat /\ v.len - 1 \in 0..v.cap /\ i \in Nat
  BY <1>1
<1>5. /\ c \in [Slots(v.cap) -> Datum]
      /\ \A j \in Slots(v.cap) : /\ j < i => c[j] = v.data[j]
                                 /\ i <= j /\ j < v.len - 1 => c[j] = v.data[j + 1]
  <2>1. CASE i < v.len - 1
    <3> DEFINE k == v.len - i - 1
               from == i + 1
    <3>1. from \in Nat /\ i \in Nat /\ k \in Nat /\ from + k <= v.cap
      BY <2>1, <1>1, <1>3
    <3>a. /\ Copied(v.data, i, v.data, from, k) \in [Slots(v.cap) -> Datum]
          /\ \A j \in Slots(v.cap) : Copied(v.data, i, v.data, from, k)[j] =
                IF i <= j /\ j < i + k THEN v.data[from + j - i] ELSE v.data[j]
      <4> HIDE DEF k, from
      <4>1. IsCopy(Copied(v.data, i, v.data, from, k), v.cap, v.data, i, v.data, from, k)
        BY <3>1, <1>1, CopiedIs
      <4> QED
        BY <4>1 DEF IsCopy
    <3>2. /\ Copied(v.data, i, v.data, i + 1, v.len - i - 1) \in [Slots(v.cap) -> Datum]
          /\ \A j \in Slots(v.cap) : Copied(v.data, i, v.data, i + 1, v.len - i - 1)[j] =
                IF i <= j /\ j < i + (v.len - i - 1) THEN v.data[i + 1 + j - i]
                ELSE v.data[j]
      BY <3>a
    <3>3. c = Copied(v.data, i, v.data, i + 1, v.len - i - 1)
      BY <2>1
    <3> HIDE DEF c
    <3>4. ASSUME NEW j \in Slots(v.cap)
          PROVE  /\ j < i => c[j] = v.data[j]
                 /\ i <= j /\ j < v.len - 1 => c[j] = v.data[j + 1]
      <4>1. c[j] = IF i <= j /\ j < i + (v.len - i - 1) THEN v.data[i + 1 + j - i]
                   ELSE v.data[j]
        BY <3>2, <3>3
      <4>2. /\ i + (v.len - i - 1) = v.len - 1
            /\ i + 1 + j - i = j + 1
            /\ j < i => ~(i <= j)
        BY <1>1 DEF Slots
      <4> QED
        BY <4>1, <4>2
    <3> QED
      BY <3>2, <3>3, <3>4
  <2>2. CASE ~(i < v.len - 1)
    <3>1. c = v.data
      BY <2>2
    <3> HIDE DEF c
    <3> QED
      BY <2>2, <3>1, <1>1 DEF Slots
  <2> QED
    BY <2>1, <2>2
<1> HIDE DEF c
<1>6. /\ d \in [Slots(v.cap) -> Datum]
      /\ \A j \in Slots(v.cap) : j < v.len - 1 => d[j] = c[j]
  BY <1>1, <1>3, <1>5, DroppedIs
<1> HIDE DEF d
<1>7. VecSound(p) /\ p.len = v.len - 1 /\ p.data = d
  <2>1. Filled([v EXCEPT !.data = d, !.len = v.len - 1], v, d, v.len - 1)
    BY <1>3, <1>6, VecFilled
  <2> QED
    BY <1>2, <2>1 DEF Filled
<1>8. s \in Seq(Datum) /\ Len(s) = v.len /\ \A j \in 1..v.len : s[j] = v.data[j - 1]
  BY VecItems
<1> HIDE DEF s
<1>9. /\ t \in Seq(Datum) /\ Len(t) = v.len - 1
      /\ \A j \in 1..v.len - 1 : t[j] = IF j <= i THEN s[j] ELSE s[j + 1]
  <2>1. i \in 0..Len(s) - 1
    BY <1>8
  <2>2. /\ t \in Seq(Datum) /\ Len(t) = Len(s) - 1
        /\ \A j \in 1..Len(s) - 1 : t[j] = IF j <= i THEN s[j] ELSE s[j + 1]
    BY <2>1, <1>8, WithoutItem
  <2> QED
    BY <2>2, <1>8
<1> HIDE DEF t
<1>10. ASSUME NEW j \in 1..p.len PROVE p.data[j - 1] = t[j]
  <2>0. j \in 1..v.len - 1 /\ j - 1 \in Slots(v.cap) /\ j - 1 < v.len - 1
    BY <1>1, <1>7 DEF Slots
  <2>1. CASE j <= i
    <3>1. j - 1 < i /\ j \in 1..v.len
      BY <2>0, <2>1, <1>1
    <3> QED
      BY <2>0, <2>1, <3>1, <1>5, <1>6, <1>7, <1>8, <1>9
  <2>2. CASE ~(j <= i)
    <3>1. i <= j - 1 /\ (j - 1) + 1 = (j + 1) - 1 /\ j + 1 \in 1..v.len
      BY <2>0, <2>2, <1>1
    <3>2. d[j - 1] = v.data[(j + 1) - 1]
      BY <2>0, <3>1, <1>5, <1>6
    <3> QED
      BY <2>0, <2>2, <3>1, <3>2, <1>7, <1>8, <1>9
  <2> QED
    BY <2>1, <2>2
<1>11. V!Items(p) = t
  BY <1>7, <1>9, <1>10, VecStandsFor
<1> QED
  BY <1>7, <1>11 DEF s, t, p

\* The items of one vector behind those of another.
LEMMA VecAppended ==
    ASSUME NEW v, VecSound(v), NEW u, VecSound(u)
    PROVE  /\ VecSound(V!Appended(v, u))
           /\ V!Items(V!Appended(v, u)) = V!Items(v) \o V!Items(u)
<1> DEFINE n == v.len + u.len
           w == V!GrowToFit(v, n)
           d == Copied(w.data, w.len, u.data, 0, u.len)
           p == V!Appended(v, u)
           s == V!Items(v)
           t == V!Items(u)
<1>1. /\ v.len \in Nat /\ u.len \in Nat /\ n \in Nat /\ u.cap \in Nat /\ u.len \in 0..u.cap
      /\ u.data \in [Slots(u.cap) -> Datum]
  BY VecParts
<1>2. Holds(w, v, n)
  BY <1>1, VecFits
<1>3. p = [w EXCEPT !.data = d, !.len = w.len + u.len]
  BY VecBuffers DEF V!Appended
<1> HIDE DEF w, p
<1>4. /\ VecSound(w) /\ w.len = v.len /\ w.cap \in Nat /\ w.len + u.len \in 0..w.cap
      /\ w.data \in [Slots(w.cap) -> Datum] /\ w.len \in Nat /\ 0 + u.len <= u.cap
  BY <1>1, <1>2, VecParts DEF Holds
<1>5. /\ d \in [Slots(w.cap) -> Datum]
      /\ \A i \in Slots(w.cap) :
            d[i] = IF w.len <= i /\ i < w.len + u.len THEN u.data[0 + i - w.len] ELSE w.data[i]
  <2>1. IsCopy(d, w.cap, w.data, w.len, u.data, 0, u.len)
    BY <1>1, <1>4, CopiedIs
  <2> QED
    BY <2>1 DEF IsCopy
<1> HIDE DEF d
<1>6. VecSound(p) /\ p.len = n /\ p.data = d
  <2>1. Filled([w EXCEPT !.data = d, !.len = w.len + u.len], w, d, w.len + u.len)
    BY <1>4, <1>5, VecFilled
  <2> QED
    BY <1>3, <1>4, <2>1 DEF Filled
<1>7. /\ s \in Seq(Datum) /\ Len(s) = v.len /\ \A j \in 1..v.len : s[j] = v.data[j - 1]
      /\ t \in Seq(Datum) /\ Len(t) = u.len /\ \A j \in 1..u.len : t[j] = u.data[j - 1]
  BY VecItems
<1> HIDE DEF s, t
<1>8. /\ s \o t \in Seq(Datum) /\ Len(s \o t) = n
      /\ \A j \in 1..n : (s \o t)[j] = IF j <= v.len THEN s[j] ELSE t[j - v.len]
  <2>1. /\ s \o t \in Seq(Datum) /\ Len(s \o t) = Len(s) + Len(t)
        /\ \A j \in 1..Len(s) + Len(t) : (s \o t)[j] =
              IF j <= Len(s) THEN s[j] ELSE t[j - Len(s)]
    BY <1>7, ConcatProperties
  <2> QED
    BY <2>1, <1>7
<1>9. ASSUME NEW j \in 1..p.len PROVE p.data[j - 1] = (s \o t)[j]
  <2>0. j \in 1..n /\ j - 1 \in Slots(w.cap)
    BY <1>1, <1>4, <1>6 DEF Slots
  <2>1. CASE j <= v.len
    <3>1. ~(w.len <= j - 1) /\ j \in 1..v.len /\ j - 1 \in 0..v.len - 1
      BY <2>0, <2>1, <1>1, <1>4
    <3>2. d[j - 1] = w.data[j - 1] /\ w.data[j - 1] = v.data[j - 1]
      BY <3>1, <2>0, <1>2, <1>5 DEF Holds
    <3> QED
      BY <2>0, <2>1, <3>1, <3>2, <1>6, <1>7, <1>8
  <2>2. CASE ~(j <= v.len)
    <3>1. /\ w.len <= j - 1 /\ j - 1 < w.len + u.len /\ j - v.len \in 1..u.len
          /\ 0 + (j - 1) - w.len = (j - v.len) - 1
      BY <2>0, <2>2, <1>1, <1>4
    <3>2. d[j - 1] = u.data[(j - v.len) - 1]
      BY <3>1, <2>0, <1>5
    <3> QED
      BY <2>0, <2>2, <3>1, <3>2, <1>6, <1>7, <1>8
  <2> QED
    BY <2>1, <2>2
<1>10. V!Items(p) = s \o t
  BY <1>6, <1>8, <1>9, VecStandsFor
<1> QED
  BY <1>6, <1>10 DEF s, t, p

\* A vector without items stands for no sequence but the empty one.
LEMMA VecEmpty ==
    /\ \A n \in Nat : VecSound(V!WithCapacity(n)) /\ V!Items(V!WithCapacity(n)) = << >>
                      /\ V!WithCapacity(n).len = 0
    /\ VecSound(V!New) /\ V!Items(V!New) = << >> /\ V!New.len = 0
<1>1. ASSUME NEW n \in Nat
      PROVE  /\ VecSound(V!WithCapacity(n)) /\ V!Items(V!WithCapacity(n)) = << >>
             /\ V!WithCapacity(n).len = 0
  <2>1. V!WithCapacity(n) = [data |-> Alloc(n), len |-> 0, cap |-> n]
    BY VecBuffers DEF V!WithCapacity
  <2>2. Alloc(n) \in [Slots(n) -> Datum] /\ 0 \in 0..n
    BY AllocIs
  <2>3. VecSound(V!WithCapacity(n))
    BY <2>1, <2>2, VecOf
  <2> QED
    BY <2>1, <2>3, VecItems, ListedNone
<1>2. V!New = V!WithCapacity(0)
  BY DEF V!New, V!WithCapacity
<1> QED
  BY <1>1, <1>2

\* A copy of the items in another buffer with room for them.
LEMMA VecCopied ==
    ASSUME NEW v, VecSound(v), NEW n \in Nat, v.len <= n, NEW e \in [Slots(n) -> Datum]
    PROVE  LET w == [data |-> Copied(e, 0, v.data, 0, v.len), len |-> v.len, cap |-> n]
           IN  VecSound(w) /\ V!Items(w) = V!Items(v)
<1> DEFINE d == Copied(e, 0, v.data, 0, v.len)
           w == [data |-> d, len |-> v.len, cap |-> n]
<1>1. /\ v.len \in Nat /\ v.cap \in Nat /\ 0 + v.len <= v.cap /\ v.len \in 0..n
      /\ v.data \in [Slots(v.cap) -> Datum]
  BY VecParts
<1>2. IsCopy(d, n, e, 0, v.data, 0, v.len)
  BY <1>1, CopiedIs
<1> HIDE DEF d
<1>3. d \in [Slots(n) -> Datum] /\ \A i \in 0..v.len - 1 : d[i] = v.data[i]
  <2>1. ASSUME NEW i \in 0..v.len - 1 PROVE d[i] = v.data[i]
    <3>1. i \in Slots(n) /\ 0 <= i /\ i < 0 + v.len /\ 0 + i - 0 = i
      BY <1>1 DEF Slots
    <3> QED
      BY <3>1, <1>2 DEF IsCopy
  <2> QED
    BY <2>1, <1>2 DEF IsCopy
<1>4. VecSound(w)
  BY <1>1, <1>3, VecOf
<1>5. V!Items(w) = Listed(d, v.len)
  BY <1>4, VecItems
<1>6. Listed(d, v.len) = Listed(v.data, v.len)
  BY <1>1, <1>3, SameListed
<1> HIDE DEF w
<1> QED
  BY <1>4, <1>5, <1>6, VecItems DEF d, w

\* A clone has the same items.
LEMMA VecCloned ==
    ASSUME NEW v, VecSound(v)
    PROVE  VecSound(V!Cloned(v)) /\ V!Items(V!Cloned(v)) = V!Items(v)
<1>1. v.len \in Nat
  BY VecParts
<1>2. CASE v.len = 0
  <2>1. V!Items(v) = << >>
    BY <1>2, VecItems, ListedNone
  <2> QED
    BY <1>2, <2>1, VecEmpty DEF V!Cloned
<1>3. CASE v.len # 0
  <2>1. V!Cloned(v) = [data |-> Copied(Alloc(v.len), 0, v.data, 0, v.len), len |-> v.len,
                       cap |-> v.len]
    BY <1>3, VecBuffers DEF V!Cloned
  <2>2. Alloc(v.len) \in [Slots(v.len) -> Datum] /\ v.len <= v.len
    BY <1>1, AllocIs
  <2> QED
    BY <1>1, <2>1, <2>2, VecCopied
<1> QED
  BY <1>2, <1>3

\* collect finds the same items.
LEMMA VecCollected ==
    ASSUME NEW v, VecSound(v)
    PROVE  VecSound(V!Collected(v)) /\ V!Items(V!Collected(v)) = V!Items(v)
<1> DEFINE out == IF v.len > 0 THEN V!GrowToFit(V!New, v.len) ELSE V!New
           c == V!Collected(v)
<1>1. v.len \in Nat /\ V!New.cap \in Nat /\ VecSound(V!New)
  BY VecParts, VecEmpty
<1>2. VecSound(out) /\ v.len <= out.cap
  <2>1. CASE v.len > 0
    <3>1. Holds(out, V!New, v.len)
      BY <2>1, <1>1, VecFits
    <3> HIDE DEF out
    <3>2. out.cap \in Nat
      BY <3>1, VecParts DEF Holds
    <3> QED
      BY <3>1, <3>2, <1>1 DEF Holds
  <2>2. CASE ~(v.len > 0)
    <3>1. out = V!New /\ v.len = 0
      BY <2>2, <1>1
    <3> HIDE DEF out
    <3> QED
      BY <3>1, <1>1
  <2> QED
    BY <2>1, <2>2
<1>3. c = [out EXCEPT !.data = Copied(out.data, 0, v.data, 0, v.len), !.len = v.len]
  BY VecBuffers DEF V!Collected
<1> HIDE DEF out, c
<1>4. out \in VecRecord /\ out.cap \in Nat /\ out.data \in [Slots(out.cap) -> Datum]
  BY <1>2, VecParts
<1>5. c = [data |-> Copied(out.data, 0, v.data, 0, v.len), len |-> v.len, cap |-> out.cap]
  BY <1>3, <1>4 DEF VecRecord
<1>6. VecSound(c) /\ V!Items(c) = V!Items(v)
  BY <1>2, <1>4, <1>5, VecCopied
<1> QED
  BY <1>6 DEF c

\* Taking items from the end leaves those in front.
LEMMA VecCut ==
    ASSUME NEW v, VecSound(v), NEW n \in 0..v.len
    PROVE  LET w == [v EXCEPT !.data = V!Dropped(@, n), !.len = n]
           IN  VecSound(w) /\ V!Items(w) = SubSeq(V!Items(v), 1, n)
<1> DEFINE w == [v EXCEPT !.data = V!Dropped(@, n), !.len = n]
           d == Dropped(v.data, n)
<1>1. /\ v.len \in Nat /\ v.cap \in Nat /\ v.len \in 0..v.cap /\ n \in Nat /\ n \in 0..v.cap
      /\ v.data \in [Slots(v.cap) -> Datum]
  BY VecParts
<1>2. w = [v EXCEPT !.data = d, !.len = n]
  BY VecBuffers
<1>3. d \in [Slots(v.cap) -> Datum] /\ \A j \in Slots(v.cap) : j < n => d[j] = v.data[j]
  BY <1>1, DroppedIs
<1> HIDE DEF w, d
<1>4. VecSound(w) /\ w.len = n /\ w.data = d
  <2>1. Filled([v EXCEPT !.data = d, !.len = n], v, d, n)
    BY <1>1, <1>3, VecFilled
  <2> QED
    BY <1>2, <2>1 DEF Filled
<1>5. Listed(d, n) = Listed(v.data, n)
  <2>1. \A j \in 0..n - 1 : d[j] = v.data[j]
    BY <1>1, <1>3 DEF Slots
  <2> QED
    BY <1>1, <2>1, SameListed
<1>6. SubSeq(Listed(v.data, v.len), 1, n) = Listed(v.data, n)
  BY <1>1, ListedFront
<1>7. V!Items(w) = Listed(d, n) /\ V!Items(v) = Listed(v.data, v.len)
  BY <1>4, VecItems
<1> QED
  BY <1>4, <1>5, <1>6, <1>7 DEF w

\* An item is replaced.
LEMMA VecPut ==
    ASSUME NEW v, VecSound(v), NEW i \in 0..v.len - 1, NEW x \in Val
    PROVE  LET w == [v EXCEPT !.data = V!Store(@, i, x)]
           IN  VecSound(w) /\ V!Items(w) = [V!Items(v) EXCEPT ![i + 1] = x]
<1> DEFINE w == [v EXCEPT !.data = V!Store(@, i, x)]
           d == Store(v.data, i, x)
           s == V!Items(v)
           t == [s EXCEPT ![i + 1] = x]
<1>1. /\ v \in VecRecord /\ v.len \in Nat /\ v.cap \in Nat /\ v.len \in 0..v.cap
      /\ i \in Slots(v.cap) /\ v.data \in [Slots(v.cap) -> Datum] /\ x \in Datum
  BY VecParts DEF Slots, Datum
<1>2. w = [v EXCEPT !.data = d]
  BY VecBuffers
<1>3. /\ d \in [Slots(v.cap) -> Datum] /\ d[i] = x
      /\ \A j \in Slots(v.cap) : j # i => d[j] = v.data[j]
  <2>1. v.cap \in Nat /\ v.data \in [Slots(v.cap) -> Datum] /\ i \in Slots(v.cap) /\ x \in Datum
    BY <1>1
  <2> QED
    BY <2>1 DEF Store
<1> HIDE DEF w, d
<1>4. w = [data |-> d, len |-> v.len, cap |-> v.cap]
  BY <1>1, <1>2 DEF VecRecord
<1>5. VecSound(w) /\ w.len = v.len /\ w.data = d
  BY <1>1, <1>3, <1>4, VecOf
<1>6. s \in Seq(Datum) /\ Len(s) = v.len /\ \A j \in 1..v.len : s[j] = v.data[j - 1]
  BY VecItems
<1> HIDE DEF s
<1>7. /\ t \in Seq(Datum) /\ Len(t) = v.len
      /\ \A j \in 1..v.len : t[j] = IF j = i + 1 THEN x ELSE s[j]
  BY <1>1, <1>6
<1> HIDE DEF t
<1>8. ASSUME NEW j \in 1..w.len PROVE w.data[j - 1] = t[j]
  <2>1. j \in 1..v.len /\ j - 1 \in Slots(v.cap) /\ (j = i + 1 <=> j - 1 = i)
    BY <1>1, <1>5 DEF Slots
  <2> QED
    BY <2>1, <1>3, <1>5, <1>6, <1>7
<1>9. V!Items(w) = t
  BY <1>5, <1>7, <1>8, VecStandsFor
<1> QED
  BY <1>5, <1>9 DEF w, t, s

\* The items in the opposite order.
LEMMA VecReversed ==
    ASSUME NEW v, VecSound(v)
    PROVE  LET w == [v EXCEPT !.data = [i \in DOMAIN @ |-> IF i < v.len
                                                           THEN V!Load(@, v.len - 1 - i)
                                                           ELSE @[i]]]
               s == V!Items(v)
           IN  VecSound(w) /\ V!Items(w) = [i \in 1..Len(s) |-> s[Len(s) + 1 - i]]
<1> DEFINE d == [i \in Slots(v.cap) |-> IF i < v.len THEN v.data[v.len - 1 - i] ELSE v.data[i]]
           w == [v EXCEPT !.data = [i \in DOMAIN @ |-> IF i < v.len
                                                       THEN V!Load(@, v.len - 1 - i)
                                                       ELSE @[i]]]
           s == V!Items(v)
           t == [i \in 1..Len(s) |-> s[Len(s) + 1 - i]]
<1>1. /\ v \in VecRecord /\ v.len \in Nat /\ v.cap \in Nat /\ v.len \in 0..v.cap
      /\ v.data \in [Slots(v.cap) -> Datum]
  BY VecParts
<1>2. \A i \in Slots(v.cap) : i < v.len => /\ v.len - 1 - i \in Slots(v.cap)
                                           /\ V!Load(v.data, v.len - 1 - i) = v.data[v.len - 1 - i]
  <2>1. \A i \in Slots(v.cap) : i < v.len => v.len - 1 - i \in Slots(v.cap)
    BY <1>1 DEF Slots
  <2>2. \A i \in Slots(v.cap) : V!Load(v.data, i) = v.data[i]
    BY <1>1, VecBuffers DEF Load
  <2> QED
    BY <2>1, <2>2
<1>3. w = [v EXCEPT !.data = d]
  <2>1. DOMAIN v.data = Slots(v.cap)
    BY <1>1
  <2> QED
    BY <2>1, <1>2
<1>4. d \in [Slots(v.cap) -> Datum]
  BY <1>1, <1>2
<1> HIDE DEF w
<1>5. w = [data |-> d, len |-> v.len, cap |-> v.cap]
  <2> HIDE DEF d
  <2> QED
    BY <1>1, <1>3 DEF VecRecord
<1>6. VecSound(w) /\ w.len = v.len /\ w.data = d
  <2> HIDE DEF d
  <2> QED
    BY <1>1, <1>4, <1>5, VecOf
<1>7. s \in Seq(Datum) /\ Len(s) = v.len /\ \A j \in 1..v.len : s[j] = v.data[j - 1]
  BY VecItems
<1> HIDE DEF s
<1>8. /\ t \in Seq(Datum) /\ Len(t) = v.len
      /\ \A j \in 1..v.len : t[j] = s[v.len + 1 - j]
  <2>1. \A j \in 1..v.len : v.len + 1 - j \in 1..v.len /\ s[v.len + 1 - j] \in Datum
    BY <1>1, <1>7
  <2>2. t = [i \in 1..v.len |-> s[v.len + 1 - i]]
    BY <1>7
  <2> HIDE DEF t
  <2>3. t \in [1..v.len -> Datum]
    BY <2>1, <2>2
  <2>4. t \in Seq(Datum) /\ Len(t) = v.len
    BY <1>1, <2>3
  <2> QED
    BY <2>2, <2>4
<1> HIDE DEF t
<1>9. ASSUME NEW j \in 1..w.len PROVE w.data[j - 1] = t[j]
  <2>1. /\ j \in 1..v.len /\ j - 1 \in Slots(v.cap) /\ j - 1 < v.len
        /\ v.len - 1 - (j - 1) = (v.len + 1 - j) - 1 /\ v.len + 1 - j \in 1..v.len
    BY <1>1, <1>6 DEF Slots
  <2>2. d[j - 1] = v.data[(v.len + 1 - j) - 1]
    BY <2>1
  <2> QED
    BY <2>1, <2>2, <1>6, <1>7, <1>8
<1>10. V!Items(w) = t
  BY <1>6, <1>8, <1>9, VecStandsFor
<1> QED
  BY <1>6, <1>10 DEF w, t, s

\* n copies of a sequence, one behind the other.
Repeats(s, n) == [i \in 1..n * Len(s) |-> s[((i - 1) % Len(s)) + 1]]

\* The remainder of a number written with its quotient.
LEMMA ModOf ==
    ASSUME NEW l \in Nat \ {0}, NEW q \in Nat, NEW r \in 0..l - 1
    PROVE  (q * l + r) % l = r
OBVIOUS

\* A remainder is smaller than the divisor.
LEMMA ModIn == ASSUME NEW l \in Nat \ {0}, NEW a \in Nat  PROVE a % l \in 0..l - 1
OBVIOUS

\* The products that repeating a vector needs.
LEMMA Multiples ==
    ASSUME NEW l \in Nat, NEW n \in Nat
    PROVE  n * l \in Nat /\ (n + 1) * l = n * l + l /\ n * l = l * n /\ 0 * l = 0
           /\ (l = 0 => n * l = 0)
OBVIOUS

\* The copies are a sequence whose items follow from a remainder.
LEMMA RepeatsAre ==
    ASSUME NEW s \in Seq(Datum), NEW n \in Nat
    PROVE  /\ Repeats(s, n) \in Seq(Datum) /\ Len(Repeats(s, n)) = n * Len(s)
           /\ \A i \in 1..n * Len(s) : /\ (i - 1) % Len(s) \in 0..Len(s) - 1
                                       /\ Repeats(s, n)[i] = s[((i - 1) % Len(s)) + 1]
<1> DEFINE l == Len(s)
           m == n * l
<1>1. l \in Nat /\ \A j \in 1..l : s[j] \in Datum
  OBVIOUS
<1>2. m \in Nat /\ (l = 0 => m = 0)
  BY <1>1, Multiples
<1>3. Repeats(s, n) = [i \in 1..m |-> s[((i - 1) % l) + 1]]
  BY DEF Repeats
<1> HIDE DEF l, m
<1>4. ASSUME NEW i \in 1..m
      PROVE  (i - 1) % l \in 0..l - 1 /\ s[((i - 1) % l) + 1] \in Datum
  <2>1. l \in Nat \ {0} /\ i - 1 \in Nat
    BY <1>1, <1>2
  <2>2. (i - 1) % l \in 0..l - 1
    BY <2>1, ModIn
  <2> DEFINE r == (i - 1) % l
  <2>3. r \in 0..l - 1 => r + 1 \in 1..l
    BY <2>1
  <2> QED
    BY <2>2, <2>3, <1>1
<1>5. Repeats(s, n) \in [1..m -> Datum]
  BY <1>3, <1>4
<1>6. Repeats(s, n) \in Seq(Datum) /\ Len(Repeats(s, n)) = m
  BY <1>2, <1>5
<1> QED
  BY <1>3, <1>4, <1>6 DEF l, m

\* One copy more.
LEMMA OneMore ==
    ASSUME NEW s \in Seq(Datum), NEW n \in Nat
    PROVE  Repeats(s, n) \o s = Repeats(s, n + 1)
<1> DEFINE l == Len(s)
           m == n * l
           p == (n + 1) * l
           a == Repeats(s, n)
           b == Repeats(s, n + 1)
<1>1. l \in Nat /\ m \in Nat /\ p = m + l /\ n + 1 \in Nat
  BY Multiples
<1>2. /\ a \in Seq(Datum) /\ Len(a) = m
      /\ \A i \in 1..m : a[i] = s[((i - 1) % l) + 1]
  BY RepeatsAre
<1>3. /\ b \in Seq(Datum) /\ Len(b) = p
      /\ \A i \in 1..p : b[i] = s[((i - 1) % l) + 1]
  BY <1>1, RepeatsAre
<1>m. m = n * l
  OBVIOUS
<1>l. Len(s) = l
  OBVIOUS
<1> HIDE DEF l, m, p, a, b
<1>4. /\ a \o s \in Seq(Datum) /\ Len(a \o s) = m + l
      /\ \A i \in 1..m + l : (a \o s)[i] = IF i <= m THEN a[i] ELSE s[i - m]
  <2>1. /\ a \o s \in Seq(Datum) /\ Len(a \o s) = Len(a) + Len(s)
        /\ \A i \in 1..Len(a) + Len(s) : (a \o s)[i] = IF i <= Len(a) THEN a[i] ELSE s[i - Len(a)]
    BY <1>2, ConcatProperties
  <2> QED
    BY <2>1, <1>2, <1>l
<1>5. ASSUME NEW i \in 1..m + l PROVE (a \o s)[i] = b[i]
  <2>1. CASE i <= m
    <3>1. i \in 1..m /\ i \in 1..p
      BY <2>1, <1>1
    <3> QED
      BY <2>1, <3>1, <1>2, <1>3, <1>4
  <2>2. CASE ~(i <= m)
    <3> DEFINE r == i - 1 - m
    <3>1. l \in Nat \ {0} /\ r \in 0..l - 1 /\ i - 1 = m + r /\ i - m = r + 1 /\ i \in 1..p
      BY <2>2, <1>1
    <3> HIDE DEF r
    <3>2. (n * l + r) % l = r
      BY <3>1, ModOf
    <3>3. (i - 1) % l = r
      BY <3>1, <3>2, <1>m
    <3>4. b[i] = s[r + 1]
      BY <3>1, <3>3, <1>3
    <3> QED
      BY <2>2, <3>1, <3>4, <1>4
  <2> QED
    BY <2>1, <2>2
<1>6. a \o s = b
  BY <1>1, <1>3, <1>4, <1>5, SeqEqual
<1> QED
  BY <1>6 DEF a, b

\* A sequence repeated no times.
LEMMA NoTimes == ASSUME NEW s \in Seq(Datum)  PROVE Repeats(s, 0) = << >>
<1>1. Repeats(s, 0) \in Seq(Datum) /\ Len(Repeats(s, 0)) = 0 * Len(s)
  BY RepeatsAre
<1>2. 0 * Len(s) = 0
  BY Multiples
<1> QED
  BY <1>1, <1>2, EmptySeq

\* v * n appends a clone of v n times.
LEMMA VecRepeated ==
    ASSUME NEW v, VecSound(v), NEW n \in Nat
    PROVE  VecSound(V!Repeated(v, n)) /\ V!Items(V!Repeated(v, n)) = Repeats(V!Items(v), n)
<1> DEFINE D == {w \in VecRecord : VecSound(w)}
           first == V!WithCapacity(v.len * n)
           G == [w \in D |-> V!Appended(w, V!Cloned(v))]
           IsResult(f) == f = [k \in 0..n |-> IF k = 0 THEN V!WithCapacity(v.len * n)
                                              ELSE V!Appended(f[k - 1], V!Cloned(v))]
           g == CHOOSE f : IsResult(f)
           s == V!Items(v)
<1>0. v.len \in Nat /\ s \in Seq(Datum) /\ v.len * n \in Nat
  BY VecParts, VecItems, Multiples
<1>1. first \in D /\ V!Items(first) = << >>
  <2>1. VecSound(first) /\ V!Items(first) = << >>
    BY <1>0, VecEmpty
  <2> QED
    BY <2>1, VecParts
<1>2. VecSound(V!Cloned(v)) /\ V!Items(V!Cloned(v)) = s
  BY VecCloned
<1> HIDE DEF s
<1>3. ASSUME NEW w, VecSound(w)
      PROVE  /\ V!Appended(w, V!Cloned(v)) \in D
             /\ V!Items(V!Appended(w, V!Cloned(v))) = V!Items(w) \o s
  <2>1. /\ VecSound(V!Appended(w, V!Cloned(v)))
        /\ V!Items(V!Appended(w, V!Cloned(v))) = V!Items(w) \o V!Items(V!Cloned(v))
    BY <1>2, <1>3, VecAppended
  <2> QED
    BY <2>1, <1>2, VecParts
<1>4. G \in [D -> D]
  BY <1>3
<1>5. PICK e \in [0..n -> D] : Loop(e, first, G, n)
  <2> HIDE DEF first, G, D
  <2> QED
    BY <1>1, <1>4, LoopRuns
<1>6. IsResult(e)
  <2>1. ASSUME NEW k \in 0..n
        PROVE  e[k] = IF k = 0 THEN V!WithCapacity(v.len * n)
                      ELSE V!Appended(e[k - 1], V!Cloned(v))
    <3>1. e[k] = IF k = 0 THEN first ELSE G[e[k - 1]]
      <4> HIDE DEF first, G, D
      <4> QED
        BY <1>5 DEF Loop
    <3>2. k # 0 => e[k - 1] \in D
      OBVIOUS
    <3> QED
      BY <3>1, <3>2
  <2> QED
    BY <2>1
<1>7. IsResult(g)
  BY <1>6
<1>8. V!Repeated(v, n) = g[n]
  BY DEF V!Repeated
<1> HIDE DEF g
<1>9. /\ g[0] = first
      /\ \A k \in 0..n : k # 0 => g[k] = V!Appended(g[k - 1], V!Cloned(v))
  BY <1>7
<1> DEFINE U == {k \in Nat : k <= n => VecSound(g[k]) /\ V!Items(g[k]) = Repeats(s, k)}
<1>10. 0 \in U
  BY <1>0, <1>1, <1>9, NoTimes
<1> HIDE DEF first, D
<1>11. ASSUME NEW k \in Nat, k \in U PROVE k + 1 \in U
  <2> SUFFICES ASSUME k + 1 <= n
               PROVE  VecSound(g[k + 1]) /\ V!Items(g[k + 1]) = Repeats(s, k + 1)
    BY DEF U
  <2>1. k + 1 \in 0..n /\ k + 1 # 0 /\ (k + 1) - 1 = k /\ k <= n
    OBVIOUS
  <2>2. g[k + 1] = V!Appended(g[k], V!Cloned(v))
    BY <1>9, <2>1
  <2>3. VecSound(g[k]) /\ V!Items(g[k]) = Repeats(s, k)
    BY <1>11, <2>1
  <2>4. VecSound(g[k + 1]) /\ V!Items(g[k + 1]) = V!Items(g[k]) \o s
    BY <2>2, <2>3, <1>3 DEF D
  <2>5. Repeats(s, k) \o s = Repeats(s, k + 1)
    BY <1>0, OneMore
  <2> QED
    BY <2>3, <2>4, <2>5
<1> HIDE DEF U
<1>12. n \in U
  BY <1>10, <1>11, SetInduction
<1> QED
  BY <1>8, <1>12 DEF U, s

\* v *= n copies its items behind each other.
LEMMA VecRepeatedInPlace ==
    ASSUME NEW v, VecSound(v), NEW n \in Nat
    PROVE  /\ VecSound(V!RepeatedInPlace(v, n))
           /\ V!Items(V!RepeatedInPlace(v, n)) = Repeats(V!Items(v), n)
<1> DEFINE p == V!RepeatedInPlace(v, n)
           s == V!Items(v)
           m == v.len * n
<1>0. /\ v.len \in Nat /\ s \in Seq(Datum) /\ Len(s) = v.len /\ m \in Nat /\ m = n * v.len
      /\ \A j \in 1..v.len : s[j] = v.data[j - 1]
  BY VecParts, VecItems, Multiples
<1>1. CASE n = 0
  <2>1. p = [v EXCEPT !.data = V!Dropped(@, 0), !.len = 0]
    BY <1>1 DEF V!RepeatedInPlace
  <2>2. 0 \in 0..v.len
    BY <1>0
  <2>3. VecSound(p) /\ V!Items(p) = SubSeq(s, 1, 0)
    BY <2>1, <2>2, VecCut
  <2>4. SubSeq(s, 1, 0) = << >>
    BY <1>0
  <2> QED
    BY <1>0, <1>1, <2>3, <2>4, NoTimes
<1>2. CASE n # 0
  <2> DEFINE w == V!GrowToFit(v, m)
             d == [i \in DOMAIN w.data |->
                     IF i < m THEN V!Load(w.data, i % v.len) ELSE w.data[i]]
             t == Repeats(s, n)
  <2>1. Holds(w, v, m)
    BY <1>0, VecFits
  <2>2. p = [w EXCEPT !.data = d, !.len = m]
    BY <1>2 DEF V!RepeatedInPlace
  <2>d. d = [i \in DOMAIN w.data |-> IF i < m THEN V!Load(w.data, i % v.len) ELSE w.data[i]]
    OBVIOUS
  <2> HIDE DEF w, p, d
  <2>3. /\ VecSound(w) /\ w.len = v.len /\ w.cap \in Nat /\ m \in 0..w.cap /\ v.len <= w.cap
        /\ w.data \in [Slots(w.cap) -> Datum]
    BY <1>0, <2>1, VecParts DEF Holds
  <2>t. /\ t \in Seq(Datum) /\ Len(t) = n * Len(s)
        /\ \A i \in 1..n * Len(s) : /\ (i - 1) % Len(s) \in 0..Len(s) - 1
                                    /\ t[i] = s[((i - 1) % Len(s)) + 1]
    <3> HIDE DEF s, m
    <3> QED
      BY <1>0, RepeatsAre
  <2>4. /\ t \in Seq(Datum) /\ Len(t) = m
        /\ \A i \in 1..m : /\ (i - 1) % v.len \in 0..v.len - 1
                           /\ t[i] = s[((i - 1) % v.len) + 1]
    <3>1. Len(s) = v.len /\ n * Len(s) = m
      BY <1>0
    <3> HIDE DEF s, m, t
    <3> QED
      BY <2>t, <3>1
  <2> HIDE DEF t, s, m
  <2>5. ASSUME NEW i \in Slots(w.cap), i < m
        PROVE  i % v.len \in 0..v.len - 1
    <3>1. i + 1 \in 1..m /\ (i + 1) - 1 = i
      BY <1>0, <2>3, <2>5 DEF Slots
    <3> QED
      BY <3>1, <2>4
  <2>6. ASSUME NEW i \in Slots(w.cap), i < m
        PROVE  V!Load(w.data, i % v.len) = v.data[i % v.len] /\ v.data[i % v.len] \in Datum
    <3> DEFINE r == i % v.len
    <3>1. r \in 0..v.len - 1
      BY <2>5, <2>6
    <3> HIDE DEF r
    <3>2. r \in Slots(w.cap) /\ w.data[r] = v.data[r]
      BY <1>0, <2>1, <2>3, <3>1 DEF Slots, Holds
    <3>3. V!Load(w.data, r) = w.data[r] /\ w.data[r] \in Datum
      BY <2>3, <3>2, VecBuffers DEF Load
    <3> QED
      BY <3>2, <3>3 DEF r
  <2>7. /\ d \in [Slots(w.cap) -> Datum]
        /\ \A i \in Slots(w.cap) : i < m => d[i] = v.data[i % v.len]
    <3>1. DOMAIN w.data = Slots(w.cap)
      BY <2>3
    <3>2. d = [i \in Slots(w.cap) |-> IF i < m THEN v.data[i % v.len] ELSE w.data[i]]
      BY <2>d, <2>6, <3>1
    <3> QED
      BY <2>3, <2>6, <3>2
  <2>8. VecSound(p) /\ p.len = m /\ p.data = d
    <3>1. Filled([w EXCEPT !.data = d, !.len = m], w, d, m)
      BY <2>3, <2>7, VecFilled
    <3> QED
      BY <2>2, <3>1 DEF Filled
  <2>9. ASSUME NEW i \in 1..p.len PROVE p.data[i - 1] = t[i]
    <3>1. i \in 1..m /\ i - 1 \in Slots(w.cap) /\ i - 1 < m
      BY <1>0, <2>3, <2>8 DEF Slots
    <3> DEFINE r == (i - 1) % v.len
    <3>2. d[i - 1] = v.data[r] /\ r \in 0..v.len - 1 /\ t[i] = s[r + 1]
      BY <3>1, <2>4, <2>7
    <3> HIDE DEF r
    <3>3. r + 1 \in 1..v.len /\ (r + 1) - 1 = r
      BY <1>0, <3>2
    <3> QED
      BY <3>2, <3>3, <1>0, <2>8
  <2>10. V!Items(p) = t
    BY <2>4, <2>8, <2>9, VecStandsFor
  <2> QED
    BY <2>8, <2>10 DEF p, t, s
<1> QED
  BY <1>1, <1>2

\* What the mapping makes of a vector's new state.
LEMMA VecSet ==
    ASSUME Vecs, NEW h \in Handle, NEW v, NEW r, VecSound(v), V!Set(h, v, r)
    PROVE  /\ Vecs'
           /\ [g \in Handle |-> V!Items(vec[g])]' =
                 [[g \in Handle |-> V!Items(vec[g])] EXCEPT ![h] = V!Items(v)]
           /\ got' = r
<1>1. vec' = [vec EXCEPT ![h] = v] /\ got' = r /\ vec \in [Handle -> VecRecord]
  BY DEF V!Set, Vecs
<1>2. v \in VecRecord
  BY DEF VecSound
<1>3. vec' \in [Handle -> VecRecord] /\ \A g \in Handle : vec'[g] = IF g = h THEN v ELSE vec[g]
  BY <1>1, <1>2
<1>4. Vecs'
  BY <1>3 DEF Vecs
<1>5. \A g \in Handle : V!Items(vec'[g]) = IF g = h THEN V!Items(v) ELSE V!Items(vec[g])
  BY <1>3
<1> QED
  BY <1>1, <1>4, <1>5

\* A call that sets the items of h to s and returns r.
VecBecomes(h, s, r) ==
    /\ Vecs'
    /\ [g \in Handle |-> V!Items(vec[g])]' = [[g \in Handle |-> V!Items(vec[g])] EXCEPT ![h] = s]
    /\ got' = r

\* What a call that sets a vector does to its sequence.
LEMMA VecBecame ==
    ASSUME Vecs, NEW h \in Handle, NEW v, NEW r, NEW s, VecSound(v), V!Items(v) = s, V!Set(h, v, r)
    PROVE  VecBecomes(h, s, r)
BY VecSet DEF VecBecomes

\* What a load within the items of a vector finds.
LEMMA VecLoads ==
    ASSUME NEW v, VecSound(v), NEW i \in 0..v.len - 1
    PROVE  V!Load(v.data, i) = V!Items(v)[i + 1]
<1>1. v.len \in Nat
  BY VecParts
<1>2. V!Items(v) = [j \in 1..v.len |-> V!Load(v.data, j - 1)]
  BY DEF V!Items
<1>3. i + 1 \in 1..v.len /\ (i + 1) - 1 = i
  BY <1>1
<1> QED
  BY <1>2, <1>3

\* What vectors' sequences are.
LEMMA VecLists ==
    ASSUME Vecs, NEW h \in Handle
    PROVE  /\ VecSound(vec[h]) /\ vec[h].len \in Nat
           /\ V!Items(vec[h]) \in Seq(Datum) /\ Len(V!Items(vec[h])) = vec[h].len
BY VecParts, VecItems DEF Vecs

\* The calls that take an item from a vector.
LEMMA VecTakes ==
    ASSUME Vecs, NEW h \in Handle, ~UNCHANGED <<vec, got>>,
           \/ V!Pop(h) \/ V!PopOpt(h)
           \/ \E i \in 0..vec[h].len + 1 : V!Remove(h, i) \/ V!Get(h, i)
    PROVE  Vecs' /\ V!List!Next
<1> DEFINE list == [g \in Handle |-> V!Items(vec[g])]
           s == V!Items(vec[h])
           n == vec[h].len - 1
           w == [vec[h] EXCEPT !.data = V!Dropped(@, n), !.len = n]
<1>0. /\ VecSound(vec[h]) /\ vec[h].len \in Nat /\ s \in Seq(Datum) /\ Len(s) = vec[h].len
      /\ list[h] = s
  BY VecLists
<1>1. ASSUME vec[h].len > 0, V!Set(h, w, V!Load(vec[h].data, n))
      PROVE  Vecs' /\ V!List!Next
  <2>1. n \in 0..vec[h].len - 1 /\ n \in 0..vec[h].len /\ n + 1 = vec[h].len
    BY <1>0, <1>1
  <2>2. VecSound(w) /\ V!Items(w) = SubSeq(s, 1, n)
    BY <2>1, <1>0, VecCut
  <2>3. V!Load(vec[h].data, n) = s[n + 1]
    BY <2>1, <1>0, VecLoads
  <2>4. V!Set(h, w, V!Load(vec[h].data, n))
    BY <1>1
  <2> HIDE DEF w
  <2>5. VecBecomes(h, SubSeq(s, 1, n), s[n + 1])
    BY <2>2, <2>3, <2>4, VecBecame
  <2>6. n = Len(s) - 1 /\ n + 1 = Len(s) /\ s # << >>
    BY <2>1, <1>0
  <2> HIDE DEF s, n
  <2>7. V!List!PopBack(h)
    BY <2>5, <2>6, <1>0 DEF V!List!PopBack, V!List!Has, V!List!Becomes, VecBecomes
  <2> QED
    BY <2>5, <2>7 DEF V!List!Next, VecBecomes
<1>2. CASE V!Pop(h)
  BY <1>1, <1>2 DEF V!Pop, V!Panic
<1>3. CASE V!PopOpt(h)
  <2>1. CASE vec[h].len = 0
    <3>1. s = << >>
      BY <2>1, <1>0, EmptySeq
    <3>2. VecBecomes(h, << >>, Nothing)
      BY <1>3, <2>1, <3>1, <1>0, VecBecame DEF V!PopOpt
    <3>3. V!List!PopBack(h)
      BY <3>1, <3>2, <1>0 DEF V!List!PopBack, V!List!Has, V!List!Becomes, VecBecomes
    <3> QED
      BY <3>2, <3>3 DEF V!List!Next, VecBecomes
  <2>2. CASE vec[h].len # 0
    BY <1>1, <1>3, <2>2 DEF V!PopOpt, V!Pop, V!Panic
  <2> QED
    BY <2>1, <2>2
<1>4. CASE \E i \in 0..vec[h].len + 1 : V!Remove(h, i)
  <2> PICK i \in 0..vec[h].len + 1 : V!Remove(h, i)
    BY <1>4
  <2>1. i < vec[h].len /\ V!Set(h, V!Removed(vec[h], i), V!Load(vec[h].data, i))
    BY DEF V!Remove, V!Panic
  <2>2. i \in 0..vec[h].len - 1 /\ i \in 0..Len(s) /\ i < Len(s)
    BY <2>1, <1>0
  <2>3. /\ VecSound(V!Removed(vec[h], i))
        /\ V!Items(V!Removed(vec[h], i)) = SubSeq(s, 1, i) \o SubSeq(s, i + 2, Len(s))
    BY <2>2, <1>0, VecRemoved
  <2>4. V!Load(vec[h].data, i) = s[i + 1]
    BY <2>2, <1>0, VecLoads
  <2>5. VecBecomes(h, SubSeq(s, 1, i) \o SubSeq(s, i + 2, Len(s)), s[i + 1])
    BY <2>1, <2>3, <2>4, VecBecame
  <2> HIDE DEF s
  <2>6. V!List!Remove(h, i)
    BY <2>2, <2>5, <1>0 DEF V!List!Remove, V!List!Has, V!List!Becomes, VecBecomes
  <2>7. i \in 0..Len(list[h])
    BY <2>2, <1>0
  <2> QED
    BY <2>5, <2>6, <2>7 DEF V!List!Next, VecBecomes
<1>5. CASE \E i \in 0..vec[h].len + 1 : V!Get(h, i)
  <2> PICK i \in 0..vec[h].len + 1 : V!Get(h, i)
    BY <1>5
  <2>1. i < vec[h].len /\ V!Set(h, vec[h], V!Load(vec[h].data, i))
    BY DEF V!Get, V!Panic
  <2>2. i \in 0..vec[h].len - 1 /\ i \in 0..Len(s) /\ i < Len(s)
    BY <2>1, <1>0
  <2>4. V!Load(vec[h].data, i) = s[i + 1]
    BY <2>2, <1>0, VecLoads
  <2>5. VecBecomes(h, s, s[i + 1])
    BY <2>1, <2>4, <1>0, VecBecame
  <2> HIDE DEF s
  <2>6. V!List!Get(h, i)
    BY <2>2, <2>5, <1>0 DEF V!List!Get, V!List!Has, V!List!Becomes, VecBecomes
  <2>7. i \in 0..Len(list[h])
    BY <2>2, <1>0
  <2> QED
    BY <2>5, <2>6, <2>7 DEF V!List!Next, VecBecomes
<1> QED
  BY <1>2, <1>3, <1>4, <1>5

\* The calls that put items into a vector or move them about in it.
LEMMA VecPuts ==
    ASSUME Vecs, NEW h \in Handle, ~UNCHANGED <<vec, got>>,
           \/ V!Reverse(h)
           \/ \E x \in Val : V!Push(h, x)
           \/ \E i \in 0..vec[h].len + 1, x \in Val : V!Insert(h, i, x) \/ V!Put(h, i, x)
    PROVE  Vecs' /\ V!List!Next
<1> DEFINE list == [g \in Handle |-> V!Items(vec[g])]
           s == V!Items(vec[h])
<1>0. /\ VecSound(vec[h]) /\ vec[h].len \in Nat /\ s \in Seq(Datum) /\ Len(s) = vec[h].len
      /\ list[h] = s
  BY VecLists
<1>1. CASE V!Reverse(h)
  <2> DEFINE w == [vec[h] EXCEPT !.data = [i \in DOMAIN @ |-> IF i < vec[h].len
                                                            THEN V!Load(@, vec[h].len - 1 - i)
                                                            ELSE @[i]]]
             t == [i \in 1..Len(s) |-> s[Len(s) + 1 - i]]
  <2>1. VecSound(w) /\ V!Items(w) = t
    BY <1>0, VecReversed
  <2>2. V!Set(h, w, Nothing)
    BY <1>1 DEF V!Reverse
  <2> HIDE DEF w
  <2>3. VecBecomes(h, t, Nothing)
    BY <2>1, <2>2, VecBecame
  <2> HIDE DEF s
  <2>4. V!List!Reverse(h)
    BY <2>3, <1>0 DEF V!List!Reverse, V!List!Has, V!List!Becomes, VecBecomes
  <2> QED
    BY <2>3, <2>4 DEF V!List!Next, VecBecomes
<1>2. CASE \E x \in Val : V!Push(h, x)
  <2> PICK x \in Val : V!Push(h, x)
    BY <1>2
  <2>1. VecSound(V!Pushed(vec[h], x)) /\ V!Items(V!Pushed(vec[h], x)) = Append(s, x)
    BY <1>0, VecPushed
  <2>2. VecBecomes(h, Append(s, x), Nothing)
    BY <2>1, VecBecame DEF V!Push
  <2> HIDE DEF s
  <2>3. V!List!PushBack(h, x)
    BY <2>2, <1>0 DEF V!List!PushBack, V!List!Has, V!List!Becomes, VecBecomes
  <2> QED
    BY <2>2, <2>3 DEF V!List!Next, VecBecomes
<1>3. CASE \E i \in 0..vec[h].len + 1, x \in Val : V!Insert(h, i, x)
  <2> PICK i \in 0..vec[h].len + 1, x \in Val : V!Insert(h, i, x)
    BY <1>3
  <2> DEFINE t == SubSeq(s, 1, i) \o <<x>> \o SubSeq(s, i + 1, Len(s))
  <2>1. i <= vec[h].len /\ V!Set(h, V!Inserted(vec[h], i, x), Nothing)
    BY DEF V!Insert, V!Panic
  <2>2. i \in 0..vec[h].len /\ i \in 0..Len(s)
    BY <2>1, <1>0
  <2>3. VecSound(V!Inserted(vec[h], i, x)) /\ V!Items(V!Inserted(vec[h], i, x)) = t
    BY <2>2, <1>0, VecInserted
  <2>4. VecBecomes(h, t, Nothing)
    BY <2>1, <2>3, VecBecame
  <2> HIDE DEF s
  <2>5. V!List!Insert(h, i, x)
    BY <2>4, <1>0 DEF V!List!Insert, V!List!Has, V!List!Becomes, VecBecomes
  <2>6. i \in 0..Len(list[h])
    BY <2>2, <1>0
  <2> QED
    BY <2>4, <2>5, <2>6 DEF V!List!Next, VecBecomes
<1>4. CASE \E i \in 0..vec[h].len + 1, x \in Val : V!Put(h, i, x)
  <2> PICK i \in 0..vec[h].len + 1, x \in Val : V!Put(h, i, x)
    BY <1>4
  <2> DEFINE w == [vec[h] EXCEPT !.data = V!Store(@, i, x)]
             t == [s EXCEPT ![i + 1] = x]
  <2>1. i < vec[h].len /\ V!Set(h, w, Nothing)
    BY DEF V!Put, V!Panic
  <2>2. i \in 0..vec[h].len - 1 /\ i \in 0..Len(s) /\ i < Len(s)
    BY <2>1, <1>0
  <2>3. VecSound(w) /\ V!Items(w) = t
    BY <2>2, <1>0, VecPut
  <2> HIDE DEF w
  <2>4. VecBecomes(h, t, Nothing)
    BY <2>1, <2>3, VecBecame
  <2> HIDE DEF s
  <2>5. V!List!Set(h, i, x)
    BY <2>2, <2>4, <1>0 DEF V!List!Set, V!List!Has, V!List!Becomes, VecBecomes
  <2>6. i \in 0..Len(list[h])
    BY <2>2, <1>0
  <2> QED
    BY <2>4, <2>5, <2>6 DEF V!List!Next, VecBecomes
<1> QED
  BY <1>1, <1>2, <1>3, <1>4

\* The calls that empty a vector or make it anew.
LEMMA VecEmpties ==
    ASSUME Vecs, NEW h \in Handle,
           V!Clear(h) \/ V!Free(h) \/ \E n \in Times : V!Renew(h, n)
    PROVE  Vecs' /\ V!List!Next
<1> DEFINE list == [g \in Handle |-> V!Items(vec[g])]
           w == [vec[h] EXCEPT !.data = V!Dropped(@, 0), !.len = 0]
<1>0. VecSound(vec[h]) /\ vec[h].len \in Nat /\ V!Items(vec[h]) \in Seq(Datum)
  BY VecLists
<1>1. VecSound(w) /\ V!Items(w) = << >>
  <2>1. 0 \in 0..vec[h].len
    BY <1>0
  <2>2. VecSound(w) /\ V!Items(w) = SubSeq(V!Items(vec[h]), 1, 0)
    BY <2>1, <1>0, VecCut
  <2>3. SubSeq(V!Items(vec[h]), 1, 0) = << >>
    BY <1>0
  <2> QED
    BY <2>2, <2>3
<1>2. CASE V!Clear(h)
  <2>1. V!Set(h, w, Nothing)
    BY <1>2 DEF V!Clear
  <2> HIDE DEF w
  <2>2. VecBecomes(h, << >>, Nothing)
    BY <1>1, <2>1, VecBecame
  <2> QED
    BY <2>2 DEF V!List!Next, V!List!Clear, V!List!Has, V!List!Becomes, VecBecomes
<1>3. CASE V!Free(h)
  <2>1. VecBecomes(h, << >>, Nothing)
    BY <1>3, VecEmpty, VecBecame DEF V!Free
  <2> QED
    BY <2>1 DEF V!List!Next, V!List!Clear, V!List!Has, V!List!Becomes, VecBecomes
<1>4. CASE \E n \in Times : V!Renew(h, n)
  <2> PICK n \in Times : V!Renew(h, n)
    BY <1>4
  <2>0. n \in Nat
    BY VecsAssumption DEF V!VecAssumption
  <2>1. VecBecomes(h, << >>, Nothing)
    BY <2>0, VecEmpty, VecBecame DEF V!Renew
  <2> QED
    BY <2>1 DEF V!List!Next, V!List!Clear, V!List!Has, V!List!Becomes, VecBecomes
<1> QED
  BY <1>2, <1>3, <1>4

\* append: one vector takes the items of another.
LEMMA VecTakesAll ==
    ASSUME Vecs, NEW h \in Handle, NEW g \in Handle, V!Append(h, g)
    PROVE  Vecs' /\ V!List!Next
<1> DEFINE list == [k \in Handle |-> V!Items(vec[k])]
           w == V!Appended(vec[h], vec[g])
<1>1. VecSound(w) /\ V!Items(w) = list[h] \o list[g]
  BY VecLists, VecAppended
<1>2. VecSound(V!New) /\ V!Items(V!New) = << >>
  BY VecEmpty
<1>3. /\ h # g /\ vec' = [vec EXCEPT ![h] = w, ![g] = V!New] /\ got' = Nothing
      /\ vec \in [Handle -> VecRecord]
  BY DEF V!Append, Vecs
<1>4. w \in VecRecord /\ V!New \in VecRecord
  BY <1>1, <1>2 DEF VecSound
<1> HIDE DEF w
<1>5. /\ vec' \in [Handle -> VecRecord]
      /\ \A k \in Handle : vec'[k] = IF k = g THEN V!New ELSE IF k = h THEN w ELSE vec[k]
  BY <1>3, <1>4
<1>6. Vecs'
  BY <1>1, <1>2, <1>5 DEF Vecs
<1>7. list' = [list EXCEPT ![h] = list[h] \o list[g], ![g] = << >>]
  <2>1. \A k \in Handle : V!Items(vec'[k]) = IF k = g THEN << >>
                                             ELSE IF k = h THEN list[h] \o list[g] ELSE list[k]
    BY <1>1, <1>2, <1>5
  <2> QED
    BY <2>1
<1>8. V!List!Move(h, g)
  BY <1>3, <1>7 DEF V!List!Move, V!List!Has
<1> QED
  BY <1>6, <1>8 DEF V!List!Next

\* The calls that make one vector of others.
LEMMA VecMakes ==
    ASSUME Vecs, NEW h \in Handle, NEW g \in Handle,
           \/ V!AddAssign(h, g) \/ V!Clone(h, g) \/ V!Collect(h, g)
           \/ \E k \in Handle : V!Add(h, g, k)
    PROVE  Vecs' /\ V!List!Next
<1> DEFINE list == [k \in Handle |-> V!Items(vec[k])]
<1>0. \A k \in Handle : VecSound(vec[k]) /\ list[k] = V!Items(vec[k])
  BY VecLists
<1>c. \A k \in Handle : VecSound(V!Cloned(vec[k])) /\ V!Items(V!Cloned(vec[k])) = list[k]
  BY <1>0, VecCloned
<1>1. CASE V!AddAssign(h, g)
  <2>1. /\ VecSound(V!Appended(vec[h], V!Cloned(vec[g])))
        /\ V!Items(V!Appended(vec[h], V!Cloned(vec[g]))) = list[h] \o list[g]
    <3> DEFINE a == V!Cloned(vec[g])
    <3>1. /\ VecSound(vec[h]) /\ VecSound(a) /\ V!Items(vec[h]) = list[h]
          /\ V!Items(a) = list[g]
      BY <1>0, <1>c
    <3> HIDE DEF a, list
    <3>2. /\ VecSound(V!Appended(vec[h], a))
          /\ V!Items(V!Appended(vec[h], a)) = V!Items(vec[h]) \o V!Items(a)
      BY <3>1, VecAppended
    <3> QED
      BY <3>1, <3>2 DEF a
  <2>2. VecBecomes(h, list[h] \o list[g], Nothing)
    BY <1>1, <2>1, VecBecame DEF V!AddAssign
  <2>3. V!List!Concat(h, h, g)
    BY <2>2 DEF V!List!Concat, V!List!Has, V!List!Becomes, VecBecomes
  <2> QED
    BY <2>2, <2>3 DEF V!List!Next, VecBecomes
<1>2. CASE V!Clone(h, g)
  <2>1. VecBecomes(h, list[g], Nothing)
    BY <1>2, <1>c, VecBecame DEF V!Clone
  <2>2. V!List!Copy(h, g)
    BY <2>1 DEF V!List!Copy, V!List!Has, V!List!Becomes, VecBecomes
  <2> QED
    BY <2>1, <2>2 DEF V!List!Next, VecBecomes
<1>3. CASE V!Collect(h, g)
  <2>1. VecSound(V!Collected(vec[g])) /\ V!Items(V!Collected(vec[g])) = list[g]
    BY <1>0, VecCollected
  <2>2. VecBecomes(h, list[g], Nothing)
    BY <1>3, <2>1, VecBecame DEF V!Collect
  <2>3. V!List!Copy(h, g)
    BY <2>2 DEF V!List!Copy, V!List!Has, V!List!Becomes, VecBecomes
  <2> QED
    BY <2>2, <2>3 DEF V!List!Next, VecBecomes
<1>4. CASE \E k \in Handle : V!Add(h, g, k)
  <2> PICK k \in Handle : V!Add(h, g, k)
    BY <1>4
  <2>1. /\ VecSound(V!Appended(V!Cloned(vec[g]), V!Cloned(vec[k])))
        /\ V!Items(V!Appended(V!Cloned(vec[g]), V!Cloned(vec[k]))) = list[g] \o list[k]
    <3> DEFINE a == V!Cloned(vec[g])
               b == V!Cloned(vec[k])
    <3>1. VecSound(a) /\ VecSound(b) /\ V!Items(a) = list[g] /\ V!Items(b) = list[k]
      BY <1>c
    <3> HIDE DEF a, b, list
    <3>2. VecSound(V!Appended(a, b)) /\ V!Items(V!Appended(a, b)) = V!Items(a) \o V!Items(b)
      BY <3>1, VecAppended
    <3> QED
      BY <3>1, <3>2 DEF a, b
  <2>2. VecBecomes(h, list[g] \o list[k], Nothing)
    BY <2>1, VecBecame DEF V!Add
  <2>3. V!List!Concat(h, g, k)
    BY <2>2 DEF V!List!Concat, V!List!Has, V!List!Becomes, VecBecomes
  <2> QED
    BY <2>2, <2>3 DEF V!List!Next, VecBecomes
<1> QED
  BY <1>1, <1>2, <1>3, <1>4

\* The calls that repeat the items of a vector.
LEMMA VecMultiplies ==
    ASSUME Vecs, NEW h \in Handle, NEW g \in Handle, NEW n \in Times,
           V!Mul(h, g, n) \/ (V!MulAssign(h, n) /\ g = h)
    PROVE  Vecs' /\ V!List!Next
<1> DEFINE list == [k \in Handle |-> V!Items(vec[k])]
<1>0. n \in Nat /\ VecSound(vec[g])
  BY VecLists, VecsAssumption DEF V!VecAssumption
<1>1. VecBecomes(h, Repeats(list[g], n), Nothing)
  <2>1. CASE V!Mul(h, g, n)
    <3>1. VecSound(V!Repeated(vec[g], n)) /\ V!Items(V!Repeated(vec[g], n)) = Repeats(list[g], n)
      BY <1>0, VecRepeated
    <3> QED
      BY <2>1, <3>1, VecBecame DEF V!Mul
  <2>2. CASE V!MulAssign(h, n) /\ g = h
    <3>1. /\ VecSound(V!RepeatedInPlace(vec[g], n))
          /\ V!Items(V!RepeatedInPlace(vec[g], n)) = Repeats(list[g], n)
      BY <1>0, VecRepeatedInPlace
    <3> QED
      BY <2>2, <3>1, VecBecame DEF V!MulAssign
  <2> QED
    BY <2>1, <2>2
<1>2. V!List!Repeat(h, g, n)
  BY <1>1 DEF V!List!Repeat, V!List!Has, V!List!Becomes, VecBecomes, Repeats
<1> QED
  BY <1>1, <1>2 DEF V!List!Next, VecBecomes

\* What each call does to the sequences.
LEMMA VecNext ==
    ASSUME Vecs, V!Next
    PROVE  Vecs' /\ [V!List!Next]_V!List!vars
<1>1. CASE UNCHANGED <<vec, got>>
  BY <1>1 DEF Vecs, V!List!vars
<1>2. CASE ~UNCHANGED <<vec, got>>
  <2> PICK h \in Handle :
        \/ V!Pop(h) \/ V!PopOpt(h) \/ V!Reverse(h) \/ V!Clear(h) \/ V!Free(h)
        \/ \E x \in Val : V!Push(h, x)
        \/ \E i \in 0..vec[h].len + 1 : V!Remove(h, i) \/ V!Get(h, i)
        \/ \E i \in 0..vec[h].len + 1, x \in Val : V!Insert(h, i, x) \/ V!Put(h, i, x)
        \/ \E g \in Handle : \/ V!Append(h, g) \/ V!AddAssign(h, g) \/ V!Clone(h, g)
                             \/ V!Collect(h, g)
        \/ \E n \in Times : V!MulAssign(h, n) \/ V!Renew(h, n)
        \/ \E g \in Handle, n \in Times : V!Mul(h, g, n)
        \/ \E g, k \in Handle : V!Add(h, g, k)
    BY DEF V!Next
  <2>1. CASE \/ V!Pop(h) \/ V!PopOpt(h)
             \/ \E i \in 0..vec[h].len + 1 : V!Remove(h, i) \/ V!Get(h, i)
    BY <1>2, <2>1, VecTakes
  <2>2. CASE \/ V!Reverse(h)
             \/ \E x \in Val : V!Push(h, x)
             \/ \E i \in 0..vec[h].len + 1, x \in Val : V!Insert(h, i, x) \/ V!Put(h, i, x)
    BY <1>2, <2>2, VecPuts
  <2>3. CASE V!Clear(h) \/ V!Free(h) \/ \E n \in Times : V!Renew(h, n)
    BY <2>3, VecEmpties
  <2>4. CASE \E g \in Handle : V!Append(h, g)
    BY <2>4, VecTakesAll
  <2>5. CASE \/ \E g \in Handle : V!AddAssign(h, g) \/ V!Clone(h, g) \/ V!Collect(h, g)
             \/ \E g, k \in Handle : V!Add(h, g, k)
    BY <2>5, VecMakes
  <2>6. CASE \/ \E g \in Handle, n \in Times : V!Mul(h, g, n)
             \/ \E n \in Times : V!MulAssign(h, n)
    BY <2>6, VecMultiplies
  <2> QED
    BY <2>1, <2>2, <2>3, <2>4, <2>5, <2>6
<1> QED
  BY <1>1, <1>2

\* Every vector of std/vec.zc is a sequence of its own: push, insert, remove, append, repeat,
\* reverse and clone do to it what they do to a sequence, however often its buffer is moved,
\* return what is in the sequence, and no call shows in another vector.
THEOREM VecImplementsList == V!Spec => VecIsList
<1>1. V!Init => Vecs /\ V!List!Init
  <2> SUFFICES ASSUME V!Init PROVE Vecs /\ V!List!Init
    OBVIOUS
  <2>1. vec = [h \in Handle |-> V!New] /\ got = Nothing
    BY DEF V!Init
  <2>2. VecSound(V!New) /\ V!New \in VecRecord /\ V!Items(V!New) = << >>
    BY VecEmpty DEF VecSound
  <2> QED
    BY <2>1, <2>2 DEF Vecs, V!List!Init
<1>2. Vecs /\ [V!Next]_V!vars => Vecs' /\ [V!List!Next]_V!List!vars
  <2>1. Vecs /\ V!Next => Vecs' /\ [V!List!Next]_V!List!vars
    BY VecNext
  <2>2. Vecs /\ UNCHANGED V!vars => Vecs' /\ UNCHANGED V!List!vars
    BY DEF V!vars, V!List!vars, Vecs
  <2> QED
    BY <2>1, <2>2
<1> QED
  BY <1>1, <1>2, PTL DEF V!Spec, VecIsList, V!VecIsList, V!List!Spec
=============================================================================
