----------------------------- MODULE Maps_proof -----------------------------
(***************************************************************************)
(* The hash tables are what their calls built, for any keys, any hashes    *)
(* and tables of any size: HashTable (Map and Set of std) keeps its slots  *)
(* in order and implements the safety part of FiniteMap, and so does ZMap. *)
(* A step of a call on a Map or Set brings it nearer to its end.           *)
(* First the tables of std, then the zmap.                                 *)
(***************************************************************************)
EXTENDS Maps, FiniteSetTheorems, WellFoundedInduction, TLAPS

-----------------------------------------------------------------------------
(* Slots in a ring *)

\* The slot d places behind s in a ring of n, without a remainder.
Ring(s, d, n) == IF s + d < n THEN s + d ELSE s + d - n

\* The slot that the hash h gives to k.
Home(h, k, n) == h[k] % n

\* A remainder is below what was divided by.
LEMMA ModType == \A n \in Nat \ {0} : \A i \in Nat : i % n \in 0..n-1
OBVIOUS

\* What is below the capacity does not wrap.
LEMMA SmallMod == \A n \in Nat \ {0} : \A i \in 0..n-1 : i % n = i
OBVIOUS

\* What is behind it wraps once.
LEMMA LargeMod == \A n \in Nat \ {0} : \A i \in n..2*n-1 : i % n = i - n
OBVIOUS

\* A slot of the ring, and the ring's remainder.
LEMMA RingIs ==
    ASSUME NEW n \in Nat \ {0}, NEW s \in 0..n-1, NEW d \in 0..n-1
    PROVE  Ring(s, d, n) \in 0..n-1 /\ (s + d) % n = Ring(s, d, n)
<1>1. CASE s + d < n
  <2>1. s + d \in 0..n-1
    BY <1>1
  <2> QED
    BY <2>1, <1>1, SmallMod DEF Ring
<1>2. CASE ~(s + d < n)
  <2>1. s + d \in n..2*n-1 /\ s + d - n \in 0..n-1
    BY <1>2
  <2> QED
    BY <2>1, <1>2, LargeMod DEF Ring
<1> QED
  BY <1>1, <1>2

\* Every slot is somewhere behind s, in one place only.
LEMMA RingOnto ==
    ASSUME NEW n \in Nat \ {0}, NEW s \in 0..n-1, NEW i \in 0..n-1
    PROVE  \E d \in 0..n-1 : i = Ring(s, d, n)
<1>1. CASE i >= s
  <2>1. i - s \in 0..n-1 /\ i = Ring(s, i - s, n)
    BY <1>1 DEF Ring
  <2> QED
    BY <2>1
<1>2. CASE i < s
  <2>1. i - s + n \in 0..n-1 /\ i = Ring(s, i - s + n, n)
    BY <1>2 DEF Ring
  <2> QED
    BY <2>1
<1> QED
  BY <1>1, <1>2

\* Two places behind s are two slots.
LEMMA RingOne ==
    ASSUME NEW n \in Nat \ {0}, NEW s \in 0..n-1, NEW d \in 0..n-1, NEW e \in 0..n-1,
           Ring(s, d, n) = Ring(s, e, n)
    PROVE  d = e
BY DEF Ring

\* The next slot is one place further behind s, until the ring is closed.
LEMMA RingNext ==
    ASSUME NEW n \in Nat \ {0}, NEW s \in 0..n-1, NEW d \in 0..n-1
    PROVE  /\ d + 1 < n => (Ring(s, d, n) + 1) % n = Ring(s, d + 1, n)
           /\ d + 1 = n => (Ring(s, d, n) + 1) % n = s
           /\ Ring(s, 0, n) = s
<1>1. Ring(s, d, n) \in 0..n-1
  BY RingIs
<1>2. CASE Ring(s, d, n) + 1 < n
  <2>1. (Ring(s, d, n) + 1) % n = Ring(s, d, n) + 1
    BY <1>1, <1>2, SmallMod
  <2> QED
    BY <2>1, <1>1, <1>2 DEF Ring
<1>3. CASE ~(Ring(s, d, n) + 1 < n)
  <2>1. Ring(s, d, n) + 1 = n /\ n \in n..2*n-1
    BY <1>1, <1>3
  <2>2. (Ring(s, d, n) + 1) % n = 0
    BY <2>1, LargeMod
  <2> QED
    BY <2>1, <2>2, <1>1 DEF Ring
<1> QED
  BY <1>2, <1>3

\* How many places behind s slot i lies.
Gap(i, s, n) == IF i >= s THEN i - s ELSE i - s + n

\* The slot before i.
Before(i, n) == IF i = 0 THEN n - 1 ELSE i - 1

\* A place behind s, and the way back.
LEMMA GapIs ==
    ASSUME NEW n \in Nat \ {0}, NEW s \in 0..n-1, NEW i \in 0..n-1
    PROVE  /\ Gap(i, s, n) \in 0..n-1 /\ Ring(s, Gap(i, s, n), n) = i
           /\ Before(i, n) \in 0..n-1
           /\ Gap(i, s, n) > 0 => Gap(Before(i, n), s, n) = Gap(i, s, n) - 1
           /\ Gap(i, s, n) = 0 => i = s
BY DEF Gap, Ring, Before

\* The slot d places behind s, and the one before it.
LEMMA GapOf ==
    ASSUME NEW n \in Nat \ {0}, NEW s \in 0..n-1, NEW d \in 0..n-1
    PROVE  /\ Ring(s, d, n) \in 0..n-1 /\ Gap(Ring(s, d, n), s, n) = d
           /\ d > 0 => Before(Ring(s, d, n), n) = Ring(s, d - 1, n)
           /\ d + 1 < n => Before(Ring(s, d + 1, n), n) = Ring(s, d, n)
BY DEF Gap, Ring, Before

\* A place further, the gap to any home is one more, unless that is where it lies.
LEMMA GapNext ==
    ASSUME NEW n \in Nat \ {0}, NEW s \in 0..n-1, NEW d \in 0..n-1, d + 1 < n,
           NEW r \in 0..n-1, Gap(Ring(s, d, n), r, n) + 1 < n
    PROVE  Gap(Ring(s, d + 1, n), r, n) = Gap(Ring(s, d, n), r, n) + 1
BY DEF Gap, Ring

\* The remainder that zmap_dist computes.
LEMMA GapMod ==
    ASSUME NEW n \in Nat \ {0}, NEW s \in 0..n-1, NEW i \in 0..n-1
    PROVE  (i - s) % n = Gap(i, s, n)
<1>1. CASE i >= s
  <2>1. i - s \in 0..n-1
    BY <1>1
  <2> QED
    BY <2>1, <1>1, SmallMod DEF Gap
<1>2. CASE ~(i >= s)
  <2> DEFINE r == i - s + n
  <2>1. r \in 0..n-1 /\ i - s = -1 * n + r
    BY <1>2
  <2> HIDE DEF r
  <2>2. (-1 * n + r) % n = r
    BY <2>1
  <2> QED
    BY <2>1, <2>2, <1>2 DEF Gap, r
<1> QED
  BY <1>1, <1>2

\* A set of numbers that is not empty has a least one.
LEMMA LeastOf ==
    ASSUME NEW S \in SUBSET Nat, S # {}
    PROVE  \E m \in S : \A i \in S : m <= i
<1> DEFINE R == OpToRel(<, Nat)
<1>1. IsWellFoundedOn(R, Nat)
  BY NatLessThanWellFounded
<1> HIDE DEF R
<1>2. PICK m \in S : \A y \in S : ~(<<y, m>> \in R)
  BY <1>1, WFMin
<1>3. ASSUME NEW y \in S PROVE m <= y
  <2>1. y < m => <<y, m>> \in R
    BY DEF R, OpToRel
  <2> QED
    BY <2>1, <1>2
<1> QED
  BY <1>3

\* Induction, for a set.
LEMMA SetInduction ==
    ASSUME NEW T, 0 \in T, \A n \in Nat : n \in T => n + 1 \in T
    PROVE  Nat \subseteq T
<1> DEFINE U == Nat \ T
<1>1. ASSUME U # {} PROVE FALSE
  <2>1. PICK m \in U : \A i \in U : m <= i
    BY <1>1, LeastOf
  <2>2. m \in Nat /\ m # 0 /\ m - 1 \in Nat
    OBVIOUS
  <2>3. m - 1 \in U
    BY <2>2
  <2> QED
    BY <2>1, <2>2, <2>3
<1> QED
  BY <1>1

-----------------------------------------------------------------------------
(* Tables *)

Datum == Key \cup Value

Slot == {FreeSlot, DeadSlot} \cup {LiveSlot(k, v) : k \in Key, v \in Datum}

Lives(t, n) == {i \in 0..n-1 : t[i].st = "live"}

HasKey(t, n, k) == \E i \in 0..n-1 : Holds(t[i], k)

Unique(t, n) == \A i, j \in 0..n-1 : Holds(t[i], t[i].key) /\ Holds(t[j], t[i].key) => i = j

\* The first d slots of a search that begins at s are not free.
Used(t, n, s, d) == \A e \in 0..n-1 : e < d => t[Ring(s, e, n)].st # "free"

\* The entry in slot i is found by a search.
Findable(h, t, n, i) == \E d \in 0..n-1 : i = Ring(Home(h, t[i].key, n), d, n)
                                        /\ Used(t, n, Home(h, t[i].key, n), d)

\* t is a table of n slots with m entries, where each is where the hashes h put it.
Table(h, t, n, m) ==
    /\ n \in Nat /\ h \in [Key -> Nat] /\ t \in [0..n-1 -> Slot]
    /\ Unique(t, n)
    /\ \A i \in Lives(t, n) : Findable(h, t, n, i)
    /\ m = Cardinality(Lives(t, n))

\* The map that a table stands for.
MapOf(t, n) == [k \in Key |-> IF HasKey(t, n, k)
                              THEN t[CHOOSE i \in 0..n-1 : Holds(t[i], k)].val ELSE Absent]

\* The contents of a slot.
LEMMA SlotParts ==
    ASSUME NEW s \in Slot
    PROVE  /\ s.st \in {"free", "dead", "live"}
           /\ s.st = "live" => s.key \in Key /\ s.val \in Datum /\ s.val # Absent
BY HashAssumption DEF Slot, FreeSlot, DeadSlot, LiveSlot, Datum

\* A live slot holds its key, and no other.
LEMMA LiveHolds ==
    ASSUME NEW k \in Key, NEW v \in Datum
    PROVE  /\ LiveSlot(k, v) \in Slot /\ LiveSlot(k, v).st = "live"
           /\ LiveSlot(k, v).key = k /\ LiveSlot(k, v).val = v
           /\ FreeSlot \in Slot /\ FreeSlot.st = "free" /\ DeadSlot \in Slot /\ DeadSlot.st = "dead"
BY DEF Slot, LiveSlot, FreeSlot, DeadSlot

\* What a table is, slot by slot.
LEMMA TableParts ==
    ASSUME NEW h, NEW t, NEW n, NEW m, Table(h, t, n, m)
    PROVE  /\ n \in Nat /\ DOMAIN t = 0..n-1
           /\ \A i \in 0..n-1 : /\ t[i] \in Slot /\ t[i].st \in {"free", "dead", "live"}
                                /\ t[i].st = "live" => t[i].key \in Key /\ t[i].val \in Datum
           /\ \A k \in Key : n # 0 => Home(h, k, n) \in 0..n-1
<1>1. n \in Nat /\ DOMAIN t = 0..n-1 /\ \A i \in 0..n-1 : t[i] \in Slot
  BY DEF Table
<1>2. ASSUME NEW k \in Key, n # 0 PROVE Home(h, k, n) \in 0..n-1
  BY <1>2, ModType DEF Table, Home
<1> QED
  BY <1>1, <1>2, SlotParts

\* The live slots of a table are finitely many.
LEMMA LivesFinite ==
    ASSUME NEW t, NEW n \in Nat
    PROVE  /\ IsFiniteSet(Lives(t, n)) /\ Cardinality(Lives(t, n)) \in 0..n
           /\ IsFiniteSet(0..n-1) /\ Cardinality(0..n-1) = n
<1>1. 0 \in Int /\ n - 1 \in Int /\ (IF 0 > n - 1 THEN 0 ELSE (n - 1) - 0 + 1) = n
  OBVIOUS
<1>2. IsFiniteSet(0..n-1) /\ Cardinality(0..n-1) = IF 0 > n - 1 THEN 0 ELSE (n - 1) - 0 + 1
  BY <1>1, FS_Interval
<1>3. Lives(t, n) \subseteq 0..n-1
  BY DEF Lives
<1>4. IsFiniteSet(Lives(t, n)) /\ Cardinality(Lives(t, n)) <= Cardinality(0..n-1)
  BY <1>2, <1>3, FS_Subset
<1>5. Cardinality(Lives(t, n)) \in Nat
  BY <1>4, FS_CardinalityType
<1> QED
  BY <1>1, <1>2, <1>4, <1>5

\* What the map says of a key is what its slot holds.
LEMMA MapHolds ==
    ASSUME NEW t, NEW n, Unique(t, n), NEW k \in Key, NEW i \in 0..n-1, Holds(t[i], k)
    PROVE  MapOf(t, n)[k] = t[i].val
<1> DEFINE c == CHOOSE j \in 0..n-1 : Holds(t[j], k)
<1>1. c \in 0..n-1 /\ Holds(t[c], k)
  OBVIOUS
<1>2. c = i
  BY <1>1 DEF Unique, Holds
<1> HIDE DEF c
<1>3. HasKey(t, n, k)
  BY DEF HasKey
<1> USE DEF c
<1> QED
  BY <1>2, <1>3 DEF MapOf

\* A key in no slot is not in the map.
LEMMA MapLacks ==
    ASSUME NEW t, NEW n, NEW k \in Key, ~HasKey(t, n, k)
    PROVE  MapOf(t, n)[k] = Absent
BY DEF MapOf

-----------------------------------------------------------------------------
(* What a call does to a table *)

\* A search that has seen every slot before a free one has not missed its key.
LEMMA FreeEnds ==
    ASSUME NEW h, NEW t, NEW n, NEW m, Table(h, t, n, m), NEW k \in Key, NEW d \in 0..n-1,
           \A e \in 0..n-1 : e < d => ~Holds(t[Ring(Home(h, k, n), e, n)], k),
           t[Ring(Home(h, k, n), d, n)].st = "free"
    PROVE  ~HasKey(t, n, k)
<1> SUFFICES ASSUME NEW i \in 0..n-1, Holds(t[i], k) PROVE FALSE
  BY DEF HasKey
<1>1. t[i].st = "live" /\ t[i].key = k /\ i \in Lives(t, n)
  BY DEF Holds, Lives
<1>2. PICK c \in 0..n-1 : i = Ring(Home(h, k, n), c, n) /\ Used(t, n, Home(h, k, n), c)
  BY <1>1 DEF Table, Findable
<1>3. ~(d < c)
  BY <1>2 DEF Used
<1>4. ~(c < d)
  BY <1>2
<1>5. c = d
  BY <1>3, <1>4
<1> QED
  BY <1>1, <1>2, <1>5

\* Nor has one that has seen them all.
LEMMA RoundEnds ==
    ASSUME NEW h, NEW t, NEW n, NEW m, Table(h, t, n, m), NEW k \in Key,
           \A e \in 0..n-1 : ~Holds(t[Ring(Home(h, k, n), e, n)], k)
    PROVE  ~HasKey(t, n, k)
<1> SUFFICES ASSUME NEW i \in 0..n-1, Holds(t[i], k) PROVE FALSE
  BY DEF HasKey
<1>1. n \in Nat \ {0} /\ Home(h, k, n) \in 0..n-1
  BY TableParts
<1>2. \E e \in 0..n-1 : i = Ring(Home(h, k, n), e, n)
  BY <1>1, RingOnto
<1> QED
  BY <1>2

\* No table has slots that become free.
LEMMA StaysUsed ==
    ASSUME NEW h, NEW t, NEW n, NEW m, Table(h, t, n, m), NEW p \in 0..n-1, NEW x, x.st # "free",
           NEW s \in 0..n-1, NEW d, Used(t, n, s, d)
    PROVE  Used([t EXCEPT ![p] = x], n, s, d)
<1> SUFFICES ASSUME NEW e \in 0..n-1, e < d PROVE [t EXCEPT ![p] = x][Ring(s, e, n)].st # "free"
  BY DEF Used
<1>1. n \in Nat \ {0} /\ DOMAIN t = 0..n-1
  BY TableParts
<1>2. Ring(s, e, n) \in 0..n-1 /\ t[Ring(s, e, n)].st # "free"
  BY <1>1, RingIs DEF Used
<1> QED
  BY <1>1, <1>2

\* A new entry, behind slots that are not free.
LEMMA AddsEntry ==
    ASSUME NEW h, NEW t, NEW n, NEW m, Table(h, t, n, m), NEW k \in Key, NEW v \in Datum,
           ~HasKey(t, n, k), NEW d \in 0..n-1, Used(t, n, Home(h, k, n), d),
           NEW p, p = Ring(Home(h, k, n), d, n), t[p].st # "live"
    PROVE  LET u == [t EXCEPT ![p] = LiveSlot(k, v)]
           IN  /\ Table(h, u, n, m + 1)
               /\ MapOf(u, n) = [MapOf(t, n) EXCEPT ![k] = v]
<1> DEFINE x == LiveSlot(k, v)
           u == [t EXCEPT ![p] = x]
<1>1. n \in Nat \ {0} /\ DOMAIN t = 0..n-1 /\ Home(h, k, n) \in 0..n-1 /\ p \in 0..n-1
  <2>1. n \in Nat \ {0} /\ DOMAIN t = 0..n-1 /\ Home(h, k, n) \in 0..n-1
    BY TableParts
  <2> QED
    BY <2>1, RingIs
<1>2. x \in Slot /\ x.st = "live" /\ x.key = k /\ x.val = v
  BY LiveHolds
<1> HIDE DEF x
<1>3. u[p] = x /\ \A i \in 0..n-1 : i # p => u[i] = t[i]
  BY <1>1
<1>4. u \in [0..n-1 -> Slot]
  BY <1>1, <1>2 DEF Table
<1>5. Lives(u, n) = Lives(t, n) \cup {p} /\ p \notin Lives(t, n)
  BY <1>1, <1>2, <1>3 DEF Lives
<1>6. \A s \in 0..n-1 : \A c : Used(t, n, s, c) => Used(u, n, s, c)
  BY <1>1, <1>2, StaysUsed
<1> HIDE DEF u
<1>7. Unique(u, n)
  <2> SUFFICES ASSUME NEW i \in 0..n-1, NEW j \in 0..n-1, Holds(u[i], u[i].key), Holds(u[j], u[i].key)
               PROVE  i = j
    BY DEF Unique
  <2>1. \A q \in 0..n-1 : ~Holds(t[q], k)
    BY DEF HasKey
  <2>2. CASE i = p /\ j # p
    BY <2>1, <2>2, <1>2, <1>3
  <2>3. CASE j = p /\ i # p
    <3>1. u[i] = t[i] /\ t[i].key = k /\ t[i].st = "live"
      BY <2>3, <1>2, <1>3 DEF Holds
    <3> QED
      BY <3>1, <2>1 DEF Holds
  <2>4. CASE i # p /\ j # p
    BY <2>4, <1>3 DEF Table, Unique
  <2> QED
    BY <2>2, <2>3, <2>4
<1>8. ASSUME NEW i \in Lives(u, n) PROVE Findable(h, u, n, i)
  <2>1. CASE i = p
    BY <2>1, <1>1, <1>2, <1>3, <1>6 DEF Findable
  <2>2. CASE i # p
    <3>1. i \in Lives(t, n) /\ u[i] = t[i] /\ t[i].key \in Key /\ Home(h, t[i].key, n) \in 0..n-1
      BY <2>2, <1>1, <1>3, <1>5, TableParts DEF Lives
    <3>2. Findable(h, t, n, i)
      BY <3>1 DEF Table
    <3> QED
      BY <3>1, <3>2, <1>6 DEF Findable
  <2> QED
    BY <2>1, <2>2
<1>9. m + 1 = Cardinality(Lives(u, n))
  <2>1. IsFiniteSet(Lives(t, n)) /\ m = Cardinality(Lives(t, n))
    BY <1>1, LivesFinite DEF Table
  <2> QED
    BY <2>1, <1>5, FS_AddElement
<1>10. Table(h, u, n, m + 1)
  BY <1>1, <1>4, <1>7, <1>8, <1>9 DEF Table
<1>11. ASSUME NEW l \in Key PROVE MapOf(u, n)[l] = [MapOf(t, n) EXCEPT ![k] = v][l]
  <2>1. DOMAIN MapOf(t, n) = Key
    BY DEF MapOf
  <2>2. CASE l = k
    <3>1. Holds(u[p], k)
      BY <1>2, <1>3 DEF Holds
    <3>2. MapOf(u, n)[k] = v
      BY <3>1, <1>1, <1>2, <1>3, <1>7, MapHolds
    <3> QED
      BY <2>1, <2>2, <3>2
  <2>3. CASE l # k /\ HasKey(t, n, l)
    <3>1. PICK i \in 0..n-1 : Holds(t[i], l)
      BY <2>3 DEF HasKey
    <3>2. i # p /\ Holds(u[i], l) /\ u[i] = t[i]
      BY <3>1, <1>3 DEF Holds
    <3>3. Unique(t, n)
      BY DEF Table
    <3>4. MapOf(u, n)[l] = t[i].val /\ MapOf(t, n)[l] = t[i].val
      BY <3>1, <3>2, <3>3, <1>7, MapHolds
    <3> QED
      BY <2>1, <2>3, <3>4
  <2>4. CASE l # k /\ ~HasKey(t, n, l)
    <3>1. ~HasKey(u, n, l)
      BY <2>4, <1>2, <1>3 DEF HasKey, Holds
    <3> QED
      BY <2>1, <2>4, <3>1, MapLacks
  <2> QED
    BY <2>2, <2>3, <2>4
<1>12. MapOf(u, n) = [MapOf(t, n) EXCEPT ![k] = v]
  BY <1>11 DEF MapOf
<1> QED
  BY <1>10, <1>12 DEF u, x

\* A new value for a key that has an entry.
LEMMA ReplacesEntry ==
    ASSUME NEW h, NEW t, NEW n, NEW m, Table(h, t, n, m), NEW k \in Key, NEW v \in Datum,
           NEW p \in 0..n-1, Holds(t[p], k)
    PROVE  LET u == [t EXCEPT ![p] = LiveSlot(k, v)]
           IN  /\ Table(h, u, n, m)
               /\ MapOf(u, n) = [MapOf(t, n) EXCEPT ![k] = v]
<1> DEFINE x == LiveSlot(k, v)
           u == [t EXCEPT ![p] = x]
<1>1. n \in Nat \ {0} /\ DOMAIN t = 0..n-1 /\ t[p].st = "live" /\ t[p].key = k
  BY TableParts DEF Holds
<1>2. x \in Slot /\ x.st = "live" /\ x.key = k /\ x.val = v
  BY LiveHolds
<1> HIDE DEF x
<1>3. u[p] = x /\ \A i \in 0..n-1 : i # p => u[i] = t[i]
  BY <1>1
<1>4. u \in [0..n-1 -> Slot]
  BY <1>1, <1>2 DEF Table
<1>5. \A i \in 0..n-1 : u[i].st = t[i].st /\ (t[i].st = "live" => u[i].key = t[i].key)
  BY <1>1, <1>2, <1>3
<1>6. \A s \in 0..n-1 : \A c : Used(t, n, s, c) => Used(u, n, s, c)
  BY <1>1, <1>2, StaysUsed
<1> HIDE DEF u
<1>7. Unique(u, n)
  BY <1>5 DEF Unique, Holds, Table
<1>8. Lives(u, n) = Lives(t, n)
  BY <1>5 DEF Lives
<1>9. ASSUME NEW i \in Lives(u, n) PROVE Findable(h, u, n, i)
  <2>1. i \in Lives(t, n) /\ i \in 0..n-1 /\ t[i].st = "live" /\ u[i].key = t[i].key
    BY <1>5, <1>8 DEF Lives
  <2>2. t[i].key \in Key /\ Home(h, t[i].key, n) \in 0..n-1
    BY <2>1, <1>1, TableParts
  <2>3. Findable(h, t, n, i)
    BY <2>1 DEF Table
  <2> QED
    BY <2>1, <2>2, <2>3, <1>6 DEF Findable
<1>10. Table(h, u, n, m)
  BY <1>4, <1>7, <1>8, <1>9 DEF Table
<1>11. ASSUME NEW l \in Key PROVE MapOf(u, n)[l] = [MapOf(t, n) EXCEPT ![k] = v][l]
  <2>1. DOMAIN MapOf(t, n) = Key /\ Unique(t, n)
    BY DEF MapOf, Table
  <2>2. CASE l = k
    <3>1. Holds(u[p], k)
      BY <1>2, <1>3 DEF Holds
    <3>2. MapOf(u, n)[k] = v
      BY <3>1, <1>2, <1>3, <1>7, MapHolds
    <3> QED
      BY <2>1, <2>2, <3>2
  <2>3. CASE l # k /\ HasKey(t, n, l)
    <3>1. PICK i \in 0..n-1 : Holds(t[i], l)
      BY <2>3 DEF HasKey
    <3>2. i # p /\ Holds(u[i], l) /\ u[i] = t[i]
      BY <3>1, <2>3, <1>1, <1>3 DEF Holds
    <3>3. MapOf(u, n)[l] = t[i].val /\ MapOf(t, n)[l] = t[i].val
      BY <3>1, <3>2, <2>1, <1>7, MapHolds
    <3> QED
      BY <2>1, <2>3, <3>3
  <2>4. CASE l # k /\ ~HasKey(t, n, l)
    <3>1. ~HasKey(u, n, l)
      BY <2>4, <1>5, <1>1 DEF HasKey, Holds
    <3> QED
      BY <2>1, <2>4, <3>1, MapLacks
  <2> QED
    BY <2>2, <2>3, <2>4
<1>12. MapOf(u, n) = [MapOf(t, n) EXCEPT ![k] = v]
  BY <1>11 DEF MapOf
<1> QED
  BY <1>10, <1>12 DEF u, x

\* An entry that is deleted.
LEMMA RemovesEntry ==
    ASSUME NEW h, NEW t, NEW n, NEW m, Table(h, t, n, m), NEW k \in Key,
           NEW p \in 0..n-1, Holds(t[p], k)
    PROVE  LET u == [t EXCEPT ![p] = DeadSlot]
           IN  /\ Table(h, u, n, m - 1)
               /\ MapOf(u, n) = [MapOf(t, n) EXCEPT ![k] = Absent]
<1> DEFINE x == DeadSlot
           u == [t EXCEPT ![p] = x]
<1>1. n \in Nat \ {0} /\ DOMAIN t = 0..n-1 /\ t[p].st = "live" /\ t[p].key = k
  BY TableParts DEF Holds
<1>2. x \in Slot /\ x.st = "dead"
  BY DEF DeadSlot, Slot
<1> HIDE DEF x
<1>3. u[p] = x /\ \A i \in 0..n-1 : i # p => u[i] = t[i]
  BY <1>1
<1>4. u \in [0..n-1 -> Slot]
  BY <1>1, <1>2 DEF Table
<1>5. Lives(u, n) = Lives(t, n) \ {p} /\ p \in Lives(t, n)
  BY <1>1, <1>2, <1>3 DEF Lives
<1>6. \A s \in 0..n-1 : \A c : Used(t, n, s, c) => Used(u, n, s, c)
  BY <1>1, <1>2, StaysUsed
<1> HIDE DEF u
<1>7. \A i \in 0..n-1 : u[i].st = "live" => i # p /\ u[i] = t[i]
  BY <1>2, <1>3
<1>8. Unique(u, n)
  BY <1>7 DEF Unique, Holds, Table
<1>9. ASSUME NEW i \in Lives(u, n) PROVE Findable(h, u, n, i)
  <2>1. i \in Lives(t, n) /\ i \in 0..n-1 /\ t[i].st = "live" /\ u[i] = t[i]
    BY <1>5, <1>7 DEF Lives
  <2>2. t[i].key \in Key /\ Home(h, t[i].key, n) \in 0..n-1
    BY <2>1, <1>1, TableParts
  <2>3. Findable(h, t, n, i)
    BY <2>1 DEF Table
  <2> QED
    BY <2>1, <2>2, <2>3, <1>6 DEF Findable
<1>10. m - 1 = Cardinality(Lives(u, n))
  <2>1. IsFiniteSet(Lives(t, n)) /\ m = Cardinality(Lives(t, n))
    BY <1>1, LivesFinite DEF Table
  <2> QED
    BY <2>1, <1>5, FS_RemoveElement
<1>11. Table(h, u, n, m - 1)
  BY <1>1, <1>4, <1>8, <1>9, <1>10 DEF Table
<1>12. ASSUME NEW l \in Key PROVE MapOf(u, n)[l] = [MapOf(t, n) EXCEPT ![k] = Absent][l]
  <2>1. DOMAIN MapOf(t, n) = Key /\ Unique(t, n)
    BY DEF MapOf, Table
  <2>2. CASE l = k
    <3>1. ~HasKey(u, n, k)
      <4> SUFFICES ASSUME NEW i \in 0..n-1, Holds(u[i], k) PROVE FALSE
        BY DEF HasKey
      <4>1. i # p /\ Holds(t[i], k)
        BY <1>7 DEF Holds
      <4> QED
        BY <4>1, <2>1 DEF Unique, Holds
    <3> QED
      BY <2>1, <2>2, <3>1, MapLacks
  <2>3. CASE l # k /\ HasKey(t, n, l)
    <3>1. PICK i \in 0..n-1 : Holds(t[i], l)
      BY <2>3 DEF HasKey
    <3>2. i # p /\ Holds(u[i], l) /\ u[i] = t[i]
      BY <3>1, <2>3, <1>1, <1>3 DEF Holds
    <3>3. MapOf(u, n)[l] = t[i].val /\ MapOf(t, n)[l] = t[i].val
      BY <3>1, <3>2, <2>1, <1>8, MapHolds
    <3> QED
      BY <2>1, <2>3, <3>3
  <2>4. CASE l # k /\ ~HasKey(t, n, l)
    <3>1. ~HasKey(u, n, l)
      BY <2>4, <1>7 DEF HasKey, Holds
    <3> QED
      BY <2>1, <2>4, <3>1, MapLacks
  <2> QED
    BY <2>2, <2>3, <2>4
<1>13. MapOf(u, n) = [MapOf(t, n) EXCEPT ![k] = Absent]
  BY <1>12 DEF MapOf
<1> QED
  BY <1>11, <1>13 DEF u, x

\* A table that was just made, or cleared.
LEMMA NoEntries ==
    ASSUME NEW h \in [Key -> Nat], NEW n \in Nat
    PROVE  LET t == [i \in 0..n-1 |-> FreeSlot]
           IN  Table(h, t, n, 0) /\ MapOf(t, n) = [k \in Key |-> Absent]
<1> DEFINE t == [i \in 0..n-1 |-> FreeSlot]
<1>1. FreeSlot \in Slot /\ FreeSlot.st = "free"
  BY DEF FreeSlot, Slot
<1>2. t \in [0..n-1 -> Slot] /\ \A i \in 0..n-1 : t[i].st = "free"
  BY <1>1
<1> HIDE DEF t
<1>3. Lives(t, n) = {} /\ Unique(t, n) /\ \A k \in Key : ~HasKey(t, n, k)
  BY <1>2 DEF Lives, Unique, HasKey, Holds
<1>4. Cardinality(Lives(t, n)) = 0
  BY <1>3, FS_EmptySet
<1>5. Table(h, t, n, 0)
  BY <1>2, <1>3, <1>4 DEF Table
<1>6. MapOf(t, n) = [k \in Key |-> Absent]
  BY <1>3 DEF MapOf
<1> QED
  BY <1>5, <1>6 DEF t

\* A table without slots.
LEMMA NoTable == <<>> = [i \in 0..0-1 |-> FreeSlot]
BY 0..0-1 = {}

-----------------------------------------------------------------------------
(* The resize *)

\* The slot that is probed after d others.
LEMMA ProbedIs ==
    ASSUME hash \in [Key -> Nat], NEW k \in Key, NEW n \in Nat \ {0}, NEW d \in 0..n-1
    PROVE  Probed(k, d, n) = Ring(Home(hash, k, n), d, n) /\ Home(hash, k, n) \in 0..n-1
<1>1. Home(hash, k, n) \in 0..n-1 /\ Start(k, n) = Home(hash, k, n)
  BY ModType DEF Home, Start
<1> QED
  BY <1>1, RingIs DEF Probed

\* A table that has more slots than entries, and no dead slots, has a free one.
LEMMA SomeFree ==
    ASSUME NEW h, NEW t, NEW n, NEW m, Table(h, t, n, m), m < n, \A i \in 0..n-1 : t[i].st # "dead"
    PROVE  \E i \in 0..n-1 : t[i].st = "free"
<1> SUFFICES ASSUME \A i \in 0..n-1 : t[i].st # "free" PROVE FALSE
  OBVIOUS
<1>1. n \in Nat /\ \A i \in 0..n-1 : t[i].st = "live"
  BY TableParts
<1>2. Lives(t, n) = 0..n-1
  BY <1>1 DEF Lives
<1>3. m = n
  BY <1>1, <1>2, LivesFinite DEF Table
<1> QED
  BY <1>1, <1>3

\* The first free slot behind the home of a key.
LEMMA FirstFreeIs ==
    ASSUME NEW t, NEW n, NEW m, Table(hash, t, n, m), m < n, \A i \in 0..n-1 : t[i].st # "dead",
           NEW k \in Key
    PROVE  \E d \in 0..n-1 : /\ FirstFree(t, k, n) = Ring(Home(hash, k, n), d, n)
                             /\ t[FirstFree(t, k, n)].st = "free"
                             /\ Used(t, n, Home(hash, k, n), d)
<1> DEFINE s == Home(hash, k, n)
           S == {d \in 0..n-1 : t[Ring(s, d, n)].st = "free"}
           First(d) == /\ t[Probed(k, d, n)].st = "free"
                       /\ \A e \in 0..d-1 : t[Probed(k, e, n)].st # "free"
           c == CHOOSE d \in 0..n-1 : First(d)
<1>1. PICK i \in 0..n-1 : t[i].st = "free"
  BY SomeFree
<1>2. n \in Nat \ {0} /\ s \in 0..n-1 /\ hash \in [Key -> Nat]
  BY TableParts DEF Table
<1>3. \A d \in 0..n-1 : Probed(k, d, n) = Ring(s, d, n)
  BY <1>2, ProbedIs
<1>4. \E d \in 0..n-1 : i = Ring(s, d, n)
  BY <1>2, RingOnto
<1> HIDE DEF s
<1>5. S # {} /\ S \in SUBSET Nat
  BY <1>1, <1>4
<1>6. PICK d \in S : \A e \in S : d <= e
  BY <1>5, LeastOf
<1>7. d \in 0..n-1 /\ First(d)
  BY <1>2, <1>3, <1>6
<1>8. c \in 0..n-1 /\ First(c)
  BY <1>7
<1>9. FirstFree(t, k, n) = Probed(k, c, n)
  BY DEF FirstFree
<1> HIDE DEF c
<1>10. FirstFree(t, k, n) = Ring(s, c, n) /\ t[FirstFree(t, k, n)].st = "free"
  BY <1>3, <1>8, <1>9
<1>11. ASSUME NEW e \in 0..n-1, e < c PROVE t[Ring(s, e, n)].st # "free"
  <2>1. e \in 0..c-1
    BY <1>8, <1>11
  <2> QED
    BY <2>1, <1>3, <1>8
<1> QED
  BY <1>8, <1>10, <1>11 DEF Used, s

\* One round of the loop of _resize, and all of it.
Fill(f, i, n) == IF i = 0 THEN [j \in 0..n-1 |-> FreeSlot] ELSE Moved(f[i - 1], slot[i - 1], n)
IsFill(f, n, c) == f = [i \in 0..c |-> Fill(f, i, n)]

\* The loop can be run.
LEMMA FillExists ==
    ASSUME NEW n \in Nat, NEW c \in Nat
    PROVE  \E f : IsFill(f, n, c)
<1> DEFINE T == {b \in Nat : \E f : IsFill(f, n, b)}
<1>1. 0 \in T
  <2> DEFINE f == [i \in 0..0 |-> [j \in 0..n-1 |-> FreeSlot]]
  <2>1. \A i \in 0..0 : f[i] = Fill(f, i, n)
    BY DEF Fill
  <2>2. IsFill(f, n, 0)
    BY <2>1 DEF IsFill
  <2> QED
    BY <2>2
<1>2. ASSUME NEW b \in Nat, b \in T PROVE b + 1 \in T
  <2>1. PICK f : IsFill(f, n, b)
    BY <1>2
  <2> DEFINE g == [i \in 0..b+1 |-> IF i = b + 1 THEN Moved(f[b], slot[b], n) ELSE f[i]]
  <2>2. \A i \in 0..b : f[i] = Fill(f, i, n)
    BY <2>1 DEF IsFill
  <2>3. g[b + 1] = Moved(f[b], slot[b], n) /\ \A i \in 0..b : g[i] = f[i]
    OBVIOUS
  <2>4. DOMAIN g = 0..b+1 /\ g = [i \in 0..b+1 |-> g[i]]
    OBVIOUS
  <2> HIDE DEF g
  <2>5. ASSUME NEW i \in 0..b+1 PROVE g[i] = Fill(g, i, n)
    <3>1. CASE i = b + 1
      BY <3>1, <2>3 DEF Fill
    <3>2. CASE i # b + 1
      <4>1. i \in 0..b /\ g[i] = f[i] /\ (i # 0 => i - 1 \in 0..b /\ g[i - 1] = f[i - 1])
        BY <3>2, <2>3
      <4> QED
        BY <4>1, <2>2 DEF Fill
    <3> QED
      BY <3>1, <3>2
  <2>6. IsFill(g, n, b + 1)
    BY <2>4, <2>5 DEF IsFill
  <2> QED
    BY <2>6
<1> HIDE DEF T
<1>3. Nat \subseteq T
  BY <1>1, <1>2, SetInduction
<1> QED
  BY <1>3 DEF T

\* The resize runs it.
LEMMA FillIs ==
    ASSUME NEW n \in Nat, cap \in Nat
    PROVE  \E f : IsFill(f, n, cap) /\ Resized(n) = f[cap]
<1> DEFINE g == CHOOSE f : IsFill(f, n, cap)
<1>1. IsFill(g, n, cap)
  BY FillExists
<1>2. Resized(n) = g[cap]
  BY DEF Resized, IsFill, Fill
<1> QED
  BY <1>1, <1>2

\* A key is in the map when it is in a slot.
LEMMA MapTells ==
    ASSUME NEW h, NEW t, NEW n, NEW m, Table(h, t, n, m), NEW k \in Key
    PROVE  HasKey(t, n, k) <=> MapOf(t, n)[k] # Absent
<1>1. CASE HasKey(t, n, k)
  <2>1. PICK i \in 0..n-1 : Holds(t[i], k)
    BY <1>1 DEF HasKey
  <2>2. MapOf(t, n)[k] = t[i].val
    BY <2>1, MapHolds DEF Table
  <2>3. t[i] \in Slot /\ t[i].st = "live"
    BY <2>1, TableParts DEF Holds
  <2> QED
    BY <1>1, <2>2, <2>3, SlotParts
<1>2. CASE ~HasKey(t, n, k)
  BY <1>2, MapLacks
<1> QED
  BY <1>1, <1>2

\* The entries of the first i slots.
Part(t, n, i) == [j \in 0..n-1 |-> IF j < i THEN t[j] ELSE FreeSlot]

\* All the slots, and none.
LEMMA PartEnds ==
    ASSUME NEW n \in Nat, NEW t \in [0..n-1 -> Slot]
    PROVE  Part(t, n, n) = t /\ Part(t, n, 0) = [j \in 0..n-1 |-> FreeSlot]
<1>1. \A j \in 0..n-1 : j < n /\ ~(j < 0)
  OBVIOUS
<1> QED
  BY <1>1 DEF Part

\* A key is in the first slots when one of them holds it.
LEMMA PartHolds ==
    ASSUME NEW n \in Nat, NEW t, NEW i, NEW k, NEW j \in 0..n-1
    PROVE  Holds(Part(t, n, i)[j], k) <=> j < i /\ Holds(t[j], k)
BY DEF Part, Holds, FreeSlot

\* No key has two entries among them.
LEMMA PartUnique ==
    ASSUME NEW n \in Nat, NEW t, NEW i, Unique(t, n)
    PROVE  Unique(Part(t, n, i), n)
<1> SUFFICES ASSUME NEW a \in 0..n-1, NEW b \in 0..n-1, NEW k,
                    Holds(Part(t, n, i)[a], k), Holds(Part(t, n, i)[b], k)
             PROVE  a = b
  BY DEF Unique
<1>1. Holds(t[a], k) /\ Holds(t[b], k)
  BY PartHolds
<1>2. Holds(t[a], t[a].key) /\ Holds(t[b], t[a].key)
  BY <1>1 DEF Holds
<1> QED
  BY <1>2 DEF Unique

\* What the map of the first slots says.
LEMMA PartMap ==
    ASSUME NEW n \in Nat, NEW t, NEW i, Unique(t, n), NEW k \in Key
    PROVE  /\ \A j \in 0..n-1 : j < i /\ Holds(t[j], k) => MapOf(Part(t, n, i), n)[k] = t[j].val
           /\ (\A j \in 0..n-1 : ~(j < i /\ Holds(t[j], k))) => MapOf(Part(t, n, i), n)[k] = Absent
<1> DEFINE p == Part(t, n, i)
<1>1. Unique(p, n)
  BY PartUnique
<1>2. ASSUME NEW j \in 0..n-1, j < i, Holds(t[j], k) PROVE MapOf(p, n)[k] = t[j].val
  <2>1. Holds(p[j], k) /\ p[j] = t[j]
    BY <1>2, PartHolds DEF Part
  <2> HIDE DEF p
  <2> QED
    BY <1>1, <2>1, MapHolds
<1>3. ASSUME \A j \in 0..n-1 : ~(j < i /\ Holds(t[j], k)) PROVE MapOf(p, n)[k] = Absent
  <2>1. ~HasKey(p, n, k)
    BY <1>3, PartHolds DEF HasKey
  <2> HIDE DEF p
  <2> QED
    BY <2>1, MapLacks
<1> QED
  BY <1>2, <1>3

\* One more slot, with an entry.
LEMMA PartAdds ==
    ASSUME NEW n \in Nat, NEW t \in [0..n-1 -> Slot], Unique(t, n), NEW i \in 0..n-1, t[i].st = "live"
    PROVE  /\ MapOf(Part(t, n, i), n)[t[i].key] = Absent
           /\ MapOf(Part(t, n, i + 1), n) = [MapOf(Part(t, n, i), n) EXCEPT ![t[i].key] = t[i].val]
           /\ Cardinality(Lives(Part(t, n, i + 1), n)) = Cardinality(Lives(Part(t, n, i), n)) + 1
<1> DEFINE p == Part(t, n, i)
           q == Part(t, n, i + 1)
           k == t[i].key
<1>1. k \in Key /\ Holds(t[i], k) /\ \A j \in 0..n-1 : Holds(t[j], k) => j = i
  BY SlotParts DEF Unique, Holds
<1>2. MapOf(p, n)[k] = Absent
  BY <1>1, PartMap
<1>3. ASSUME NEW l \in Key PROVE MapOf(q, n)[l] = [MapOf(p, n) EXCEPT ![k] = t[i].val][l]
  <2>1. DOMAIN MapOf(p, n) = Key
    BY DEF MapOf
  <2>2. CASE l = k
    <3>1. k \in Key /\ Holds(t[i], k) /\ i < i + 1 /\ i + 1 \in Nat
      BY <1>1
    <3>2. \A j \in 0..n-1 : j < i + 1 /\ Holds(t[j], k) => MapOf(q, n)[k] = t[j].val
      BY <3>1, PartMap
    <3>3. MapOf(q, n)[k] = t[i].val
      <4> HIDE DEF q, k
      <4> QED
        BY <3>1, <3>2
    <3> HIDE DEF p, q, k
    <3> QED
      BY <3>3, <2>1, <2>2
  <2>3. CASE l # k
    <3>1. ~Holds(t[i], l)
      BY <2>3 DEF Holds
    <3>2. MapOf(q, n)[l] = MapOf(p, n)[l]
      <4>1. CASE \E j \in 0..n-1 : j < i /\ Holds(t[j], l)
        BY <4>1, PartMap
      <4>2. CASE \A j \in 0..n-1 : ~(j < i /\ Holds(t[j], l))
        <5>1. \A j \in 0..n-1 : ~(j < i + 1 /\ Holds(t[j], l))
          BY <4>2, <3>1
        <5> QED
          BY <5>1, <4>2, PartMap
      <4> QED
        BY <4>1, <4>2
    <3> HIDE DEF p, q, k
    <3> QED
      BY <3>2, <2>1, <2>3
  <2> QED
    BY <2>2, <2>3
<1>4. MapOf(q, n) = [MapOf(p, n) EXCEPT ![k] = t[i].val]
  BY <1>3 DEF MapOf
<1>5. Lives(q, n) = Lives(p, n) \cup {i} /\ i \notin Lives(p, n)
  BY DEF Lives, Part, FreeSlot
<1>6. IsFiniteSet(Lives(p, n))
  BY LivesFinite
<1> HIDE DEF p, q, k
<1>7. Cardinality(Lives(q, n)) = Cardinality(Lives(p, n)) + 1
  BY <1>5, <1>6, FS_AddElement
<1> QED
  BY <1>2, <1>4, <1>7 DEF p, q, k

\* One more slot, without an entry.
LEMMA PartSkips ==
    ASSUME NEW n \in Nat, NEW t \in [0..n-1 -> Slot], Unique(t, n), NEW i \in 0..n-1, t[i].st # "live"
    PROVE  /\ MapOf(Part(t, n, i + 1), n) = MapOf(Part(t, n, i), n)
           /\ Lives(Part(t, n, i + 1), n) = Lives(Part(t, n, i), n)
<1>1. ASSUME NEW l \in Key PROVE MapOf(Part(t, n, i + 1), n)[l] = MapOf(Part(t, n, i), n)[l]
  <2>1. \A j \in 0..n-1 : j < i + 1 /\ Holds(t[j], l) <=> j < i /\ Holds(t[j], l)
    BY DEF Holds
  <2> QED
    BY <2>1, PartMap
<1>2. MapOf(Part(t, n, i + 1), n) = MapOf(Part(t, n, i), n)
  BY <1>1 DEF MapOf
<1>3. Lives(Part(t, n, i + 1), n) = Lives(Part(t, n, i), n)
  BY DEF Lives, Part, FreeSlot
<1> QED
  BY <1>2, <1>3

\* What the loop of _resize has made of the first i slots.
Filled(t, i, n) ==
    /\ Table(hash, t, n, Cardinality(Lives(Part(slot, cap, i), cap)))
    /\ \A j \in 0..n-1 : t[j].st # "dead"
    /\ MapOf(t, n) = MapOf(Part(slot, cap, i), cap)

\* A round of the loop takes one entry over.
LEMMA FillRound ==
    ASSUME Table(hash, slot, cap, len), NEW n \in Nat, cap < n, NEW i \in 0..cap-1,
           NEW t, Filled(t, i, n)
    PROVE  Filled(Moved(t, slot[i], n), i + 1, n)
<1> DEFINE p == Part(slot, cap, i)
           m == Cardinality(Lives(p, cap))
           k == slot[i].key
           v == slot[i].val
<1>1. cap \in Nat /\ slot \in [0..cap-1 -> Slot] /\ Unique(slot, cap) /\ slot[i] \in Slot
  BY DEF Table
<1>2. CASE slot[i].st # "live"
  <2>1. Moved(t, slot[i], n) = t
    BY <1>2 DEF Moved
  <2> QED
    BY <2>1, <1>1, <1>2, PartSkips DEF Filled
<1>3. CASE slot[i].st = "live"
  <2>1. k \in Key /\ v \in Datum /\ slot[i] = LiveSlot(k, v)
    BY <1>1, <1>3 DEF Slot, LiveSlot, FreeSlot, DeadSlot
  <2>2. /\ MapOf(p, cap)[k] = Absent
        /\ MapOf(Part(slot, cap, i + 1), cap) = [MapOf(p, cap) EXCEPT ![k] = v]
        /\ Cardinality(Lives(Part(slot, cap, i + 1), cap)) = m + 1
    BY <1>1, <1>3, PartAdds
  <2>3. m < n
    <3>1. m \in 0..cap
      BY <1>1, LivesFinite
    <3> QED
      BY <3>1, <1>1
  <2>4. Table(hash, t, n, m) /\ MapOf(t, n) = MapOf(p, cap) /\ \A j \in 0..n-1 : t[j].st # "dead"
    BY DEF Filled
  <2> HIDE DEF p, m, k, v
  <2>5. ~HasKey(t, n, k)
    BY <2>1, <2>2, <2>4, MapTells
  <2>6. PICK d \in 0..n-1 : /\ FirstFree(t, k, n) = Ring(Home(hash, k, n), d, n)
                            /\ t[FirstFree(t, k, n)].st = "free"
                            /\ Used(t, n, Home(hash, k, n), d)
    BY <2>1, <2>3, <2>4, FirstFreeIs
  <2> DEFINE u == [t EXCEPT ![FirstFree(t, k, n)] = LiveSlot(k, v)]
  <2>7. Table(hash, u, n, m + 1) /\ MapOf(u, n) = [MapOf(t, n) EXCEPT ![k] = v]
    BY <2>1, <2>4, <2>5, <2>6, AddsEntry
  <2>8. Moved(t, slot[i], n) = u
    BY <1>3, <2>1 DEF Moved, k
  <2>9. \A j \in 0..n-1 : u[j].st # "dead"
    <3>1. LiveSlot(k, v).st = "live" /\ DOMAIN t = 0..n-1
      BY <2>1, <2>4, LiveHolds, TableParts
    <3> QED
      BY <3>1, <2>4
  <2> HIDE DEF u
  <2> QED
    BY <2>2, <2>4, <2>7, <2>8, <2>9 DEF Filled
<1> QED
  BY <1>2, <1>3

\* The larger table has the same entries, each where it is found.
LEMMA ResizeKeeps ==
    ASSUME Table(hash, slot, cap, len), NEW n \in Nat, cap < n
    PROVE  /\ Table(hash, Resized(n), n, len) /\ MapOf(Resized(n), n) = MapOf(slot, cap)
           /\ \A i \in 0..n-1 : Resized(n)[i].st # "dead"
<1>1. cap \in Nat /\ slot \in [0..cap-1 -> Slot] /\ hash \in [Key -> Nat]
      /\ len = Cardinality(Lives(slot, cap))
  BY DEF Table
<1>2. PICK f : IsFill(f, n, cap) /\ Resized(n) = f[cap]
  BY <1>1, FillIs
<1>3. \A i \in 0..cap : f[i] = Fill(f, i, n)
  BY <1>2 DEF IsFill
<1> DEFINE T == {i \in Nat : i <= cap => Filled(f[i], i, n)}
<1>4. 0 \in T
  <2> DEFINE t == [j \in 0..n-1 |-> FreeSlot]
             p == [j \in 0..cap-1 |-> FreeSlot]
  <2>1. f[0] = t
    BY <1>1, <1>3 DEF Fill
  <2>2. Part(slot, cap, 0) = p
    BY <1>1, PartEnds
  <2>3. Table(hash, t, n, 0) /\ MapOf(t, n) = [k \in Key |-> Absent]
    BY <1>1, NoEntries
  <2>4. Table(hash, p, cap, 0) /\ MapOf(p, cap) = [k \in Key |-> Absent]
    BY <1>1, NoEntries
  <2>5. \A j \in 0..n-1 : t[j].st # "dead"
    BY DEF FreeSlot
  <2>6. Cardinality(Lives(p, cap)) = 0
    BY <2>4 DEF Table
  <2> HIDE DEF t, p
  <2>7. Filled(f[0], 0, n)
    BY <2>1, <2>2, <2>3, <2>4, <2>5, <2>6 DEF Filled
  <2> QED
    BY <2>7
<1>5. ASSUME NEW i \in Nat, i \in T PROVE i + 1 \in T
  <2> SUFFICES ASSUME i + 1 <= cap PROVE Filled(f[i + 1], i + 1, n)
    OBVIOUS
  <2>1. i \in 0..cap-1 /\ Filled(f[i], i, n) /\ i + 1 \in 0..cap /\ i + 1 # 0 /\ (i + 1) - 1 = i
    BY <1>1, <1>5
  <2>2. f[i + 1] = Moved(f[i], slot[i], n)
    BY <2>1, <1>3 DEF Fill
  <2> QED
    BY <2>1, <2>2, FillRound
<1> HIDE DEF T
<1>6. Nat \subseteq T
  BY <1>4, <1>5, SetInduction
<1>7. Filled(f[cap], cap, n)
  BY <1>1, <1>6 DEF T
<1>8. Part(slot, cap, cap) = slot
  BY <1>1, PartEnds
<1> QED
  BY <1>1, <1>2, <1>7, <1>8 DEF Filled

-----------------------------------------------------------------------------
(* The calls *)

\* A search for k that began at s and is at i has passed used slots without k.
Past(t, n, s, i, k) ==
    \E d \in 0..n-1 : /\ i = Ring(s, d, n)
                      /\ \A e \in 0..n-1 : e < d => /\ t[Ring(s, e, n)].st # "free"
                                                    /\ ~Holds(t[Ring(s, e, n)], k)

\* A search for a place that began at s and is at i has passed entries.
PastLive(t, n, s, i) ==
    \E d \in 0..n-1 : /\ i = Ring(s, d, n)
                      /\ \A e \in 0..n-1 : e < d => t[Ring(s, e, n)].st = "live"

\* The entries of the first i slots.
Visited(t, i) == {<<t[j].key, t[j].val>> : j \in {j \in 0..i-1 : t[j].st = "live"}}

\* How far the call c has come at a, in the table t of n slots.
Progress(h, t, n, c, a) ==
    /\ a.step \in {"put", "find", "place"} => n # 0 /\ c.key \in Key /\ a.start = Home(h, c.key, n)
    /\ a.step = "put" => c.op = "put" /\ Past(t, n, a.start, a.idx, c.key)
    /\ a.step = "find" => /\ c.op \in {"get", "remove", "has", "discard", "add"}
                          /\ Past(t, n, a.start, a.idx, c.key)
    /\ a.step = "place" => /\ c.op = "add" /\ ~HasKey(t, n, c.key)
                           /\ PastLive(t, n, a.start, a.idx)
    /\ a.step = "visit" => c.op = "entries" /\ a.idx <= n /\ a.seen = Visited(t, a.idx)

Position == [step : {"idle", "begin", "put", "find", "place", "visit"}, idx : Nat, start : Nat,
          seen : SUBSET (Key \X Datum)]

Calls(kd) == IF kd = "map" THEN MapCall ELSE SetCall

\* A set stores keys as their own values.
Own(kd, map) == kd = "set" => \A k \in Key : map[k] \in {k, Absent}

\* The invariant.
IInv == /\ kind \in {"map", "set"} /\ Own(kind, MapOf(slot, cap))
        /\ Table(hash, slot, cap, len)
        /\ call \in Calls(kind) \cup {NoCall}
        /\ at \in Position
        /\ Progress(hash, slot, cap, call, at)

\* Calls with a key have one, and a value that is not Absent.
LEMMA CallParts ==
    ASSUME NEW kd \in {"map", "set"}, NEW c \in Calls(kd) \cup {NoCall}
    PROVE  /\ c.op \in {"put", "add", "get", "has", "remove", "discard"} => c.key \in Key
           /\ c.op \in {"put", "add"} => c.val \in Datum
           /\ c.op = "add" => c.val = c.key /\ kd = "set"
           /\ kd = "set" => c.op # "put"
           /\ c # NoCall => c.op \in {"put", "add", "get", "has", "remove", "discard", "entries",
                                      "clear", "free"}
BY DEF Calls, MapCall, SetCall, NoCall, Datum

\* A search has passed nothing at its start.
LEMMA PastStart ==
    ASSUME NEW t, NEW n \in Nat \ {0}, NEW s \in 0..n-1, NEW k
    PROVE  Past(t, n, s, s, k)
<1>1. 0 \in 0..n-1 /\ s = Ring(s, 0, n) /\ \A e \in 0..n-1 : ~(e < 0)
  BY DEF Ring
<1> QED
  BY <1>1 DEF Past

\* Nor has a search for a place.
LEMMA PastLiveStart ==
    ASSUME NEW t, NEW n \in Nat \ {0}, NEW s \in 0..n-1
    PROVE  PastLive(t, n, s, s)
<1>1. 0 \in 0..n-1 /\ s = Ring(s, 0, n) /\ \A e \in 0..n-1 : ~(e < 0)
  BY DEF Ring
<1> QED
  BY <1>1 DEF PastLive

\* A search that goes on has passed one more slot, and all of them when it is back.
LEMMA PastNext ==
    ASSUME NEW t, NEW n \in Nat \ {0}, NEW s \in 0..n-1, NEW i, NEW k, Past(t, n, s, i, k),
           t[i].st # "free", ~Holds(t[i], k)
    PROVE  /\ Past(t, n, s, (i + 1) % n, k) /\ (i + 1) % n \in Nat
           /\ (i + 1) % n = s => \A e \in 0..n-1 : ~Holds(t[Ring(s, e, n)], k)
<1>1. PICK d \in 0..n-1 : /\ i = Ring(s, d, n)
                          /\ \A e \in 0..n-1 : e < d => /\ t[Ring(s, e, n)].st # "free"
                                                        /\ ~Holds(t[Ring(s, e, n)], k)
  BY DEF Past
<1>2. \A e \in 0..n-1 : e < d + 1 => t[Ring(s, e, n)].st # "free" /\ ~Holds(t[Ring(s, e, n)], k)
  <2> SUFFICES ASSUME NEW e \in 0..n-1, e < d + 1
               PROVE  t[Ring(s, e, n)].st # "free" /\ ~Holds(t[Ring(s, e, n)], k)
    OBVIOUS
  <2>1. e < d \/ e = d
    OBVIOUS
  <2> QED
    BY <2>1, <1>1
<1>3. CASE d + 1 < n
  <2>1. (i + 1) % n = Ring(s, d + 1, n) /\ d + 1 \in 0..n-1
    BY <1>1, <1>3, RingNext
  <2>2. Ring(s, d + 1, n) \in 0..n-1
    BY <2>1, RingIs
  <2>3. Ring(s, d + 1, n) # s
    BY <1>3 DEF Ring
  <2> QED
    BY <1>2, <2>1, <2>2, <2>3 DEF Past
<1>4. CASE d + 1 = n
  <2>1. (i + 1) % n = s
    BY <1>1, <1>4, RingNext
  <2>2. \A e \in 0..n-1 : e < d + 1
    BY <1>4
  <2> QED
    BY <1>2, <2>1, <2>2, PastStart
<1> QED
  BY <1>3, <1>4

\* So has a search for a place.
LEMMA PastLiveNext ==
    ASSUME NEW t, NEW n \in Nat \ {0}, NEW s \in 0..n-1, NEW i, PastLive(t, n, s, i), t[i].st = "live"
    PROVE  PastLive(t, n, s, (i + 1) % n) /\ (i + 1) % n \in Nat
<1>1. PICK d \in 0..n-1 : i = Ring(s, d, n) /\ \A e \in 0..n-1 : e < d => t[Ring(s, e, n)].st = "live"
  BY DEF PastLive
<1>2. \A e \in 0..n-1 : e < d + 1 => t[Ring(s, e, n)].st = "live"
  <2> SUFFICES ASSUME NEW e \in 0..n-1, e < d + 1 PROVE t[Ring(s, e, n)].st = "live"
    OBVIOUS
  <2>1. e < d \/ e = d
    OBVIOUS
  <2> QED
    BY <2>1, <1>1
<1>3. CASE d + 1 < n
  <2>1. (i + 1) % n = Ring(s, d + 1, n) /\ d + 1 \in 0..n-1
    BY <1>1, <1>3, RingNext
  <2>2. Ring(s, d + 1, n) \in 0..n-1
    BY <2>1, RingIs
  <2> QED
    BY <1>2, <2>1, <2>2 DEF PastLive
<1>4. CASE d + 1 = n
  <2>1. (i + 1) % n = s
    BY <1>1, <1>4, RingNext
  <2> QED
    BY <2>1, PastLiveStart
<1> QED
  BY <1>3, <1>4

\* Contents is what the table stands for.
LEMMA ContentsIs == Contents = MapOf(slot, cap)
BY DEF Contents, MapOf, HasKey, Index

\* The invariant at the start.
LEMMA InvInit == TableInit => IInv /\ Promise!Init
<1> SUFFICES ASSUME TableInit PROVE IInv /\ Promise!Init
  OBVIOUS
<1>1. hash \in [Key -> Nat] /\ slot = <<>> /\ cap = 0 /\ len = 0 /\ call = NoCall /\ at = Idle
      /\ answer = {} /\ kind \in {"map", "set"}
  BY HashAssumption DEF TableInit
<1>2. slot = [i \in 0..0-1 |-> FreeSlot]
  BY <1>1, NoTable
<1>3. Table(hash, slot, cap, len) /\ MapOf(slot, cap) = [k \in Key |-> Absent]
  BY <1>1, <1>2, NoEntries
<1>4. at \in Position /\ at.step = "idle"
  BY <1>1 DEF Idle, Position
<1>5. Progress(hash, slot, cap, call, at)
  BY <1>4 DEF Progress
<1>6. Own(kind, MapOf(slot, cap))
  BY <1>3 DEF Own
<1>7. IInv
  BY <1>1, <1>3, <1>4, <1>5, <1>6 DEF IInv
<1> QED
  BY <1>1, <1>3, <1>7, ContentsIs DEF Promise!Init

-----------------------------------------------------------------------------
(* What FiniteMap promises of a call *)

\* The map after the call.
LEMMA AfterIs ==
    ASSUME IInv
    PROVE  /\ call.op \in {"put", "add"} =>
                  Promise!After(call) = [MapOf(slot, cap) EXCEPT ![call.key] = call.val]
           /\ call.op \in {"remove", "discard"} =>
                  Promise!After(call) = [MapOf(slot, cap) EXCEPT ![call.key] = Absent]
           /\ call.op \in {"clear", "free"} => Promise!After(call) = [k \in Key |-> Absent]
           /\ call.op \in {"get", "has", "entries"} => Promise!After(call) = MapOf(slot, cap)
<1>1. Contents = MapOf(slot, cap)
  BY ContentsIs
<1>2. call.op \in {"put", "add"} => Promise!After(call) = [Contents EXCEPT ![call.key] = call.val]
  BY DEF Promise!After
<1>3. call.op \in {"remove", "discard"} => Promise!After(call) = [Contents EXCEPT ![call.key] = Absent]
  BY DEF Promise!After
<1>4. call.op \in {"clear", "free"} => Promise!After(call) = [k \in Key |-> Absent]
  BY DEF Promise!After
<1>5. call.op \in {"get", "has", "entries"} => Promise!After(call) = Contents
  BY DEF Promise!After
<1> QED
  BY <1>1, <1>2, <1>3, <1>4, <1>5

\* What the call returns.
LEMMA AnswerIs ==
    ASSUME IInv
    PROVE  /\ call.op \in {"put", "remove", "clear", "free"} => Promise!Answer(call) = {}
           /\ call.op \in {"has", "discard"} =>
                  Promise!Answer(call) = IF HasKey(slot, cap, call.key) THEN {call.key} ELSE {}
           /\ call.op = "add" =>
                  Promise!Answer(call) = IF HasKey(slot, cap, call.key) THEN {} ELSE {call.key}
           /\ call.op = "get" =>
                  Promise!Answer(call) = IF HasKey(slot, cap, call.key)
                                         THEN {MapOf(slot, cap)[call.key]} ELSE {}
           /\ call.op = "entries" =>
                  Promise!Answer(call) = {<<k, MapOf(slot, cap)[k]>> :
                                             k \in {k \in Key : HasKey(slot, cap, k)}}
<1>1. Promise!Present = {k \in Key : HasKey(slot, cap, k)}
  <2>1. \A k \in Key : HasKey(slot, cap, k) <=> MapOf(slot, cap)[k] # Absent
    BY MapTells DEF IInv
  <2> QED
    BY <2>1, ContentsIs DEF Promise!Present
<1>2. call.op \in {"put", "remove", "clear", "free"} => Promise!Answer(call) = {}
  BY DEF Promise!Answer
<1>3. call.op \in {"has", "discard", "add", "get"} => call.key \in Key
  BY CallParts DEF IInv
<1>4. call.op \in {"has", "discard"} => Promise!Answer(call) = {call.key} \cap Promise!Present
  BY DEF Promise!Answer
<1>5. call.op = "add" => Promise!Answer(call) = {call.key} \ Promise!Present
  BY DEF Promise!Answer
<1>6. call.op = "get" => Promise!Answer(call) = {MapOf(slot, cap)[call.key]} \ {Absent}
  BY ContentsIs DEF Promise!Answer
<1>7. call.op = "entries" => Promise!Answer(call) = {<<k, MapOf(slot, cap)[k]>> : k \in Promise!Present}
  BY ContentsIs DEF Promise!Answer
<1>8. call.op = "get" => (HasKey(slot, cap, call.key) <=> MapOf(slot, cap)[call.key] # Absent)
  BY <1>3, MapTells DEF IInv
<1> QED
  BY <1>1, <1>2, <1>3, <1>4, <1>5, <1>6, <1>7, <1>8

\* A set stays a set.
LEMMA StaysOwn ==
    ASSUME IInv, call # NoCall
    PROVE  Own(kind, Promise!After(call))
<1> SUFFICES ASSUME kind = "set", NEW k \in Key
             PROVE  Promise!After(call)[k] \in {k, Absent}
  BY DEF Own
<1>1. MapOf(slot, cap)[k] \in {k, Absent} /\ DOMAIN MapOf(slot, cap) = Key
  BY DEF IInv, Own, MapOf
<1>2. /\ call.op \in {"add", "get", "has", "remove", "discard", "entries", "clear", "free"}
      /\ call.op = "add" => call.val = call.key
  BY CallParts DEF IInv
<1>3. CASE call.op = "add"
  BY <1>1, <1>2, <1>3, AfterIs
<1>4. CASE call.op \in {"remove", "discard"}
  BY <1>1, <1>4, AfterIs
<1>5. CASE call.op \in {"clear", "free"}
  BY <1>5, AfterIs
<1>6. CASE call.op \in {"get", "has", "entries"}
  BY <1>1, <1>6, AfterIs
<1> QED
  BY <1>2, <1>3, <1>4, <1>5, <1>6

\* A call that leaves the map and says what it should is a response.
LEMMA Responds ==
    ASSUME IInv, call # NoCall, NEW r, Return(r), NEW m, Table(hash, slot', cap', m), len' = m,
           MapOf(slot', cap') = Promise!After(call), r = Promise!Answer(call)
    PROVE  IInv' /\ Promise!Respond
<1>1. hash' = hash /\ kind' = kind /\ call' = NoCall /\ at' = Idle /\ answer' = r
  BY DEF Return
<1>2. Table(hash', slot', cap', len')
  BY <1>1
<1>3. at' \in Position /\ at'.step = "idle"
  BY <1>1 DEF Idle, Position
<1>4. Progress(hash', slot', cap', call', at')
  BY <1>3 DEF Progress
<1>5. IInv'
  <2>1. Own(kind', MapOf(slot', cap'))
    BY <1>1, StaysOwn
  <2> QED
    BY <1>1, <1>2, <1>3, <1>4, <2>1 DEF IInv
<1>6. Contents' = MapOf(slot', cap')
  BY DEF Contents, MapOf, HasKey, Index
<1> QED
  BY <1>1, <1>5, <1>6 DEF Promise!Respond

\* A step within a call is none of the map.
LEMMA Stutters ==
    ASSUME IInv, NEW a, Continue(a), NEW m, Table(hash, slot', cap', m), len' = m,
           MapOf(slot', cap') = MapOf(slot, cap), a \in Position, Progress(hash, slot', cap', call, a)
    PROVE  IInv' /\ UNCHANGED <<Contents, call, answer>>
<1>1. hash' = hash /\ kind' = kind /\ call' = call /\ at' = a /\ answer' = answer
  BY DEF Continue
<1>2. Table(hash', slot', cap', len') /\ Progress(hash', slot', cap', call', at')
  BY <1>1
<1>3. IInv'
  <2>1. Own(kind', MapOf(slot', cap'))
    BY <1>1 DEF IInv
  <2> QED
    BY <1>1, <1>2, <2>1 DEF IInv
<1>4. Contents' = MapOf(slot', cap')
  BY DEF Contents, MapOf, HasKey, Index
<1> QED
  BY <1>1, <1>3, <1>4, ContentsIs

\* A call is made.
LEMMA InvokeStep ==
    ASSUME IInv, NEW c \in Calls(kind), Invoke(c)
    PROVE  IInv' /\ Promise!Invoke(c)
<1>1. call = NoCall /\ call' = c /\ answer' = {} /\ hash' = hash /\ kind' = kind /\ slot' = slot /\ cap' = cap
      /\ len' = len /\ at' = [Idle EXCEPT !.step = "begin"]
  BY DEF Invoke, table
<1>2. at' \in Position /\ at'.step = "begin"
  BY <1>1 DEF Idle, Position
<1>3. Progress(hash', slot', cap', call', at')
  BY <1>2 DEF Progress
<1>4. Table(hash', slot', cap', len')
  BY <1>1 DEF IInv
<1>5. IInv'
  <2>1. Own(kind', MapOf(slot', cap'))
    BY <1>1 DEF IInv
  <2> QED
    BY <1>1, <1>2, <1>3, <1>4, <2>1 DEF IInv
<1>6. Contents' = Contents
  BY <1>1 DEF Contents, Index
<1> QED
  BY <1>1, <1>5, <1>6 DEF Promise!Invoke

\* The table has room, grown or not, and the search begins.
LEMMA GrowStep ==
    ASSUME IInv, call.key \in Key, NEW step, Grow(step)
    PROVE  /\ Table(hash, slot', cap', len) /\ len' = len /\ cap' \in Nat \ {0}
           /\ MapOf(slot', cap') = MapOf(slot, cap)
           /\ Continue(Probe(step, Home(hash, call.key, cap')))
           /\ Home(hash, call.key, cap') \in 0..cap'-1
<1>1. cap \in Nat /\ hash \in [Key -> Nat] /\ Table(hash, slot, cap, len) /\ len \in Nat
  <2>1. Table(hash, slot, cap, len) /\ cap \in Nat /\ hash \in [Key -> Nat]
    BY DEF IInv, Table
  <2>2. len \in 0..cap
    BY <2>1, LivesFinite DEF Table
  <2> QED
    BY <2>1, <2>2
<1>2. FirstCap \in Nat \ {0}
  BY HashAssumption
<1>3. Larger \in Nat \ {0} /\ cap < Larger
  BY <1>1, <1>2 DEF Larger
<1>4. /\ Table(hash, slot', cap', len) /\ len' = len /\ cap' \in Nat \ {0}
      /\ MapOf(slot', cap') = MapOf(slot, cap)
  <2>1. CASE Crowded
    <3>1. slot' = Resized(Larger) /\ cap' = Larger /\ len' = len
      BY <2>1 DEF Grow
    <3> QED
      BY <3>1, <1>1, <1>3, ResizeKeeps
  <2>2. CASE ~Crowded
    <3>1. slot' = slot /\ cap' = cap /\ len' = len
      BY <2>2 DEF Grow, table
    <3>2. cap # 0
      BY <2>2, <1>1 DEF Crowded
    <3> QED
      BY <3>1, <3>2, <1>1
  <2> QED
    BY <2>1, <2>2
<1>5. Continue(Probe(step, Start(call.key, cap')))
  BY DEF Grow
<1>6. Start(call.key, cap') = Home(hash, call.key, cap')
  BY DEF Start, Home
<1>7. Home(hash, call.key, cap') \in 0..cap'-1
  BY <1>4, TableParts
<1> QED
  BY <1>4, <1>5, <1>6, <1>7

-----------------------------------------------------------------------------
(* The steps of the calls *)

\* A probe begins where the hash says.
LEMMA ProbeIs ==
    ASSUME NEW step \in {"put", "find", "place", "visit"}, NEW s \in Nat
    PROVE  /\ Probe(step, s) \in Position /\ Probe(step, s).step = step
           /\ Probe(step, s).idx = s /\ Probe(step, s).start = s /\ Probe(step, s).seen = {}
BY DEF Probe, Position

\* Calls that look for a key that is not there return nothing.
LEMMA LacksReturns ==
    ASSUME IInv, call # NoCall, call.op \in {"get", "remove", "has", "discard"}, call.key \in Key,
           ~HasKey(slot, cap, call.key), Return({}), UNCHANGED table
    PROVE  IInv' /\ Promise!Respond
<1>1. Table(hash, slot', cap', len) /\ len' = len /\ slot' = slot /\ cap' = cap
  BY DEF table, IInv
<1>2. MapOf(slot, cap)[call.key] = Absent
  BY MapLacks
<1>3. MapOf(slot, cap) = [MapOf(slot, cap) EXCEPT ![call.key] = Absent]
  <2>1. DOMAIN MapOf(slot, cap) = Key /\ MapOf(slot, cap) = [l \in Key |-> MapOf(slot, cap)[l]]
    BY DEF MapOf
  <2> QED
    BY <1>2, <2>1
<1>4. MapOf(slot', cap') = Promise!After(call)
  BY <1>1, <1>3, AfterIs
<1>5. {} = Promise!Answer(call)
  BY AnswerIs
<1> QED
  BY <1>1, <1>4, <1>5, Responds

\* The load is checked, and the search of a put begins.
LEMMA GrowsToPut ==
    ASSUME IInv, call.op = "put", call.key \in Key, Grow("put")
    PROVE  IInv' /\ UNCHANGED <<Contents, call, answer>>
<1> DEFINE s == Home(hash, call.key, cap')
           a == Probe("put", s)
<1>1. /\ Table(hash, slot', cap', len) /\ len' = len /\ cap' \in Nat \ {0}
      /\ MapOf(slot', cap') = MapOf(slot, cap)
      /\ Continue(a) /\ s \in 0..cap'-1
  BY GrowStep
<1>2. a \in Position /\ a.step = "put" /\ a.idx = s /\ a.start = s
  BY <1>1, ProbeIs
<1>3. Past(slot', cap', s, s, call.key)
  BY <1>1, PastStart
<1> HIDE DEF a
<1>4. Progress(hash, slot', cap', call, a)
  BY <1>1, <1>2, <1>3 DEF Progress
<1> QED
  BY <1>1, <1>2, <1>4, Stutters

\* The load is checked, and the search of an add for a place begins: the key is not there.
LEMMA GrowsToPlace ==
    ASSUME IInv, call.op = "add", call.key \in Key, ~HasKey(slot, cap, call.key), Grow("place")
    PROVE  IInv' /\ UNCHANGED <<Contents, call, answer>>
<1> DEFINE s == Home(hash, call.key, cap')
           a == Probe("place", s)
<1>1. /\ Table(hash, slot', cap', len) /\ len' = len /\ cap' \in Nat \ {0}
      /\ MapOf(slot', cap') = MapOf(slot, cap)
      /\ Continue(a) /\ s \in 0..cap'-1
  BY GrowStep
<1>2. a \in Position /\ a.step = "place" /\ a.idx = s /\ a.start = s
  BY <1>1, ProbeIs
<1>3. PastLive(slot', cap', s, s)
  BY <1>1, PastLiveStart
<1>4. ~HasKey(slot', cap', call.key)
  <2>1. MapOf(slot', cap')[call.key] = Absent
    BY <1>1, MapLacks
  <2> QED
    BY <2>1, <1>1, MapTells
<1> HIDE DEF a
<1>5. Progress(hash, slot', cap', call, a)
  BY <1>1, <1>2, <1>3, <1>4 DEF Progress
<1> QED
  BY <1>1, <1>2, <1>5, Stutters

\* A call begins.
LEMMA BeginStep ==
    ASSUME IInv, Begin
    PROVE  IInv' /\ (Promise!Respond \/ UNCHANGED <<Contents, call, answer>>)
<1>1. call # NoCall /\ Table(hash, slot, cap, len) /\ cap \in Nat /\ hash \in [Key -> Nat]
  BY DEF Begin, Doing, IInv, Table
<1>2. cap = 0 => \A k : ~HasKey(slot, cap, k)
  BY <1>1 DEF HasKey
<1>3. call.op \in {"put", "add", "get", "has", "remove", "discard"} => call.key \in Key
  BY CallParts DEF IInv
<1>4. CASE call.op = "put" /\ Grow("put")
  BY <1>3, <1>4, GrowsToPut
<1>5. CASE call.op = "add" /\ cap = 0 /\ Grow("place")
  BY <1>2, <1>3, <1>5, GrowsToPlace
<1>6. CASE call.op \in {"get", "remove", "has", "discard"} /\ cap = 0 /\ Return({}) /\ UNCHANGED table
  BY <1>1, <1>2, <1>3, <1>6, LacksReturns
<1>7. CASE /\ call.op \in {"get", "remove", "has", "discard", "add"} /\ cap > 0
           /\ Continue(Probe("find", Start(call.key, cap))) /\ UNCHANGED table
  <2> DEFINE s == Home(hash, call.key, cap)
             a == Probe("find", s)
  <2>1. call.key \in Key /\ cap \in Nat \ {0}
    BY <1>1, <1>3, <1>7
  <2>2. s \in 0..cap-1 /\ Start(call.key, cap) = s
    BY <1>1, <2>1, TableParts DEF Start, Home
  <2>3. a \in Position /\ a.step = "find" /\ a.idx = s /\ a.start = s /\ Continue(a)
    BY <1>7, <2>2, ProbeIs
  <2>4. Past(slot, cap, s, s, call.key)
    BY <2>1, <2>2, PastStart
  <2> HIDE DEF a
  <2>5. Progress(hash, slot, cap, call, a)
    BY <1>7, <2>1, <2>3, <2>4 DEF Progress
  <2>6. slot' = slot /\ cap' = cap /\ len' = len
    BY <1>7 DEF table
  <2>7. Table(hash, slot', cap', len) /\ Progress(hash, slot', cap', call, a)
        /\ MapOf(slot', cap') = MapOf(slot, cap)
    BY <1>1, <2>5, <2>6
  <2> QED
    BY <2>3, <2>6, <2>7, Stutters
<1>8. CASE call.op = "entries" /\ Continue(Probe("visit", 0)) /\ UNCHANGED table
  <2> DEFINE a == Probe("visit", 0)
  <2>1. a \in Position /\ a.step = "visit" /\ a.idx = 0 /\ a.seen = {} /\ Continue(a)
    BY <1>8, ProbeIs
  <2>2. Visited(slot, 0) = {}
    BY DEF Visited
  <2> HIDE DEF a
  <2>3. Progress(hash, slot, cap, call, a)
    BY <1>1, <1>8, <2>1, <2>2 DEF Progress
  <2>4. slot' = slot /\ cap' = cap /\ len' = len
    BY <1>8 DEF table
  <2>5. Table(hash, slot', cap', len) /\ Progress(hash, slot', cap', call, a)
        /\ MapOf(slot', cap') = MapOf(slot, cap)
    BY <1>1, <2>3, <2>4
  <2> QED
    BY <2>1, <2>4, <2>5, Stutters
<1>9. CASE call.op = "clear" /\ slot' = [i \in Index |-> FreeSlot] /\ len' = 0 /\ UNCHANGED cap /\ Return({})
  <2>1. Table(hash, slot', cap', 0) /\ MapOf(slot', cap') = [k \in Key |-> Absent]
    BY <1>1, <1>9, NoEntries DEF Index
  <2>2. MapOf(slot', cap') = Promise!After(call) /\ {} = Promise!Answer(call)
    BY <1>9, <2>1, AfterIs, AnswerIs
  <2> QED
    BY <1>1, <1>9, <2>1, <2>2, Responds
<1>10. CASE call.op = "free" /\ slot' = <<>> /\ cap' = 0 /\ len' = 0 /\ Return({})
  <2>1. slot' = [i \in 0..0-1 |-> FreeSlot]
    BY <1>10, NoTable
  <2>2. Table(hash, slot', cap', 0) /\ MapOf(slot', cap') = [k \in Key |-> Absent]
    BY <1>1, <1>10, <2>1, NoEntries
  <2>3. MapOf(slot', cap') = Promise!After(call) /\ {} = Promise!Answer(call)
    BY <1>10, <2>2, AfterIs, AnswerIs
  <2> QED
    BY <1>1, <1>10, <2>2, <2>3, Responds
<1> QED
  BY <1>4, <1>5, <1>6, <1>7, <1>8, <1>9, <1>10 DEF Begin

\* A put that probes: the slot takes the entry, or the search goes on.
LEMMA PutStep ==
    ASSUME IInv, PutProbe
    PROVE  IInv' /\ (Promise!Respond \/ UNCHANGED <<Contents, call, answer>>)
<1> DEFINE k == call.key
           i == at.idx
           s == slot[at.idx]
           v == call.val
<1>1. call # NoCall /\ at.step = "put" /\ Table(hash, slot, cap, len) /\ at \in Position
      /\ Progress(hash, slot, cap, call, at)
  BY DEF PutProbe, Doing, IInv
<1>2. cap # 0 /\ k \in Key /\ at.start = Home(hash, k, cap) /\ call.op = "put"
      /\ Past(slot, cap, at.start, i, k)
  BY <1>1 DEF Progress
<1>3. v \in Datum
  BY <1>2, CallParts DEF IInv
<1>4. cap \in Nat \ {0} /\ at.start \in 0..cap-1
  BY <1>1, <1>2, TableParts
<1>5. PICK d \in 0..cap-1 : /\ i = Ring(at.start, d, cap)
                            /\ \A e \in 0..cap-1 : e < d => /\ slot[Ring(at.start, e, cap)].st # "free"
                                                            /\ ~Holds(slot[Ring(at.start, e, cap)], k)
  BY <1>2 DEF Past
<1>6. i \in 0..cap-1
  BY <1>4, <1>5, RingIs
<1>7. CASE s.st = "free"
  <2>1. slot' = [slot EXCEPT ![i] = LiveSlot(k, v)] /\ len' = len + 1 /\ cap' = cap /\ Return({})
    BY <1>7 DEF PutProbe, Holds
  <2>2. ~HasKey(slot, cap, k)
    BY <1>1, <1>2, <1>5, <1>7, FreeEnds
  <2>3. Used(slot, cap, Home(hash, k, cap), d)
    BY <1>2, <1>5 DEF Used
  <2>4. slot[i].st # "live" /\ i = Ring(Home(hash, k, cap), d, cap)
    BY <1>2, <1>5, <1>7
  <2> HIDE DEF k, i, v, s
  <2> DEFINE u == [slot EXCEPT ![i] = LiveSlot(k, v)]
  <2>5. Table(hash, u, cap, len + 1) /\ MapOf(u, cap) = [MapOf(slot, cap) EXCEPT ![k] = v]
    BY <1>1, <1>2, <1>3, <2>2, <2>3, <2>4, AddsEntry
  <2>6. Table(hash, slot', cap', len + 1) /\ MapOf(slot', cap') = [MapOf(slot, cap) EXCEPT ![k] = v]
    BY <2>1, <2>5
  <2>7. MapOf(slot', cap') = Promise!After(call) /\ {} = Promise!Answer(call)
    BY <1>2, <2>6, AfterIs, AnswerIs DEF k, v
  <2> QED
    BY <1>1, <2>1, <2>6, <2>7, Responds
<1>8. CASE s.st # "free" /\ Holds(s, k)
  <2>1. slot' = [slot EXCEPT ![i] = LiveSlot(k, v)] /\ len' = len /\ cap' = cap /\ Return({})
    BY <1>8 DEF PutProbe
  <2>2. Holds(slot[i], k)
    BY <1>8
  <2> HIDE DEF k, i, v, s
  <2> DEFINE u == [slot EXCEPT ![i] = LiveSlot(k, v)]
  <2>3. Table(hash, u, cap, len) /\ MapOf(u, cap) = [MapOf(slot, cap) EXCEPT ![k] = v]
    BY <1>1, <1>2, <1>3, <1>6, <2>2, ReplacesEntry
  <2>4. Table(hash, slot', cap', len) /\ MapOf(slot', cap') = [MapOf(slot, cap) EXCEPT ![k] = v]
    BY <2>1, <2>3
  <2>5. MapOf(slot', cap') = Promise!After(call) /\ {} = Promise!Answer(call)
    BY <1>2, <2>4, AfterIs, AnswerIs DEF k, v
  <2> QED
    BY <1>1, <2>1, <2>4, <2>5, Responds
<1>9. CASE s.st # "free" /\ ~Holds(s, k)
  <2> DEFINE a == [at EXCEPT !.idx = Next1(@)]
  <2>1. Continue(a) /\ slot' = slot /\ cap' = cap /\ len' = len
    BY <1>9 DEF PutProbe, table
  <2>2. Past(slot, cap, at.start, (i + 1) % cap, k) /\ (i + 1) % cap \in Nat
    BY <1>2, <1>4, <1>9, PastNext
  <2>3. a \in Position /\ a.step = "put" /\ a.start = at.start /\ a.idx = (i + 1) % cap
    BY <1>1, <2>2 DEF Position, Next1
  <2> HIDE DEF a
  <2>4. Progress(hash, slot, cap, call, a)
    BY <1>2, <2>2, <2>3 DEF Progress
  <2>5. Table(hash, slot', cap', len) /\ Progress(hash, slot', cap', call, a)
        /\ MapOf(slot', cap') = MapOf(slot, cap)
    BY <1>1, <2>1, <2>4
  <2> QED
    BY <2>1, <2>3, <2>5, Stutters
<1> QED
  BY <1>7, <1>8, <1>9

\* The search for a key ends: it is not there.
LEMMA MissingStep ==
    ASSUME IInv, call # NoCall, call.op \in {"get", "remove", "has", "discard", "add"},
           call.key \in Key, ~HasKey(slot, cap, call.key), Missing
    PROVE  IInv' /\ (Promise!Respond \/ UNCHANGED <<Contents, call, answer>>)
<1>1. CASE call.op = "add" /\ Grow("place")
  BY <1>1, GrowsToPlace
<1>2. CASE call.op # "add" /\ Return({}) /\ UNCHANGED table
  BY <1>2, LacksReturns
<1> QED
  BY <1>1, <1>2 DEF Missing

\* The search for a key ends: it is in slot i.
LEMMA FoundStep ==
    ASSUME IInv, call # NoCall, call.op \in {"get", "remove", "has", "discard", "add"},
           call.key \in Key, NEW i \in 0..cap-1, Holds(slot[i], call.key), Found(i)
    PROVE  IInv' /\ Promise!Respond
<1> DEFINE k == call.key
<1>1. Table(hash, slot, cap, len) /\ Unique(slot, cap) /\ HasKey(slot, cap, k)
  BY DEF IInv, Table, HasKey
<1>2. MapOf(slot, cap)[k] = slot[i].val
  BY <1>1, MapHolds
<1>3. ASSUME UNCHANGED table
      PROVE  Table(hash, slot', cap', len) /\ len' = len /\ MapOf(slot', cap') = MapOf(slot, cap)
  BY <1>1, <1>3 DEF table
<1>4. CASE call.op = "get" /\ Return({slot[i].val}) /\ UNCHANGED table
  <2>1. MapOf(slot', cap') = Promise!After(call)
    BY <1>3, <1>4, AfterIs
  <2>2. {slot[i].val} = Promise!Answer(call)
    BY <1>1, <1>2, <1>4, AnswerIs
  <2> QED
    BY <1>3, <1>4, <2>1, <2>2, Responds
<1>5. CASE call.op = "has" /\ Return({call.key}) /\ UNCHANGED table
  <2>1. MapOf(slot', cap') = Promise!After(call) /\ {call.key} = Promise!Answer(call)
    BY <1>1, <1>3, <1>5, AfterIs, AnswerIs
  <2> QED
    BY <1>3, <1>5, <2>1, Responds
<1>6. CASE call.op = "add" /\ Return({}) /\ UNCHANGED table
  <2>1. {} = Promise!Answer(call)
    BY <1>1, <1>6, AnswerIs
  <2>2. call.val = k /\ kind = "set"
    BY <1>6, CallParts DEF IInv
  <2>3. MapOf(slot, cap)[k] = k
    <3>1. MapOf(slot, cap)[k] # Absent
      BY <1>1, MapTells
    <3> QED
      BY <2>2, <3>1 DEF IInv, Own
  <2>4. MapOf(slot, cap) = [MapOf(slot, cap) EXCEPT ![k] = k]
    <3>1. DOMAIN MapOf(slot, cap) = Key /\ MapOf(slot, cap) = [l \in Key |-> MapOf(slot, cap)[l]]
      BY DEF MapOf
    <3> QED
      BY <2>3, <3>1
  <2>5. MapOf(slot', cap') = Promise!After(call)
    BY <1>3, <1>6, <2>2, <2>4, AfterIs
  <2> QED
    BY <1>3, <1>6, <2>1, <2>5, Responds
<1>7. CASE /\ call.op \in {"remove", "discard"}
           /\ slot' = [slot EXCEPT ![i] = DeadSlot] /\ len' = len - 1 /\ UNCHANGED cap
           /\ Return({call.key} \cap IF call.op = "discard" THEN Key ELSE {})
  <2> DEFINE r == {call.key} \cap IF call.op = "discard" THEN Key ELSE {}
             u == [slot EXCEPT ![i] = DeadSlot]
  <2>1. Table(hash, u, cap, len - 1) /\ MapOf(u, cap) = [MapOf(slot, cap) EXCEPT ![k] = Absent]
    BY <1>1, RemovesEntry
  <2>2. slot' = u /\ cap' = cap /\ len' = len - 1
    BY <1>7
  <2> HIDE DEF u
  <2>3. Table(hash, slot', cap', len - 1) /\ MapOf(slot', cap') = Promise!After(call)
    BY <1>7, <2>1, <2>2, AfterIs
  <2>4. r = Promise!Answer(call)
    BY <1>1, <1>7, AnswerIs
  <2> HIDE DEF r
  <2>5. Return(r)
    BY <1>7 DEF r
  <2> QED
    BY <2>2, <2>3, <2>4, <2>5, Responds
<1> QED
  BY <1>4, <1>5, <1>6, <1>7 DEF Found

\* A step of the search for a key.
LEMMA FindStep ==
    ASSUME IInv, FindProbe
    PROVE  IInv' /\ (Promise!Respond \/ UNCHANGED <<Contents, call, answer>>)
<1> DEFINE k == call.key
           i == at.idx
           s == slot[at.idx]
<1>1. call # NoCall /\ at.step = "find" /\ Table(hash, slot, cap, len) /\ at \in Position
      /\ Progress(hash, slot, cap, call, at)
  BY DEF FindProbe, Doing, IInv
<1>2. cap # 0 /\ k \in Key /\ at.start = Home(hash, k, cap)
      /\ call.op \in {"get", "remove", "has", "discard", "add"} /\ Past(slot, cap, at.start, i, k)
  BY <1>1 DEF Progress
<1>3. cap \in Nat \ {0} /\ at.start \in 0..cap-1
  BY <1>1, <1>2, TableParts
<1>4. PICK d \in 0..cap-1 : /\ i = Ring(at.start, d, cap)
                            /\ \A e \in 0..cap-1 : e < d => /\ slot[Ring(at.start, e, cap)].st # "free"
                                                            /\ ~Holds(slot[Ring(at.start, e, cap)], k)
  BY <1>2 DEF Past
<1>5. i \in 0..cap-1
  BY <1>3, <1>4, RingIs
<1>6. CASE Stops(s) /\ Missing
  <2>1. ~HasKey(slot, cap, k)
    BY <1>1, <1>2, <1>4, <1>6, FreeEnds DEF Stops
  <2> QED
    BY <1>1, <1>2, <1>6, <2>1, MissingStep
<1>7. CASE Holds(s, call.key) /\ Found(at.idx)
  BY <1>1, <1>2, <1>5, <1>7, FoundStep
<1>8. CASE ~Stops(s) /\ ~Holds(s, call.key) /\ Round /\ Missing
  <2>1. (i + 1) % cap = at.start
    BY <1>8 DEF Round, Next1
  <2>2. \A e \in 0..cap-1 : ~Holds(slot[Ring(at.start, e, cap)], k)
    BY <1>2, <1>3, <1>8, <2>1, PastNext DEF Stops
  <2>3. ~HasKey(slot, cap, k)
    BY <1>1, <1>2, <2>2, RoundEnds
  <2> QED
    BY <1>1, <1>2, <1>8, <2>3, MissingStep
<1>9. CASE /\ ~Stops(s) /\ ~Holds(s, call.key) /\ ~Round
           /\ Continue([at EXCEPT !.idx = Next1(@)]) /\ UNCHANGED table
  <2> DEFINE a == [at EXCEPT !.idx = Next1(@)]
  <2>1. Continue(a) /\ slot' = slot /\ cap' = cap /\ len' = len
    BY <1>9 DEF table
  <2>2. Past(slot, cap, at.start, (i + 1) % cap, k) /\ (i + 1) % cap \in Nat
    BY <1>2, <1>3, <1>9, PastNext DEF Stops
  <2>3. a \in Position /\ a.step = "find" /\ a.start = at.start /\ a.idx = (i + 1) % cap
    BY <1>1, <2>2 DEF Position, Next1
  <2> HIDE DEF a
  <2>4. Progress(hash, slot, cap, call, a)
    BY <1>2, <2>2, <2>3 DEF Progress
  <2>5. Table(hash, slot', cap', len) /\ Progress(hash, slot', cap', call, a)
        /\ MapOf(slot', cap') = MapOf(slot, cap)
    BY <1>1, <2>1, <2>4
  <2> QED
    BY <2>1, <2>3, <2>5, Stutters
<1> QED
  BY <1>6, <1>7, <1>8, <1>9 DEF FindProbe

\* A step of the search of an add for a place.
LEMMA PlaceStep ==
    ASSUME IInv, PlaceProbe
    PROVE  IInv' /\ (Promise!Respond \/ UNCHANGED <<Contents, call, answer>>)
<1> DEFINE k == call.key
           i == at.idx
           v == call.val
<1>1. call # NoCall /\ at.step = "place" /\ Table(hash, slot, cap, len) /\ at \in Position
      /\ Progress(hash, slot, cap, call, at)
  BY DEF PlaceProbe, Doing, IInv
<1>2. cap # 0 /\ k \in Key /\ at.start = Home(hash, k, cap) /\ call.op = "add"
      /\ ~HasKey(slot, cap, k) /\ PastLive(slot, cap, at.start, i)
  BY <1>1 DEF Progress
<1>3. v \in Datum
  BY <1>2, CallParts DEF IInv
<1>4. cap \in Nat \ {0} /\ at.start \in 0..cap-1
  BY <1>1, <1>2, TableParts
<1>5. PICK d \in 0..cap-1 : /\ i = Ring(at.start, d, cap)
                            /\ \A e \in 0..cap-1 : e < d => slot[Ring(at.start, e, cap)].st = "live"
  BY <1>2 DEF PastLive
<1>6. CASE slot[i].st # "live"
  <2>1. slot' = [slot EXCEPT ![i] = LiveSlot(k, v)] /\ len' = len + 1 /\ cap' = cap /\ Return({k})
    BY <1>6 DEF PlaceProbe
  <2>2. Used(slot, cap, Home(hash, k, cap), d) /\ i = Ring(Home(hash, k, cap), d, cap)
    BY <1>2, <1>5 DEF Used
  <2> HIDE DEF k, i, v
  <2> DEFINE u == [slot EXCEPT ![i] = LiveSlot(k, v)]
  <2>3. Table(hash, u, cap, len + 1) /\ MapOf(u, cap) = [MapOf(slot, cap) EXCEPT ![k] = v]
    BY <1>1, <1>2, <1>3, <1>6, <2>2, AddsEntry
  <2>4. Table(hash, slot', cap', len + 1) /\ MapOf(slot', cap') = [MapOf(slot, cap) EXCEPT ![k] = v]
    BY <2>1, <2>3
  <2>5. MapOf(slot', cap') = Promise!After(call) /\ {k} = Promise!Answer(call)
    BY <1>2, <2>4, AfterIs, AnswerIs DEF k, v
  <2> QED
    BY <1>1, <2>1, <2>4, <2>5, Responds
<1>7. CASE slot[i].st = "live"
  <2> DEFINE a == [at EXCEPT !.idx = Next1(@)]
  <2>1. Continue(a) /\ slot' = slot /\ cap' = cap /\ len' = len
    BY <1>7 DEF PlaceProbe, table
  <2>2. PastLive(slot, cap, at.start, (i + 1) % cap) /\ (i + 1) % cap \in Nat
    BY <1>2, <1>4, <1>7, PastLiveNext
  <2>3. a \in Position /\ a.step = "place" /\ a.start = at.start /\ a.idx = (i + 1) % cap
    BY <1>1, <2>2 DEF Position, Next1
  <2> HIDE DEF a
  <2>4. Progress(hash, slot, cap, call, a)
    BY <1>2, <2>2, <2>3 DEF Progress
  <2>5. Table(hash, slot', cap', len) /\ Progress(hash, slot', cap', call, a)
        /\ MapOf(slot', cap') = MapOf(slot, cap)
    BY <1>1, <2>1, <2>4
  <2> QED
    BY <2>1, <2>3, <2>5, Stutters
<1> QED
  BY <1>6, <1>7

\* The entries of all slots are those of the map.
LEMMA VisitedAll ==
    ASSUME NEW h, NEW t, NEW n, NEW m, Table(h, t, n, m)
    PROVE  Visited(t, n) = {<<k, MapOf(t, n)[k]>> : k \in {k \in Key : HasKey(t, n, k)}}
<1>1. ASSUME NEW j \in 0..n-1, t[j].st = "live"
      PROVE  /\ t[j].key \in Key /\ HasKey(t, n, t[j].key)
             /\ MapOf(t, n)[t[j].key] = t[j].val
  <2>1. t[j].key \in Key /\ Holds(t[j], t[j].key) /\ Unique(t, n)
    BY <1>1, TableParts DEF Holds, Table
  <2> QED
    BY <2>1, MapHolds DEF HasKey
<1>2. ASSUME NEW k \in Key, HasKey(t, n, k)
      PROVE  \E j \in 0..n-1 : t[j].st = "live" /\ k = t[j].key /\ MapOf(t, n)[k] = t[j].val
  BY <1>1, <1>2 DEF HasKey, Holds
<1> QED
  BY <1>1, <1>2 DEF Visited

\* A step of the loop over the slots.
LEMMA VisitStep ==
    ASSUME IInv, Visit
    PROVE  IInv' /\ (Promise!Respond \/ UNCHANGED <<Contents, call, answer>>)
<1>1. /\ call # NoCall /\ at.step = "visit" /\ Table(hash, slot, cap, len) /\ at \in Position
      /\ call.op = "entries" /\ at.idx <= cap /\ at.seen = Visited(slot, at.idx)
      /\ slot' = slot /\ cap' = cap /\ len' = len /\ cap \in Nat /\ at.idx \in Nat
  BY DEF Visit, Doing, IInv, Progress, table, Table, Position
<1>2. Table(hash, slot', cap', len) /\ MapOf(slot', cap') = MapOf(slot, cap)
  BY <1>1
<1>3. CASE at.idx >= cap /\ Return(at.seen)
  <2>1. at.idx = cap
    BY <1>1, <1>3
  <2>2. at.seen = Promise!Answer(call) /\ MapOf(slot', cap') = Promise!After(call)
    BY <1>1, <1>2, <2>1, VisitedAll, AnswerIs, AfterIs
  <2> QED
    BY <1>1, <1>2, <1>3, <2>2, Responds
<1>4. CASE at.idx < cap /\ Continue([at EXCEPT !.idx = @ + 1,
                          !.seen = @ \cup {<<slot[i].key, slot[i].val>> :
                                              i \in {i \in {at.idx} : slot[i].st = "live"}}])
  <2> DEFINE new == {<<slot[i].key, slot[i].val>> : i \in {i \in {at.idx} : slot[i].st = "live"}}
             a == [at EXCEPT !.idx = @ + 1, !.seen = @ \cup new]
  <2>1. at.idx \in 0..cap-1 /\ (slot[at.idx].st = "live" => <<slot[at.idx].key, slot[at.idx].val>> \in Key \X Datum)
    BY <1>1, <1>4, TableParts
  <2>2. new \subseteq Key \X Datum
    BY <2>1
  <2>3. Visited(slot, at.idx + 1) = Visited(slot, at.idx) \cup new
    <3>1. 0..(at.idx + 1)-1 = (0..at.idx-1) \cup {at.idx}
      BY <1>1
    <3> QED
      BY <3>1 DEF Visited
  <2>4. Continue(a)
    BY <1>4
  <2> HIDE DEF new
  <2>5. a \in Position /\ a.step = "visit" /\ a.idx = at.idx + 1 /\ a.seen = at.seen \cup new
    <3> DEFINE pairs == Key \X Datum
    <3>1. at.seen \in SUBSET pairs /\ at.idx + 1 \in Nat
      BY <1>1 DEF Position
    <3>2. at.seen \cup new \in SUBSET pairs
      BY <2>2, <3>1
    <3> HIDE DEF pairs
    <3>3. at \in [step : {"idle", "begin", "put", "find", "place", "visit"}, idx : Nat, start : Nat,
                  seen : SUBSET pairs]
      BY <1>1 DEF Position, pairs
    <3>4. a \in [step : {"idle", "begin", "put", "find", "place", "visit"}, idx : Nat, start : Nat,
                 seen : SUBSET pairs]
          /\ a.step = "visit" /\ a.idx = at.idx + 1 /\ a.seen = at.seen \cup new
      BY <1>1, <3>1, <3>2, <3>3
    <3> QED
      BY <3>4 DEF Position, pairs
  <2> HIDE DEF a
  <2>6. Progress(hash, slot', cap', call, a)
    BY <1>1, <2>1, <2>3, <2>5 DEF Progress
  <2> QED
    BY <1>1, <1>2, <2>4, <2>5, <2>6, Stutters
<1> QED
  BY <1>3, <1>4 DEF Visit

\* Every step keeps the invariant and is one of FiniteMap.
LEMMA StepMaps ==
    ASSUME IInv, [TableNext]_tableVars
    PROVE  IInv' /\ [Promise!Next]_<<Contents, call, answer>>
<1>1. ASSUME NEW c \in Calls(kind), Invoke(c) PROVE IInv' /\ Promise!Next
  <2>1. c \in MapCall \cup SetCall
    BY DEF Calls
  <2> QED
    BY <1>1, <2>1, InvokeStep DEF Promise!Next
<1>2. CASE Step
  <2>1. IInv' /\ (Promise!Respond \/ UNCHANGED <<Contents, call, answer>>)
    BY <1>2, BeginStep, PutStep, FindStep, PlaceStep, VisitStep DEF Step
  <2> QED
    BY <2>1 DEF Promise!Next
<1>3. CASE UNCHANGED tableVars
  <2>1. /\ kind' = kind /\ hash' = hash /\ slot' = slot /\ cap' = cap /\ len' = len
        /\ call' = call /\ at' = at /\ answer' = answer
    BY <1>3 DEF tableVars, table
  <2>2. Contents' = Contents
    BY <2>1 DEF Contents, Index
  <2>3. IInv'
    BY <2>1 DEF IInv
  <2> QED
    BY <2>1, <2>2, <2>3
<1>4. CASE (kind = "map" /\ \E c \in MapCall : Invoke(c)) \/ (kind = "set" /\ \E c \in SetCall : Invoke(c))
  BY <1>1, <1>4 DEF Calls
<1> QED
  BY <1>2, <1>3, <1>4 DEF TableNext

\* The invariant says that the slots are in order.
LEMMA InvOrdered == IInv => Ordered
<1> SUFFICES ASSUME IInv PROVE Ordered
  OBVIOUS
<1>1. Table(hash, slot, cap, len) /\ cap \in Nat /\ hash \in [Key -> Nat]
  BY DEF IInv, Table
<1>2. len = Cardinality({i \in Index : slot[i].st = "live"})
  BY <1>1 DEF Table, Lives, Index
<1>3. \A i, j \in Index : slot[i].st = "live" /\ Holds(slot[j], slot[i].key) => i = j
  BY <1>1 DEF Table, Unique, Holds, Index
<1>4. ASSUME NEW i \in Index, slot[i].st = "live"
      PROVE  \E d \in 0..cap-1 :
                 /\ i = Probed(slot[i].key, d, cap)
                 /\ \A e \in 0..d : slot[Probed(slot[i].key, e, cap)].st # "free"
  <2> DEFINE k == slot[i].key
             s == Home(hash, k, cap)
  <2>1. i \in 0..cap-1 /\ cap \in Nat \ {0} /\ k \in Key
    BY <1>1, <1>4, TableParts DEF Index
  <2>2. PICK d \in 0..cap-1 : i = Ring(s, d, cap) /\ Used(slot, cap, s, d)
    BY <1>1, <1>4, <2>1 DEF Table, Lives, Findable
  <2>3. \A e \in 0..cap-1 : Probed(k, e, cap) = Ring(s, e, cap)
    BY <1>1, <2>1, ProbedIs
  <2> HIDE DEF k, s
  <2>4. ASSUME NEW e \in 0..d PROVE slot[Probed(k, e, cap)].st # "free"
    <3>1. e \in 0..cap-1 /\ (e < d \/ e = d)
      BY <2>1
    <3>2. Probed(k, e, cap) = Ring(s, e, cap)
      BY <2>3, <3>1
    <3> QED
      BY <1>4, <2>2, <3>1, <3>2 DEF Used
  <2>5. i = Probed(k, d, cap)
    BY <2>2, <2>3
  <2> QED
    BY <2>4, <2>5 DEF k
<1> QED
  BY <1>2, <1>3, <1>4 DEF Ordered

\* Whatever the hashes and the calls, len counts the entries, no key has two, and no free slot
\* lies between the place a key hashes to and the slot it is in.
THEOREM AlwaysOrdered == TableSpec => []Ordered
<1>1. TableInit => IInv
  BY InvInit
<1>2. IInv /\ [TableNext]_tableVars => IInv'
  BY StepMaps
<1> QED
  BY <1>1, <1>2, InvOrdered, PTL DEF TableSpec

\* A Map is the finite map, and a Set the set of keys, that the calls on it built, and every
\* call returns what it should: HashTable implements the safety part of FiniteMap.
THEOREM IsFiniteMap == TableSpec => TableIsMap
<1>1. TableInit => IInv /\ Promise!Init
  BY InvInit
<1>2. IInv /\ [TableNext]_tableVars => IInv' /\ [Promise!Next]_<<Contents, call, answer>>
  BY StepMaps
<1>3. [Promise!Next]_<<Contents, call, answer>> <=> [Promise!Next]_(Promise!vars)
  BY DEF Promise!vars
<1>4. TableIsMap <=> Promise!Init /\ [][Promise!Next]_(Promise!vars)
  BY DEF TableIsMap, Promise!Safe
<1> QED
  BY <1>1, <1>2, <1>3, <1>4, PTL DEF TableSpec

-----------------------------------------------------------------------------
(* The calls come to an end *)

HasFree(t, n) == \E i \in 0..n-1 : t[i].st = "free"
HasGap(t, n) == \E i \in 0..n-1 : t[i].st # "live"

\* What a call finds ends its loop: a put or remove of a Map a free slot (the put after it has
\* grown the table, when that is crowded), an add of a Set a slot that is not live.
Room ==
    /\ call.op = "put" /\ at.step = "begin" => Full \/ Crowded \/ HasFree(slot, cap)
    /\ call.op = "put" /\ at.step = "put" => Full \/ HasFree(slot, cap)
    /\ call.op = "remove" => Full \/ cap = 0 \/ HasFree(slot, cap)
    /\ at.step = "place" => HasGap(slot, cap)

\* The phases of a call, in their order.
Later == {<<"begin", "put">>, <<"begin", "find">>, <<"begin", "place">>, <<"begin", "visit">>,
          <<"find", "place">>}

\* How many slots the loop of a call has passed.
Behind == IF at.step = "visit" THEN at.idx ELSE Gap(at.idx, at.start, cap)

\* A round of a loop passes one more slot of the table, and never comes back to the first.
OneMore == at'.step = at.step /\ cap' = cap /\ Behind' = Behind + 1 /\ Behind' <= cap

\* Map.put and Map.remove are the calls that need a free slot.
Sure == ~Full \/ call.op \notin {"put", "remove"}

\* A step of a call ends it, goes on to a later phase or passes one more slot.
Advances ==
    call # NoCall /\ Sure => \/ call' = NoCall
                             \/ call' = call /\ <<at.step, at'.step>> \in Later
                             \/ call' = call /\ OneMore

\* What advances the call and keeps the room.
Goes == Room' /\ Advances

\* A table with fewer entries than slots has a slot that is not live.
LEMMA SomeGap ==
    ASSUME NEW h, NEW t, NEW n, NEW m, Table(h, t, n, m), m < n
    PROVE  HasGap(t, n)
<1> SUFFICES ASSUME \A i \in 0..n-1 : t[i].st = "live" PROVE FALSE
  BY DEF HasGap
<1>1. n \in Nat /\ Lives(t, n) = 0..n-1
  BY DEF Lives, Table
<1>2. m = n
  BY <1>1, LivesFinite DEF Table
<1> QED
  BY <1>1, <1>2

\* A loop that is not back at its first slot has passed one more.
LEMMA OneFurther ==
    ASSUME NEW n \in Nat \ {0}, NEW s \in 0..n-1, NEW d \in 0..n-1, NEW i, i = Ring(s, d, n),
           (i + 1) % n # s
    PROVE  Gap((i + 1) % n, s, n) = Gap(i, s, n) + 1 /\ Gap((i + 1) % n, s, n) <= n
<1>1. d + 1 < n
  BY RingNext
<1>2. (i + 1) % n = Ring(s, d + 1, n) /\ d + 1 \in 0..n-1
  BY <1>1, RingNext
<1>3. Gap(i, s, n) = d /\ Gap((i + 1) % n, s, n) = d + 1
  BY <1>2, GapOf
<1> QED
  BY <1>1, <1>3

\* One that is back has passed every slot.
LEMMA AllPassed ==
    ASSUME NEW n \in Nat \ {0}, NEW s \in 0..n-1, NEW d \in 0..n-1, NEW i, i = Ring(s, d, n),
           (i + 1) % n = s, NEW t, NEW T,
           t[i].st \in T, \A e \in 0..n-1 : e < d => t[Ring(s, e, n)].st \in T
    PROVE  \A j \in 0..n-1 : t[j].st \in T
<1>1. d + 1 = n
  <2> SUFFICES ASSUME d + 1 < n PROVE FALSE
    OBVIOUS
  <2>1. (i + 1) % n = Ring(s, d + 1, n)
    BY RingNext
  <2> QED
    BY <2>1 DEF Ring
<1>2. ASSUME NEW j \in 0..n-1 PROVE t[j].st \in T
  <2>1. PICK e \in 0..n-1 : j = Ring(s, e, n)
    BY RingOnto
  <2>2. e < d \/ e = d
    BY <1>1
  <2> QED
    BY <2>1, <2>2
<1> QED
  BY <1>2

\* A search that meets a free slot before it is back goes on by one slot at a time.
LEMMA SearchGoesOn ==
    ASSUME NEW n \in Nat \ {0}, NEW s \in 0..n-1, NEW i, NEW k, NEW t, Past(t, n, s, i, k),
           t[i].st # "free", HasFree(t, n) \/ (i + 1) % n # s
    PROVE  Gap((i + 1) % n, s, n) = Gap(i, s, n) + 1 /\ Gap((i + 1) % n, s, n) <= n
<1>1. PICK d \in 0..n-1 : i = Ring(s, d, n) /\ \A e \in 0..n-1 : e < d => t[Ring(s, e, n)].st # "free"
  BY DEF Past
<1>2. (i + 1) % n # s
  <2> SUFFICES ASSUME (i + 1) % n = s PROVE FALSE
    OBVIOUS
  <2> DEFINE T == {t[j].st : j \in 0..n-1} \ {"free"}
  <2>1. i \in 0..n-1 /\ \A e \in 0..n-1 : Ring(s, e, n) \in 0..n-1
    BY <1>1, RingIs
  <2>2. t[i].st \in T /\ \A e \in 0..n-1 : e < d => t[Ring(s, e, n)].st \in T
    BY <1>1, <2>1
  <2>3. "free" \notin T
    OBVIOUS
  <2> HIDE DEF T
  <2>4. \A j \in 0..n-1 : t[j].st \in T
    BY <1>1, <2>2, AllPassed
  <2> QED
    BY <2>3, <2>4 DEF HasFree
<1> QED
  BY <1>1, <1>2, OneFurther

\* So does a search for a place.
LEMMA PlaceGoesOn ==
    ASSUME NEW n \in Nat \ {0}, NEW s \in 0..n-1, NEW i, NEW t, PastLive(t, n, s, i),
           t[i].st = "live", HasGap(t, n)
    PROVE  Gap((i + 1) % n, s, n) = Gap(i, s, n) + 1 /\ Gap((i + 1) % n, s, n) <= n
<1>1. PICK d \in 0..n-1 : i = Ring(s, d, n) /\ \A e \in 0..n-1 : e < d => t[Ring(s, e, n)].st = "live"
  BY DEF PastLive
<1>2. (i + 1) % n # s
  <2> SUFFICES ASSUME (i + 1) % n = s PROVE FALSE
    OBVIOUS
  <2> DEFINE T == {"live"}
  <2>1. t[i].st \in T /\ \A e \in 0..n-1 : e < d => t[Ring(s, e, n)].st \in T
    BY <1>1
  <2>2. \A st \in T : st = "live"
    OBVIOUS
  <2> HIDE DEF T
  <2>3. \A j \in 0..n-1 : t[j].st \in T
    BY <1>1, <2>1, AllPassed
  <2> QED
    BY <2>2, <2>3 DEF HasGap
<1> QED
  BY <1>1, <1>2, OneFurther

\* The table that a call grows has the room it needs, and so has one that is not crowded.
LEMMA GrowRoom ==
    ASSUME IInv, NEW step, Grow(step)
    PROVE  HasGap(slot', cap') /\ (Crowded \/ HasFree(slot, cap) => HasFree(slot', cap'))
<1>1. cap \in Nat /\ Table(hash, slot, cap, len) /\ len \in 0..cap
  <2>1. Table(hash, slot, cap, len) /\ cap \in Nat
    BY DEF IInv, Table
  <2> QED
    BY <2>1, LivesFinite DEF Table
<1>2. CASE Crowded
  <2>1. FirstCap \in Nat \ {0}
    BY HashAssumption
  <2>2. Larger \in Nat /\ cap < Larger /\ slot' = Resized(Larger) /\ cap' = Larger
    BY <1>1, <1>2, <2>1 DEF Larger, Grow
  <2>3. /\ Table(hash, slot', cap', len) /\ len < cap'
        /\ \A i \in 0..cap'-1 : slot'[i].st # "dead"
    BY <1>1, <2>2, ResizeKeeps
  <2>4. HasFree(slot', cap')
    BY <2>3, SomeFree DEF HasFree
  <2> QED
    BY <2>3, <2>4, SomeGap
<1>3. CASE ~Crowded
  <2>1. slot' = slot /\ cap' = cap
    BY <1>3 DEF Grow, table
  <2>2. len < cap
    BY <1>1, <1>3 DEF Crowded
  <2>3. HasGap(slot, cap)
    BY <1>1, <2>2, SomeGap
  <2> QED
    BY <1>3, <2>1, <2>3
<1> QED
  BY <1>2, <1>3

\* A call that returns leaves nothing to do.
LEMMA ReturnGoes ==
    ASSUME NEW r, Return(r)
    PROVE  Goes
<1>1. call' = NoCall /\ at' = Idle /\ call'.op = "none" /\ at'.step = "idle"
  BY DEF Return, NoCall, Idle
<1> QED
  BY <1>1 DEF Goes, Room, Advances

\* A call goes on in the same table.
LEMMA SameTable ==
    ASSUME Room, UNCHANGED table, NEW a, Continue(a), a.step # "begin",
           a.step = "put" => at.step = "put", a.step = "place" => at.step = "place",
           <<at.step, a.step>> \in Later \/ OneMore
    PROVE  Goes
<1>1. slot' = slot /\ cap' = cap /\ call' = call /\ at' = a
  BY DEF table, Continue
<1>2. Room'
  BY <1>1 DEF Room, HasFree, HasGap
<1>3. Advances
  BY <1>1 DEF Advances
<1> QED
  BY <1>2, <1>3 DEF Goes

\* A call goes on in the table that it has grown.
LEMMA GrowGoes ==
    ASSUME IInv, Room, call # NoCall,
           NEW step, Grow(step),
           \/ step = "put" /\ call.op = "put" /\ at.step = "begin"
           \/ step = "place" /\ call.op = "add" /\ at.step \in {"begin", "find"}
    PROVE  Goes
<1>1. HasGap(slot', cap') /\ (Crowded \/ HasFree(slot, cap) => HasFree(slot', cap'))
  BY GrowRoom
<1>2. call' = call /\ at'.step = step
  BY DEF Grow, Continue, Probe
<1>3. Room'
  BY <1>1, <1>2 DEF Room
<1>4. Advances
  BY <1>2 DEF Advances, Later
<1> QED
  BY <1>3, <1>4 DEF Goes

\* A call begins.
LEMMA BeginGoes ==
    ASSUME IInv, Room, Begin
    PROVE  Goes
<1>1. call # NoCall /\ at.step = "begin"
  BY DEF Begin, Doing
<1>2. CASE (call.op = "put" /\ Grow("put")) \/ (call.op = "add" /\ Grow("place"))
  BY <1>1, <1>2, GrowGoes
<1>3. CASE Return({})
  BY <1>3, ReturnGoes
<1>4. CASE Continue(Probe("find", Start(call.key, cap))) /\ UNCHANGED table
  <2> DEFINE a == Probe("find", Start(call.key, cap))
  <2>1. a.step = "find" /\ <<at.step, a.step>> \in Later
    BY <1>1 DEF Probe, Later
  <2> HIDE DEF a
  <2> QED
    BY <1>4, <2>1, SameTable DEF a
<1>5. CASE Continue(Probe("visit", 0)) /\ UNCHANGED table
  <2> DEFINE a == Probe("visit", 0)
  <2>1. a.step = "visit" /\ <<at.step, a.step>> \in Later
    BY <1>1 DEF Probe, Later
  <2> HIDE DEF a
  <2> QED
    BY <1>5, <2>1, SameTable DEF a
<1> QED
  BY <1>2, <1>3, <1>4, <1>5 DEF Begin

\* A put that probes.
LEMMA PutGoes ==
    ASSUME IInv, Room, PutProbe
    PROVE  Goes
<1> DEFINE s == slot[at.idx]
           a == [at EXCEPT !.idx = Next1(@)]
<1>1. call # NoCall /\ at.step = "put" /\ Table(hash, slot, cap, len) /\ at \in Position
      /\ Progress(hash, slot, cap, call, at)
  BY DEF PutProbe, Doing, IInv
<1>2. /\ cap # 0 /\ call.key \in Key /\ at.start = Home(hash, call.key, cap) /\ call.op = "put"
      /\ Past(slot, cap, at.start, at.idx, call.key)
  BY <1>1 DEF Progress
<1>3. cap \in Nat \ {0} /\ at.start \in 0..cap-1
  BY <1>1, <1>2, TableParts
<1>4. CASE s.st # "free" /\ Continue(a) /\ UNCHANGED table
  <2>1. a.step = "put" /\ a.start = at.start /\ a.idx = (at.idx + 1) % cap
    BY <1>1 DEF Position, Next1
  <2>2. slot' = slot /\ cap' = cap /\ call' = call /\ at' = a
    BY <1>4 DEF table, Continue
  <2>3. Room'
    BY <1>1, <2>1, <2>2 DEF Room
  <2>4. ASSUME Sure PROVE OneMore
    <3>1. HasFree(slot, cap)
      BY <1>1, <1>2, <2>4 DEF Sure, Room
    <3>2. Gap(a.idx, at.start, cap) = Gap(at.idx, at.start, cap) + 1 /\ Gap(a.idx, at.start, cap) <= cap
      BY <1>2, <1>3, <1>4, <2>1, <3>1, SearchGoesOn
    <3> HIDE DEF a
    <3> QED
      BY <1>1, <2>1, <2>2, <3>2 DEF OneMore, Behind
  <2> QED
    BY <2>2, <2>3, <2>4 DEF Goes, Advances
<1>5. CASE Return({})
  BY <1>5, ReturnGoes
<1> QED
  BY <1>4, <1>5 DEF PutProbe

\* The search for a key.
LEMMA FindGoes ==
    ASSUME IInv, Room, FindProbe
    PROVE  Goes
<1> DEFINE s == slot[at.idx]
           a == [at EXCEPT !.idx = Next1(@)]
<1>1. call # NoCall /\ at.step = "find" /\ Table(hash, slot, cap, len) /\ at \in Position
      /\ Progress(hash, slot, cap, call, at)
  BY DEF FindProbe, Doing, IInv
<1>2. /\ cap # 0 /\ call.key \in Key /\ at.start = Home(hash, call.key, cap)
      /\ Past(slot, cap, at.start, at.idx, call.key)
  BY <1>1 DEF Progress
<1>3. cap \in Nat \ {0} /\ at.start \in 0..cap-1
  BY <1>1, <1>2, TableParts
<1>4. CASE ~Stops(s) /\ ~Round /\ Continue(a) /\ UNCHANGED table
  <2>1. a.step = "find" /\ a.start = at.start /\ a.idx = (at.idx + 1) % cap
    BY <1>1 DEF Position, Next1
  <2>2. slot' = slot /\ cap' = cap /\ call' = call /\ at' = a
    BY <1>4 DEF table, Continue
  <2>3. Room'
    BY <1>1, <2>1, <2>2 DEF Room
  <2>4. ASSUME Sure PROVE OneMore
    <3>1. HasFree(slot, cap) \/ (at.idx + 1) % cap # at.start
      BY <1>2, <1>4, <2>4 DEF Sure, Room, Round, Next1
    <3>2. Gap(a.idx, at.start, cap) = Gap(at.idx, at.start, cap) + 1 /\ Gap(a.idx, at.start, cap) <= cap
      BY <1>2, <1>3, <1>4, <2>1, <3>1, SearchGoesOn DEF Stops
    <3> HIDE DEF a
    <3> QED
      BY <1>1, <2>1, <2>2, <3>2 DEF OneMore, Behind
  <2> QED
    BY <2>2, <2>3, <2>4 DEF Goes, Advances
<1>5. ASSUME NEW r, Return(r) PROVE Goes
  BY <1>5, ReturnGoes
<1>6. CASE Found(at.idx)
  BY <1>5, <1>6 DEF Found
<1>7. CASE Missing
  BY <1>1, <1>5, <1>7, GrowGoes DEF Missing
<1> QED
  BY <1>4, <1>6, <1>7 DEF FindProbe

\* The search of an add for a place.
LEMMA PlaceGoes ==
    ASSUME IInv, Room, PlaceProbe
    PROVE  Goes
<1> DEFINE a == [at EXCEPT !.idx = Next1(@)]
<1>1. call # NoCall /\ at.step = "place" /\ Table(hash, slot, cap, len) /\ at \in Position
      /\ Progress(hash, slot, cap, call, at) /\ HasGap(slot, cap)
  BY DEF PlaceProbe, Doing, IInv, Room
<1>2. /\ cap # 0 /\ call.key \in Key /\ at.start = Home(hash, call.key, cap)
      /\ PastLive(slot, cap, at.start, at.idx)
  BY <1>1 DEF Progress
<1>3. cap \in Nat \ {0} /\ at.start \in 0..cap-1
  BY <1>1, <1>2, TableParts
<1>4. CASE slot[at.idx].st = "live" /\ Continue(a) /\ UNCHANGED table
  <2>1. a.step = "place" /\ a.start = at.start /\ a.idx = (at.idx + 1) % cap
    BY <1>1 DEF Position, Next1
  <2>2. cap' = cap /\ at' = a
    BY <1>4 DEF table, Continue
  <2>3. Gap(a.idx, at.start, cap) = Gap(at.idx, at.start, cap) + 1 /\ Gap(a.idx, at.start, cap) <= cap
    BY <1>1, <1>2, <1>3, <1>4, <2>1, PlaceGoesOn
  <2> HIDE DEF a
  <2>4. OneMore
    BY <1>1, <2>1, <2>2, <2>3 DEF OneMore, Behind
  <2> QED
    BY <1>1, <1>4, <2>1, <2>4, SameTable
<1>5. CASE Return({call.key})
  BY <1>5, ReturnGoes
<1> QED
  BY <1>4, <1>5 DEF PlaceProbe

\* The loop over the entries.
LEMMA VisitGoes ==
    ASSUME IInv, Room, Visit
    PROVE  Goes
<1> DEFINE new == {<<slot[i].key, slot[i].val>> : i \in {i \in {at.idx} : slot[i].st = "live"}}
           a == [at EXCEPT !.idx = @ + 1, !.seen = @ \cup new]
<1>1. at.step = "visit" /\ at \in Position /\ at.idx \in Nat /\ cap \in Nat /\ UNCHANGED table
  BY DEF Visit, Doing, IInv, Position, Table
<1>2. CASE at.idx < cap /\ Continue(a)
  <2> HIDE DEF new
  <2>1. a.step = "visit" /\ a.idx = at.idx + 1
    BY <1>1 DEF Position
  <2>2. cap' = cap /\ at' = a
    BY <1>1, <1>2 DEF table, Continue
  <2> HIDE DEF a
  <2>3. OneMore
    BY <1>1, <1>2, <2>1, <2>2 DEF OneMore, Behind
  <2> QED
    BY <1>1, <1>2, <2>1, <2>3, SameTable
<1>3. CASE Return(at.seen)
  BY <1>3, ReturnGoes
<1> QED
  BY <1>2, <1>3 DEF Visit

\* No step takes the room away, and every step of a call advances it.
LEMMA StepGoes ==
    ASSUME IInv, Room, [TableNext]_tableVars
    PROVE  Room' /\ [Advances]_tableVars
<1>1. ASSUME NEW c, Invoke(c) PROVE Goes
  <2>1. call = NoCall /\ slot' = slot /\ cap' = cap /\ len' = len /\ call' = c /\ at'.step = "begin"
    BY <1>1 DEF Invoke, table, Idle
  <2>2. /\ c.op = "put" => Full \/ Crowded \/ HasFree(slot, cap)
        /\ c.op = "remove" => Full \/ cap = 0 \/ HasFree(slot, cap)
    <3>1. c.op = "put" => Full \/ cap = 0 \/ HasFree(slot, cap) \/ Crowded
      BY <1>1 DEF Invoke, Roomy, HasFree, Index
    <3>2. c.op = "remove" => Full \/ cap = 0 \/ HasFree(slot, cap)
      BY <1>1 DEF Invoke, Roomy, HasFree, Index
    <3>3. cap = 0 => Crowded
      <4>1. Table(hash, slot, cap, len) /\ cap \in Nat
        BY DEF IInv, Table
      <4>2. len \in 0..cap
        BY <4>1, LivesFinite DEF Table
      <4> QED
        BY <4>1, <4>2 DEF Crowded
    <3> QED
      BY <3>1, <3>2, <3>3
  <2>3. Room'
    BY <2>1, <2>2 DEF Room, HasFree, Crowded
  <2> QED
    BY <2>1, <2>3 DEF Goes, Advances
<1>2. CASE Step
  <2>1. Goes
    BY <1>2, BeginGoes, PutGoes, FindGoes, PlaceGoes, VisitGoes DEF Step
  <2> QED
    BY <2>1 DEF Goes
<1>3. CASE UNCHANGED tableVars
  <2>1. slot' = slot /\ cap' = cap /\ len' = len /\ call' = call /\ at' = at
    BY <1>3 DEF tableVars, table
  <2>2. Room'
    BY <2>1 DEF Room, HasFree, HasGap, Crowded
  <2> QED
    BY <1>3, <2>2
<1>4. CASE (kind = "map" /\ \E c \in MapCall : Invoke(c)) \/ (kind = "set" /\ \E c \in SetCall : Invoke(c))
  BY <1>1, <1>4 DEF Goes
<1> QED
  BY <1>2, <1>3, <1>4 DEF TableNext

\* No loop of a call on a Map or a Set goes round: every step of a call ends it, goes on to a
\* later phase, or passes one more of the slots of the table.  Only Map.put and Map.remove rely
\* on a free slot for that, and a put that finds the table crowded makes one.
THEOREM CallsAdvance == TableSpec => [][Advances]_tableVars
<1>1. TableInit => IInv /\ Room
  <2> SUFFICES ASSUME TableInit PROVE Room
    BY InvInit
  <2> QED
    BY DEF TableInit, NoCall, Idle, Room
<1>2. IInv /\ [TableNext]_tableVars => IInv'
  BY StepMaps
<1>3. IInv /\ Room /\ [TableNext]_tableVars => Room' /\ [Advances]_tableVars
  BY StepGoes
<1> QED
  BY <1>1, <1>2, <1>3, PTL DEF TableSpec

-----------------------------------------------------------------------------
(* The buckets of a zmap *)

\* What a bucket holds.
Entry == [key : ZKey, val : ZVal]
Bucket == Entry \cup {Z!Empty}

\* The buckets with an entry.
Taken(t, n) == {i \in 0..n-1 : t[i] # Z!Empty}

\* The entries.
EntriesOf(t, n) == {t[i] : i \in Taken(t, n)}

\* How far an entry lies behind its home, where h is the home of every key.
Far(h, t, i, n) == Gap(i, h[t[i].key], n)

\* No key is twice in the table.
OnceEach(t, n) == \A i, j \in Taken(t, n) : t[i].key = t[j].key => i = j

\* Before an entry that is not at home lies one that is at most one place nearer its own.
Robin(h, t, n) ==
    \A i \in Taken(t, n) : Far(h, t, i, n) > 0 =>
        /\ Before(i, n) \in Taken(t, n)
        /\ Far(h, t, Before(i, n), n) >= Far(h, t, i, n) - 1

\* n buckets t are sound for the homes h.
Sound(h, t, n) ==
    /\ n \in Nat \ {0} /\ h \in [ZKey -> 0..n-1] /\ t \in [0..n-1 -> Bucket]
    /\ OnceEach(t, n) /\ Robin(h, t, n)

\* An entry is not empty.
LEMMA EntryIs == \A x \in Bucket : x # Z!Empty <=> x \in Entry
<1>1. Absent \notin ZKey /\ Z!Empty.key = Absent
  BY ZMapsAssumption DEF Z!ZMapAssumption, Z!Empty
<1>2. Z!Empty \notin Entry
  BY <1>1 DEF Entry
<1> QED
  BY <1>2 DEF Bucket

\* What is in a sound table.
LEMMA SoundParts ==
    ASSUME NEW h, NEW t, NEW n, Sound(h, t, n)
    PROVE  /\ n \in Nat \ {0} /\ \A k \in ZKey : h[k] \in 0..n-1
           /\ \A i \in 0..n-1 : t[i] \in Bucket
           /\ \A i \in Taken(t, n) : /\ i \in 0..n-1 /\ t[i] \in Entry /\ t[i].key \in ZKey
                                     /\ t[i].val \in ZVal
                                     /\ h[t[i].key] \in 0..n-1 /\ Far(h, t, i, n) \in 0..n-1
                                     /\ Before(i, n) \in 0..n-1
                                     /\ Ring(h[t[i].key], Far(h, t, i, n), n) = i
<1>1. /\ n \in Nat \ {0} /\ \A k \in ZKey : h[k] \in 0..n-1
      /\ \A i \in 0..n-1 : t[i] \in Bucket
  BY DEF Sound
<1>2. ASSUME NEW i \in Taken(t, n)
      PROVE  /\ i \in 0..n-1 /\ t[i] \in Entry /\ t[i].key \in ZKey /\ t[i].val \in ZVal
             /\ h[t[i].key] \in 0..n-1 /\ Far(h, t, i, n) \in 0..n-1
             /\ Before(i, n) \in 0..n-1
             /\ Ring(h[t[i].key], Far(h, t, i, n), n) = i
  <2>1. i \in 0..n-1 /\ t[i] \in Entry
    BY <1>1, EntryIs DEF Taken
  <2>2. t[i].key \in ZKey /\ t[i].val \in ZVal
    BY <2>1 DEF Entry
  <2>3. h[t[i].key] \in 0..n-1
    BY <1>1, <2>2
  <2> QED
    BY <1>1, <2>1, <2>2, <2>3, GapIs DEF Far
<1> QED
  BY <1>1, <1>2

\* Between the home of an entry and the entry, every bucket is taken, by an entry that is at
\* least as far behind its own home as the bucket is behind this one.
LEMMA NoneNearer ==
    ASSUME NEW h, NEW t, NEW n, Sound(h, t, n), NEW i \in Taken(t, n),
           NEW d \in 0..Far(h, t, i, n)
    PROVE  /\ Ring(h[t[i].key], d, n) \in Taken(t, n)
           /\ Far(h, t, Ring(h[t[i].key], d, n), n) >= d
<1> DEFINE s == h[t[i].key]
           f == Far(h, t, i, n)
           T == {e \in Nat : e <= f => /\ Ring(s, f - e, n) \in Taken(t, n)
                                       /\ Far(h, t, Ring(s, f - e, n), n) >= f - e}
<1>1. n \in Nat \ {0} /\ s \in 0..n-1 /\ f \in 0..n-1 /\ Ring(s, f, n) = i
  BY SoundParts
<1>2. \A j \in Taken(t, n) : j \in 0..n-1 /\ Far(h, t, j, n) \in 0..n-1
  BY SoundParts
<1>f. f = Far(h, t, i, n)
  OBVIOUS
<1> HIDE DEF s, f
<1>3. 0 \in T
  BY <1>1, <1>f
<1>4. ASSUME NEW e \in Nat, e \in T PROVE e + 1 \in T
  <2> SUFFICES ASSUME e + 1 <= f
               PROVE  /\ Ring(s, f - (e + 1), n) \in Taken(t, n)
                      /\ Far(h, t, Ring(s, f - (e + 1), n), n) >= f - (e + 1)
    OBVIOUS
  <2> DEFINE j == Ring(s, f - e, n)
  <2>1. f - e \in 0..n-1 /\ f - e > 0 /\ f - (e + 1) = (f - e) - 1 /\ e <= f
    BY <1>1
  <2>2. j \in Taken(t, n) /\ Far(h, t, j, n) >= f - e
    BY <1>4, <2>1
  <2>3. Before(j, n) = Ring(s, (f - e) - 1, n)
    BY <1>1, <2>1, GapOf
  <2> HIDE DEF j
  <2>4. Far(h, t, j, n) > 0 /\ Far(h, t, j, n) \in 0..n-1
    BY <1>2, <2>1, <2>2
  <2>5. Before(j, n) \in Taken(t, n) /\ Far(h, t, Before(j, n), n) >= Far(h, t, j, n) - 1
    BY <2>2, <2>4 DEF Sound, Robin
  <2>6. Far(h, t, Before(j, n), n) \in 0..n-1
    BY <2>5, <1>2
  <2>7. Far(h, t, Before(j, n), n) >= (f - e) - 1
    BY <2>1, <2>2, <2>4, <2>5, <2>6
  <2> QED
    BY <2>1, <2>3, <2>5, <2>7
<1> HIDE DEF T
<1>5. Nat \subseteq T
  BY <1>3, <1>4, SetInduction
<1>6. f - d \in Nat /\ f - d <= f /\ f - (f - d) = d
  BY <1>1 DEF f
<1>7. f - d \in T
  BY <1>5, <1>6
<1>8. Ring(s, d, n) \in Taken(t, n) /\ Far(h, t, Ring(s, d, n), n) >= d
  BY <1>6, <1>7 DEF T
<1> QED
  BY <1>8 DEF s

\* c may be put into bucket i: the bucket is empty or its entry is not further from home, the
\* key of c is nowhere else, and the bucket before i holds an entry that is far enough.
MayPut(h, t, n, i, c) ==
    /\ Gap(i, h[c.key], n) > 0 => /\ Before(i, n) \in Taken(t, n)
                                  /\ Far(h, t, Before(i, n), n) >= Gap(i, h[c.key], n) - 1
    /\ i \in Taken(t, n) => Far(h, t, i, n) <= Gap(i, h[c.key], n)
    /\ \A j \in Taken(t, n) : t[j].key = c.key => j = i

\* u is t with c in bucket i.
HasPut(h, t, n, i, c, u) ==
    /\ Sound(h, u, n) /\ Taken(u, n) = Taken(t, n) \cup {i}
    /\ EntriesOf(u, n) = {t[j] : j \in Taken(t, n) \ {i}} \cup {c}

\* Putting it there keeps the table sound.
LEMMA PutsIn ==
    ASSUME NEW h, NEW t, NEW n, Sound(h, t, n), NEW i \in 0..n-1, NEW c \in Entry,
           MayPut(h, t, n, i, c)
    PROVE  HasPut(h, t, n, i, c, [t EXCEPT ![i] = c])
<1> DEFINE u == [t EXCEPT ![i] = c]
           g == Gap(i, h[c.key], n)
<1>1. /\ n \in Nat \ {0} /\ t \in [0..n-1 -> Bucket] /\ c.key \in ZKey /\ h[c.key] \in 0..n-1
      /\ g \in 0..n-1 /\ c # Z!Empty /\ c \in Bucket /\ h \in [ZKey -> 0..n-1]
  BY SoundParts, EntryIs, GapIs DEF Sound, Entry, Bucket
<1>2. u \in [0..n-1 -> Bucket] /\ u[i] = c /\ \A j \in 0..n-1 : j # i => u[j] = t[j]
  BY <1>1
<1> HIDE DEF u
<1>3. Taken(u, n) = Taken(t, n) \cup {i}
  BY <1>1, <1>2 DEF Taken
<1>4. \A j \in Taken(t, n) : /\ j \in 0..n-1 /\ Far(h, t, j, n) \in 0..n-1
                             /\ Before(j, n) \in 0..n-1
  BY SoundParts
<1>5. /\ Far(h, u, i, n) = g
      /\ \A j \in Taken(t, n) : j # i => Far(h, u, j, n) = Far(h, t, j, n)
  BY <1>2, <1>4 DEF Far
<1>g. /\ g = Gap(i, h[c.key], n)
      /\ g > 0 => Before(i, n) \in Taken(t, n) /\ Far(h, t, Before(i, n), n) >= g - 1
      /\ i \in Taken(t, n) => Far(h, t, i, n) <= g
      /\ \A j \in Taken(t, n) : t[j].key = c.key => j = i
  BY DEF MayPut
<1>6. OnceEach(u, n)
  <2> SUFFICES ASSUME NEW a \in Taken(u, n), NEW b \in Taken(u, n), u[a].key = u[b].key
               PROVE  a = b
    BY DEF OnceEach
  <2>1. \A j \in Taken(u, n) : j # i => j \in Taken(t, n) /\ u[j] = t[j]
    BY <1>2, <1>3, <1>4
  <2>2. CASE a # i /\ b # i
    BY <2>1, <2>2 DEF Sound, OnceEach
  <2>3. CASE a = i \/ b = i
    BY <1>2, <1>g, <2>1, <2>3
  <2> QED
    BY <2>2, <2>3
<1> HIDE DEF g
<1>7. Robin(h, u, n)
  <2> SUFFICES ASSUME NEW j \in Taken(u, n), Far(h, u, j, n) > 0
               PROVE  /\ Before(j, n) \in Taken(u, n)
                      /\ Far(h, u, Before(j, n), n) >= Far(h, u, j, n) - 1
    BY DEF Robin
  <2> DEFINE p == Before(j, n)
  <2>1. CASE j = i
    <3>1. p \in Taken(t, n) /\ Far(h, t, p, n) >= g - 1
      BY <2>1, <1>5, <1>g
    <3>2. p # i
      BY <2>1, <1>1, <1>5 DEF Before
    <3> QED
      BY <2>1, <3>1, <3>2, <1>3, <1>5
  <2>2. CASE j # i
    <3>1. j \in Taken(t, n) /\ Far(h, t, j, n) = Far(h, u, j, n)
      BY <2>2, <1>3, <1>5
    <3>2. p \in Taken(t, n) /\ Far(h, t, p, n) >= Far(h, t, j, n) - 1
      BY <3>1 DEF Sound, Robin
    <3>3. CASE p = i
      <4>1. Far(h, u, p, n) = g /\ Far(h, t, p, n) <= g
        BY <3>2, <3>3, <1>5, <1>g
      <4>2. Far(h, t, p, n) \in 0..n-1 /\ Far(h, t, j, n) \in 0..n-1
        BY <3>1, <3>2, <1>4
      <4> QED
        BY <1>1, <1>3, <3>1, <3>2, <4>1, <4>2
    <3>4. CASE p # i
      BY <3>1, <3>2, <3>4, <1>3, <1>5
    <3> QED
      BY <3>3, <3>4
  <2> QED
    BY <2>1, <2>2
<1>8. Sound(h, u, n)
  BY <1>1, <1>2, <1>6, <1>7 DEF Sound
<1>9. EntriesOf(u, n) = {t[j] : j \in Taken(t, n) \ {i}} \cup {c}
  <2>1. \A j \in Taken(t, n) : j # i => u[j] = t[j]
    BY <1>2, <1>4
  <2> QED
    BY <2>1, <1>2, <1>3 DEF EntriesOf
<1> QED
  BY <1>3, <1>8, <1>9 DEF u, HasPut

\* The taken buckets are finitely many; when they are fewer than n, one is empty.
LEMMA TakenFinite ==
    ASSUME NEW t, NEW n \in Nat
    PROVE  /\ IsFiniteSet(Taken(t, n)) /\ Cardinality(Taken(t, n)) \in 0..n
           /\ Cardinality(Taken(t, n)) < n => \E i \in 0..n-1 : t[i] = Z!Empty
<1>1. 0 \in Int /\ n - 1 \in Int /\ (IF 0 > n - 1 THEN 0 ELSE (n - 1) - 0 + 1) = n
  OBVIOUS
<1>2. IsFiniteSet(0..n-1) /\ Cardinality(0..n-1) = n
  <2>1. IsFiniteSet(0..n-1) /\ Cardinality(0..n-1) = IF 0 > n - 1 THEN 0 ELSE (n - 1) - 0 + 1
    BY <1>1, FS_Interval
  <2> QED
    BY <1>1, <2>1
<1>3. Taken(t, n) \subseteq 0..n-1
  BY DEF Taken
<1>4. IsFiniteSet(Taken(t, n)) /\ Cardinality(Taken(t, n)) <= Cardinality(0..n-1)
  BY <1>2, <1>3, FS_Subset
<1>5. Cardinality(Taken(t, n)) \in Nat
  BY <1>4, FS_CardinalityType
<1>6. (\A i \in 0..n-1 : t[i] # Z!Empty) => Taken(t, n) = 0..n-1
  BY DEF Taken
<1> QED
  BY <1>2, <1>4, <1>5, <1>6

\* The homes of the keys in n buckets.
Homes(n) == [k \in ZKey |-> Z!Home(k, n)]

\* Where zmap.h looks, and what it computes, in terms of the ring.
LEMMA BehindIs ==
    ASSUME NEW n \in Nat \ {0}, Homes(n) \in [ZKey -> 0..n-1], NEW k \in ZKey
    PROVE  /\ Homes(n)[k] \in 0..n-1
           /\ \A d \in 0..n-1 : Z!Behind(k, d, n) = Ring(Homes(n)[k], d, n)
           /\ Z!Behind(k, n, n) = Homes(n)[k]
           /\ \A i \in 0..n-1 : Z!Dist(i, k, n) = Gap(i, Homes(n)[k], n)
<1> DEFINE s == Z!Home(k, n)
<1>1. Homes(n)[k] = s /\ s \in 0..n-1
  BY DEF Homes
<1>2. \A d \in Nat : Z!Behind(k, d, n) = (s + d) % n
  BY DEF Z!Behind
<1>3. \A i \in 0..n-1 : Z!Dist(i, k, n) = (i - s) % n
  BY DEF Z!Dist
<1> HIDE DEF s
<1>4. ASSUME NEW d \in 0..n-1 PROVE Z!Behind(k, d, n) = Ring(s, d, n)
  BY <1>1, <1>2, RingIs
<1>5. Z!Behind(k, n, n) = s
  <2> DEFINE a == s + n
  <2>1. a \in n..2*n-1 /\ a - n = s
    BY <1>1
  <2> HIDE DEF a
  <2>2. a % n = s
    BY <2>1, LargeMod
  <2>3. Z!Behind(k, n, n) = a % n
    BY <1>2 DEF a
  <2> QED
    BY <2>2, <2>3
<1>6. ASSUME NEW i \in 0..n-1 PROVE Z!Dist(i, k, n) = Gap(i, s, n)
  BY <1>1, <1>3, GapMod
<1> QED
  BY <1>1, <1>4, <1>5, <1>6

\* The search finds the bucket of the key, if there is one.
LEMMA FoundIs ==
    ASSUME Sound(Homes(capacity), buckets, capacity), NEW k \in ZKey,
           entries = 0 <=> Taken(buckets, capacity) = {}
    PROVE  Z!Found(k) = {i \in Taken(buckets, capacity) : buckets[i].key = k}
<1> DEFINE n == capacity
           h == Homes(n)
           t == buckets
           s == h[k]
           there(d) == Z!Behind(k, d, n)
           ends(d) == \/ t[there(d)].key \in {Absent, k}
                      \/ d > Z!Dist(there(d), t[there(d)].key, n)
           E == {d \in 0..n : ends(d)}
           l == Z!Least(E)
<1>1. CASE entries = 0
  BY <1>1 DEF Z!Found
<1>2. CASE entries # 0
  <2>1. /\ n \in Nat \ {0} /\ s \in 0..n-1 /\ h \in [ZKey -> 0..n-1]
        /\ \A d \in 0..n-1 : there(d) = Ring(s, d, n)
        /\ there(n) = s
    BY SoundParts, BehindIs DEF Sound
  <2>2. \A d \in 0..n : there(d) \in 0..n-1
    <3>1. ASSUME NEW d \in 0..n PROVE there(d) \in 0..n-1
      <4>1. d \in 0..n-1 \/ d = n
        BY <2>1
      <4> HIDE DEF there, h, s
      <4> QED
        BY <4>1, <2>1, RingIs
    <3> QED
      BY <3>1
  <2>3. \A i \in Taken(t, n) : /\ i \in 0..n-1 /\ t[i].key \in ZKey
                               /\ Z!Dist(i, t[i].key, n) = Far(h, t, i, n)
                               /\ Far(h, t, i, n) \in 0..n-1
    BY <2>1, SoundParts, BehindIs DEF Far
  <2>4. \A i \in 0..n-1 : i \notin Taken(t, n) => t[i].key = Absent
    BY DEF Taken, Z!Empty
  <2>5. Absent \notin ZKey
    BY ZMapsAssumption DEF Z!ZMapAssumption
  <2>6. Z!Found(k) = {i \in {there(l)} : t[i].key = k}
    BY <1>2 DEF Z!Found
  <2> HIDE DEF there, h, t
  <2>7. ends(n)
    <3>1. CASE there(n) \notin Taken(t, n)
      BY <3>1, <2>1, <2>2, <2>4
    <3>2. CASE there(n) \in Taken(t, n)
      BY <3>2, <2>1, <2>3
    <3> QED
      BY <3>1, <3>2
  <2>8. E # {} /\ E \in SUBSET Nat
    BY <2>1, <2>7
  <2>9. l \in E /\ \A d \in E : l <= d
    <3>1. \E m \in E : \A d \in E : m <= d
      BY <2>8, LeastOf
    <3> HIDE DEF E
    <3> QED
      BY <3>1 DEF Z!Least
  <2>l. l \in 0..n /\ ends(l) /\ \A d \in 0..n : ends(d) => l <= d
    <3> HIDE DEF l, ends
    <3> QED
      BY <2>9
  <2>10. there(l) \in 0..n-1
    BY <2>2, <2>l
  <2> HIDE DEF l
  <2>11. ASSUME NEW i \in Taken(t, n), t[i].key = k PROVE there(l) = i
    <3> DEFINE f == Far(h, t, i, n)
    <3>1. f \in 0..n-1 /\ Ring(s, f, n) = i /\ Sound(h, t, n)
      BY <2>11, SoundParts DEF h, t
    <3> HIDE DEF f
    <3>2. f \in 0..n /\ ends(f)
      <4>1. there(f) = i /\ f \in 0..n
        BY <3>1, <2>1
      <4> QED
        BY <4>1, <2>11
    <3> HIDE DEF ends
    <3>3. l <= f /\ l \in 0..n-1
      BY <2>1, <2>l, <3>1, <3>2
    <3>4. CASE l < f
      <4>1. l \in 0..f
        BY <3>1, <3>3, <3>4
      <4>2. Ring(s, l, n) \in Taken(t, n) /\ Far(h, t, Ring(s, l, n), n) >= l
        BY <3>1, <4>1, <2>11, NoneNearer DEF f
      <4>3. there(l) \in Taken(t, n) /\ Far(h, t, there(l), n) >= l
        BY <3>3, <4>2, <2>1
      <4>4. t[there(l)].key = k
        <5>1. t[there(l)].key \in {Absent, k} \/ l > Z!Dist(there(l), t[there(l)].key, n)
          BY <2>l DEF ends
        <5>2. ~(l > Z!Dist(there(l), t[there(l)].key, n))
          BY <4>3, <2>3, <3>3
        <5> QED
          BY <5>1, <5>2, <4>3, <2>3, <2>5
      <4> QED
        BY <4>3, <4>4, <2>11, <3>1 DEF Sound, OnceEach
    <3>5. CASE ~(l < f)
      BY <3>1, <3>3, <3>5, <2>1
    <3> QED
      BY <3>4, <3>5
  <2>12. there(l) \in Taken(t, n) \/ t[there(l)].key # k
    BY <2>4, <2>5, <2>10
  <2>13. Z!Found(k) = {i \in Taken(t, n) : t[i].key = k}
    BY <2>6, <2>11, <2>12
  <2> QED
    BY <2>13 DEF t
<1> QED
  BY <1>1, <1>2

-----------------------------------------------------------------------------
(* Insertion *)

\* The state of the loop of put.
Walker(n) == [t : [0..n-1 -> Bucket], carried : Bucket, dist : Nat]

\* The loop has met d buckets and carries an entry: the table and what is carried make up the
\* old table and the new entry, no other bucket has changed, and what is carried could be put
\* into the next bucket.
Carrying(h, t, n, e, d, w) ==
    /\ w \in Walker(n) /\ Sound(h, w.t, n)
    /\ w.carried \in Entry /\ w.dist <= d
    /\ \A j \in 0..n-1 : Gap(j, h[e.key], n) >= d => w.t[j] = t[j]
    /\ Taken(w.t, n) = Taken(t, n)
    /\ \A j \in Taken(w.t, n) : w.t[j].key # w.carried.key
    /\ EntriesOf(w.t, n) \cup {w.carried} = EntriesOf(t, n) \cup {e}
    /\ d < n => LET i == Ring(h[e.key], d, n)
                IN  /\ Gap(i, h[w.carried.key], n) = w.dist
                    /\ w.dist > 0 => /\ Before(i, n) \in Taken(w.t, n)
                                     /\ Far(h, w.t, Before(i, n), n) >= w.dist - 1

\* The table has one entry more.
Added(h, t, n, e, u) ==
    /\ Sound(h, u, n)
    /\ EntriesOf(u, n) = EntriesOf(t, n) \cup {e}
    /\ \E j \in 0..n-1 : j \notin Taken(t, n) /\ Taken(u, n) = Taken(t, n) \cup {j}

\* What is carried is put into an empty bucket.
LEMMA MeetsEmpty ==
    ASSUME NEW h, NEW t, NEW n, Sound(h, t, n), NEW e \in Entry, NEW d \in 0..n-1, NEW w,
           Carrying(h, t, n, e, d, w), t[Ring(h[e.key], d, n)] = Z!Empty
    PROVE  LET m == Z!Met(w, Ring(h[e.key], d, n), e, n)
           IN  m.carried = Z!Empty /\ Added(h, t, n, e, m.t)
<1> DEFINE s == h[e.key]
           i == Ring(s, d, n)
           c == w.carried
           u == [w.t EXCEPT ![i] = c]
           m == Z!Met(w, i, e, n)
<1>1. n \in Nat \ {0} /\ s \in 0..n-1 /\ i \in 0..n-1 /\ Gap(i, s, n) = d
  <2>1. n \in Nat \ {0} /\ s \in 0..n-1
    BY SoundParts DEF Entry
  <2> HIDE DEF s
  <2> QED
    BY <2>1, GapOf
<1>2. t[i] = Z!Empty
  OBVIOUS
<1>s. s = h[e.key]
  OBVIOUS
<1>i. Ring(h[e.key], d, n) = i
  OBVIOUS
<1> HIDE DEF s, i
<1>3. /\ w \in Walker(n) /\ Sound(h, w.t, n) /\ c \in Entry /\ w.t[i] = Z!Empty
      /\ Taken(w.t, n) = Taken(t, n) /\ \A j \in Taken(w.t, n) : w.t[j].key # c.key
      /\ EntriesOf(w.t, n) \cup {c} = EntriesOf(t, n) \cup {e}
      /\ Gap(i, h[c.key], n) = w.dist
      /\ w.dist > 0 => /\ Before(i, n) \in Taken(w.t, n)
                       /\ Far(h, w.t, Before(i, n), n) >= w.dist - 1
  BY <1>1, <1>2, <1>s, <1>i DEF Carrying
<1>4. c # Z!Empty
  BY <1>3, EntryIs DEF Bucket
<1>5. m = [w EXCEPT !.t[i] = c, !.carried = Z!Empty]
  BY <1>3, <1>4 DEF Z!Met
<1>6. m.carried = Z!Empty /\ m.t = u
  BY <1>5, <1>3 DEF Walker
<1> HIDE DEF m, c
<1>7. i \notin Taken(w.t, n)
  BY <1>3 DEF Taken
<1>8. /\ Sound(h, u, n) /\ Taken(u, n) = Taken(w.t, n) \cup {i}
      /\ EntriesOf(u, n) = {w.t[j] : j \in Taken(w.t, n) \ {i}} \cup {c}
  <2>1. MayPut(h, w.t, n, i, c)
    BY <1>3, <1>7 DEF MayPut
  <2>2. HasPut(h, w.t, n, i, c, u)
    BY <1>1, <1>3, <2>1, PutsIn
  <2> QED
    BY <2>2 DEF HasPut
<1>9. {w.t[j] : j \in Taken(w.t, n) \ {i}} = EntriesOf(w.t, n)
  BY <1>7 DEF EntriesOf
<1>10. Added(h, t, n, e, u)
  BY <1>1, <1>3, <1>7, <1>8, <1>9 DEF Added
<1> QED
  BY <1>6, <1>10 DEF m, i, s

\* An entry is met that is not the key's: the nearer one is carried on.
LEMMA MeetsEntry ==
    ASSUME NEW t, NEW n, Sound(Homes(n), t, n), NEW e \in Entry, NEW d \in 0..n-1, NEW w,
           Carrying(Homes(n), t, n, e, d, w), t[Ring(Homes(n)[e.key], d, n)] # Z!Empty,
           \A j \in Taken(t, n) : t[j].key # e.key
    PROVE  Carrying(Homes(n), t, n, e, d + 1, Z!Met(w, Ring(Homes(n)[e.key], d, n), e, n))
<1> DEFINE h == Homes(n)
           s == h[e.key]
           i == Ring(s, d, n)
           c == w.carried
           x == w.t[i]
           u == [w.t EXCEPT ![i] = c]
           m == Z!Met(w, i, e, n)
<1>1. n \in Nat \ {0} /\ s \in 0..n-1 /\ i \in 0..n-1 /\ Gap(i, s, n) = d
      /\ (d + 1 < n => Before(Ring(s, d + 1, n), n) = i)
  <2>1. n \in Nat \ {0} /\ s \in 0..n-1
    BY SoundParts DEF Entry
  <2> HIDE DEF s
  <2> QED
    BY <2>1, GapOf
<1>2. t[i] # Z!Empty /\ i \in Taken(t, n)
  BY <1>1 DEF Taken
<1>s. s = h[e.key] /\ s = Homes(n)[e.key]
  OBVIOUS
<1>i. Ring(h[e.key], d, n) = i /\ Ring(s, d, n) = i /\ Ring(Homes(n)[e.key], d, n) = i
  OBVIOUS
<1>h. Homes(n) = h
  OBVIOUS
<1> HIDE DEF s, i
<1>3. /\ w \in Walker(n) /\ Sound(h, w.t, n) /\ c \in Entry /\ x = t[i] /\ w.dist <= d
      /\ Taken(w.t, n) = Taken(t, n) /\ \A j \in Taken(w.t, n) : w.t[j].key # c.key
      /\ EntriesOf(w.t, n) \cup {c} = EntriesOf(t, n) \cup {e}
      /\ Gap(i, h[c.key], n) = w.dist
      /\ w.dist > 0 => /\ Before(i, n) \in Taken(w.t, n)
                       /\ Far(h, w.t, Before(i, n), n) >= w.dist - 1
      /\ \A j \in 0..n-1 : Gap(j, s, n) >= d => w.t[j] = t[j]
  BY <1>1, <1>2, <1>s, <1>i, <1>h DEF Carrying
<1>4. c # Z!Empty /\ x # Z!Empty /\ x.key # e.key /\ i \in Taken(w.t, n) /\ w.dist \in 0..n-1
  BY <1>1, <1>2, <1>3, EntryIs DEF Bucket, Walker
<1>5. x \in Entry /\ x.key \in ZKey /\ Far(h, w.t, i, n) \in 0..n-1
  BY <1>3, <1>4, SoundParts
<1>6. Z!Dist(i, x.key, n) = Far(h, w.t, i, n)
  BY <1>1, <1>3, <1>5, BehindIs DEF Sound, Far
<1>7. \A j \in 0..n-1 : Gap(j, s, n) >= d + 1 => j # i /\ w.t[j] = t[j]
  <2>1. \A j \in 0..n-1 : Gap(j, s, n) \in 0..n-1
    BY <1>1, GapIs
  <2> QED
    BY <2>1, <1>1, <1>3
<1>g. \A k \in ZKey : d + 1 < n /\ Gap(i, h[k], n) + 1 < n =>
                         Gap(Ring(s, d + 1, n), h[k], n) = Gap(i, h[k], n) + 1
  <2>1. \A k \in ZKey : h[k] \in 0..n-1
    BY <1>3, SoundParts
  <2>2. ASSUME NEW k \in ZKey, d + 1 < n, Gap(i, h[k], n) + 1 < n
        PROVE  Gap(Ring(s, d + 1, n), h[k], n) = Gap(i, h[k], n) + 1
    <3> DEFINE r == h[k]
    <3>1. r \in 0..n-1 /\ Gap(Ring(s, d, n), r, n) + 1 < n
      BY <2>1, <2>2, <1>i
    <3> HIDE DEF r
    <3>2. Gap(Ring(s, d + 1, n), r, n) = Gap(Ring(s, d, n), r, n) + 1
      BY <1>1, <2>2, <3>1, GapNext
    <3> QED
      BY <3>2, <1>i DEF r
  <2> QED
    BY <2>2
<1>8. CASE w.dist > Far(h, w.t, i, n)
  <2>1. m = [t |-> u, carried |-> x, dist |-> Far(h, w.t, i, n) + 1]
    BY <1>4, <1>6, <1>8 DEF Z!Met
  <2> HIDE DEF m, c, x
  <2>2. \A j \in Taken(w.t, n) : w.t[j].key # c.key
    BY <1>3
  <2>3. Far(h, w.t, i, n) <= Gap(i, h[c.key], n)
    BY <1>3, <1>4, <1>5, <1>8
  <2>4. /\ Sound(h, u, n) /\ Taken(u, n) = Taken(w.t, n) \cup {i}
        /\ EntriesOf(u, n) = {w.t[j] : j \in Taken(w.t, n) \ {i}} \cup {c}
    <3> HIDE DEF h
    <3>1. MayPut(h, w.t, n, i, c)
      BY <1>3, <2>2, <2>3 DEF MayPut
    <3>2. HasPut(h, w.t, n, i, c, u)
      BY <1>1, <1>3, <3>1, PutsIn
    <3> QED
      BY <3>2 DEF HasPut
  <2>5. w.t \in [0..n-1 -> Bucket] /\ u[i] = c /\ \A j \in 0..n-1 : j # i => u[j] = w.t[j]
    BY <1>1, <1>3 DEF Walker
  <2>6. Taken(u, n) = Taken(t, n) /\ Taken(u, n) = Taken(w.t, n)
    BY <1>3, <1>4, <2>4
  <2>7. EntriesOf(u, n) \cup {x} = EntriesOf(t, n) \cup {e}
    <3>1. EntriesOf(w.t, n) = {w.t[j] : j \in Taken(w.t, n) \ {i}} \cup {x}
      BY <1>4 DEF EntriesOf, x
    <3> QED
      BY <3>1, <2>4, <1>3
  <2>8. \A j \in Taken(u, n) : u[j].key # x.key
    <3>1. x.key # c.key
      BY <1>3, <1>4 DEF x
    <3>2. \A j \in Taken(w.t, n) : j # i => w.t[j].key # x.key
      BY <1>3, <1>4 DEF Sound, OnceEach, x
    <3>3. \A j \in Taken(w.t, n) : j \in 0..n-1
      BY DEF Taken
    <3> QED
      BY <3>1, <3>2, <3>3, <2>5, <2>6
  <2>9. ASSUME d + 1 < n
        PROVE  /\ Gap(Ring(s, d + 1, n), h[x.key], n) = Far(h, w.t, i, n) + 1
               /\ Before(Ring(s, d + 1, n), n) \in Taken(u, n)
               /\ Far(h, u, Before(Ring(s, d + 1, n), n), n) >= (Far(h, w.t, i, n) + 1) - 1
    <3>1. Gap(i, h[x.key], n) = Far(h, w.t, i, n)
      BY DEF Far, x
    <3>2. Far(h, w.t, i, n) + 1 < n
      BY <1>1, <1>3, <1>4, <1>5, <1>8, <2>9
    <3>3. Gap(Ring(s, d + 1, n), h[x.key], n) = Far(h, w.t, i, n) + 1
      BY <1>5, <1>g, <2>9, <3>1, <3>2
    <3>4. Before(Ring(s, d + 1, n), n) = i /\ i \in Taken(u, n)
      BY <1>1, <1>4, <2>6, <2>9
    <3>5. Far(h, u, i, n) = w.dist
      BY <2>5, <1>3 DEF Far
    <3>6. w.dist >= (Far(h, w.t, i, n) + 1) - 1
      BY <1>4, <1>5, <1>8
    <3> QED
      BY <3>3, <3>4, <3>5, <3>6
  <2>10. m \in Walker(n) /\ m.t = u /\ m.carried = x /\ m.dist = Far(h, w.t, i, n) + 1
    <3>1. x \in Bucket /\ Far(h, w.t, i, n) + 1 \in Nat /\ u \in [0..n-1 -> Bucket]
      BY <1>5, <2>4 DEF Bucket, Sound
    <3> QED
      BY <2>1, <3>1 DEF Walker
  <2>11. m.dist <= d + 1
    BY <2>10, <1>3, <1>4, <1>5, <1>8
  <2>12. \A j \in 0..n-1 : Gap(j, s, n) >= d + 1 => u[j] = t[j]
    BY <1>7, <2>5
  <2>13. Carrying(h, t, n, e, d + 1, m)
    <3> HIDE DEF h, u
    <3> QED
      BY <1>5, <1>s, <2>4, <2>6, <2>7, <2>8, <2>9, <2>10, <2>11, <2>12 DEF Carrying
  <2> QED
    BY <2>13, <1>h, <1>i DEF m
<1>9. CASE ~(w.dist > Far(h, w.t, i, n))
  <2>1. m = [w EXCEPT !.dist = @ + 1]
    BY <1>4, <1>6, <1>9 DEF Z!Met
  <2>2. m \in Walker(n) /\ m.t = w.t /\ m.carried = c /\ m.dist = w.dist + 1
    BY <2>1, <1>3, <1>4 DEF Walker
  <2> HIDE DEF m, c, x
  <2>3. ASSUME d + 1 < n
        PROVE  /\ Gap(Ring(s, d + 1, n), h[c.key], n) = w.dist + 1
               /\ Before(Ring(s, d + 1, n), n) \in Taken(w.t, n)
               /\ Far(h, w.t, Before(Ring(s, d + 1, n), n), n) >= (w.dist + 1) - 1
    <3>1. c.key \in ZKey
      BY <1>3 DEF Entry
    <3>2. Gap(i, h[c.key], n) + 1 < n
      BY <1>1, <1>3, <1>4, <2>3
    <3>3. Gap(Ring(s, d + 1, n), h[c.key], n) = w.dist + 1
      BY <1>3, <1>g, <2>3, <3>1, <3>2
    <3>4. Before(Ring(s, d + 1, n), n) = i
      BY <1>1, <2>3
    <3>5. Far(h, w.t, i, n) >= (w.dist + 1) - 1
      BY <1>4, <1>5, <1>9
    <3> QED
      BY <3>3, <3>4, <3>5, <1>4
  <2>4. w.dist + 1 <= d + 1
    BY <1>3, <1>4
  <2>5. Carrying(h, t, n, e, d + 1, m)
    <3> HIDE DEF h
    <3>1. \A j \in Taken(w.t, n) : w.t[j].key # c.key
      BY <1>3
    <3> QED
      BY <1>3, <1>7, <1>s, <2>2, <2>3, <2>4, <3>1 DEF Carrying
  <2> QED
    BY <2>5, <1>h, <1>i DEF m
<1> QED
  BY <1>8, <1>9

\* One round of the loop of put, and all of it.
Round1(f, d, t, e, n) == IF d = 0 THEN [t |-> t, carried |-> e, dist |-> 0]
                         ELSE Z!Met(f[d - 1], Z!Behind(e.key, d - 1, n), e, n)
IsWalk(f, t, e, n, c) == f = [d \in 0..c |-> Round1(f, d, t, e, n)]

\* The loop can be run.
LEMMA WalkExists ==
    ASSUME NEW t, NEW e, NEW n \in Nat, NEW c \in Nat
    PROVE  \E f : IsWalk(f, t, e, n, c)
<1> DEFINE T == {b \in Nat : \E f : IsWalk(f, t, e, n, b)}
           first == [t |-> t, carried |-> e, dist |-> 0]
           next(x, d) == Z!Met(x, Z!Behind(e.key, d, n), e, n)
<1>1. 0 \in T
  <2> DEFINE f == [d \in 0..0 |-> first]
  <2>1. \A d \in 0..0 : f[d] = Round1(f, d, t, e, n)
    BY DEF Round1
  <2>2. IsWalk(f, t, e, n, 0)
    BY <2>1 DEF IsWalk
  <2> QED
    BY <2>2
<1>2. ASSUME NEW b \in Nat, b \in T PROVE b + 1 \in T
  <2>1. PICK f : IsWalk(f, t, e, n, b)
    BY <1>2
  <2> DEFINE g == [d \in 0..b+1 |-> IF d = b + 1 THEN next(f[b], b) ELSE f[d]]
  <2>2. \A d \in 0..b : f[d] = Round1(f, d, t, e, n)
    BY <2>1 DEF IsWalk
  <2>3. g[b + 1] = next(f[b], b) /\ \A d \in 0..b : g[d] = f[d]
    OBVIOUS
  <2>4. DOMAIN g = 0..b+1 /\ g = [d \in 0..b+1 |-> g[d]]
    OBVIOUS
  <2> HIDE DEF g
  <2>5. ASSUME NEW d \in 0..b+1 PROVE g[d] = Round1(g, d, t, e, n)
    <3>1. CASE d = b + 1
      BY <3>1, <2>3 DEF Round1
    <3>2. CASE d # b + 1
      <4>1. d \in 0..b /\ g[d] = f[d] /\ (d # 0 => d - 1 \in 0..b /\ g[d - 1] = f[d - 1])
        BY <3>2, <2>3
      <4> QED
        BY <4>1, <2>2 DEF Round1
    <3> QED
      BY <3>1, <3>2
  <2>6. IsWalk(g, t, e, n, b + 1)
    BY <2>4, <2>5 DEF IsWalk
  <2> QED
    BY <2>6
<1> HIDE DEF T
<1>3. Nat \subseteq T
  BY <1>1, <1>2, SetInduction
<1> QED
  BY <1>3 DEF T

\* An insertion runs it.
LEMMA InsertedIs ==
    ASSUME NEW t, NEW e, NEW n \in Nat
    PROVE  \E f : /\ Z!Inserted(t, e, n) = f[n].t
                  /\ f[0] = [t |-> t, carried |-> e, dist |-> 0]
                  /\ \A d \in 0..n-1 : f[d + 1] = Z!Met(f[d], Z!Behind(e.key, d, n), e, n)
<1> DEFINE g == CHOOSE f : IsWalk(f, t, e, n, n)
<1>1. IsWalk(g, t, e, n, n)
  BY WalkExists
<1>2. Z!Inserted(t, e, n) = g[n].t
  BY DEF Z!Inserted, IsWalk, Round1
<1> HIDE DEF g
<1>3. \A d \in 0..n : g[d] = Round1(g, d, t, e, n)
  BY <1>1 DEF IsWalk
<1>4. g[0] = [t |-> t, carried |-> e, dist |-> 0]
  BY <1>3 DEF Round1
<1>5. ASSUME NEW d \in 0..n-1 PROVE g[d + 1] = Z!Met(g[d], Z!Behind(e.key, d, n), e, n)
  <2>1. d + 1 \in 0..n /\ d + 1 # 0 /\ (d + 1) - 1 = d
    OBVIOUS
  <2> QED
    BY <2>1, <1>3 DEF Round1
<1> QED
  BY <1>2, <1>4, <1>5

\* A key that is not in the table: its entry is added.
LEMMA InsertsNew ==
    ASSUME NEW t, NEW n, Sound(Homes(n), t, n), NEW e \in Entry,
           \A j \in Taken(t, n) : t[j].key # e.key,
           \E j \in 0..n-1 : t[j] = Z!Empty
    PROVE  Added(Homes(n), t, n, e, Z!Inserted(t, e, n))
<1> DEFINE h == Homes(n)
           s == h[e.key]
<1>1. n \in Nat \ {0} /\ s \in 0..n-1 /\ h \in [ZKey -> 0..n-1] /\ e.key \in ZKey
  BY SoundParts DEF Sound, Entry
<1>2. PICK f : /\ Z!Inserted(t, e, n) = f[n].t
               /\ f[0] = [t |-> t, carried |-> e, dist |-> 0]
               /\ \A d \in 0..n-1 : f[d + 1] = Z!Met(f[d], Z!Behind(e.key, d, n), e, n)
  BY <1>1, InsertedIs
<1>3. PICK z \in 0..n-1 : t[z] = Z!Empty
  OBVIOUS
<1> DEFINE b == Gap(z, s, n)
           Done(d) == f[d].carried = Z!Empty /\ Added(h, t, n, e, f[d].t)
           T == {d \in Nat : d <= n => \/ d <= b /\ Carrying(h, t, n, e, d, f[d])
                                       \/ Done(d)}
<1>4. b \in 0..n-1 /\ Ring(s, b, n) = z
  BY <1>1, <1>3, GapIs
<1>5. Carrying(h, t, n, e, 0, f[0])
  <2>1. Ring(s, 0, n) = s /\ Gap(s, s, n) = 0
    BY <1>1 DEF Ring, Gap
  <2>2. /\ f[0] \in Walker(n) /\ f[0].t = t /\ f[0].carried = e /\ f[0].dist = 0
    BY <1>2 DEF Walker, Sound, Bucket
  <2> HIDE DEF h
  <2> QED
    BY <1>1, <2>1, <2>2 DEF Carrying, h
<1> HIDE DEF s, b
<1>6. 0 \in T
  BY <1>4, <1>5
<1>7. ASSUME NEW d \in Nat, d \in T PROVE d + 1 \in T
  <2> SUFFICES ASSUME d + 1 <= n
               PROVE  (d + 1 <= b /\ Carrying(h, t, n, e, d + 1, f[d + 1])) \/ Done(d + 1)
    OBVIOUS
  <2> DEFINE i == Ring(s, d, n)
  <2>1. d \in 0..n-1 /\ d <= n
    BY <1>1
  <2>2. f[d + 1] = Z!Met(f[d], i, e, n)
    <3>1. Z!Behind(e.key, d, n) = i
      <4>1. \A c \in 0..n-1 : Z!Behind(e.key, c, n) = Ring(Homes(n)[e.key], c, n)
        BY <1>1, BehindIs
      <4> QED
        BY <4>1, <2>1 DEF s
    <3> QED
      BY <3>1, <2>1, <1>2
  <2>3. CASE Done(d)
    <3>1. f[d + 1] = f[d]
      BY <2>2, <2>3 DEF Z!Met
    <3> QED
      BY <2>3, <3>1
  <2>4. CASE d <= b /\ Carrying(h, t, n, e, d, f[d])
    <3>1. CASE t[i] = Z!Empty
      <4>1. /\ Z!Met(f[d], Ring(h[e.key], d, n), e, n).carried = Z!Empty
            /\ Added(h, t, n, e, Z!Met(f[d], Ring(h[e.key], d, n), e, n).t)
        <5> HIDE DEF h
        <5> QED
          BY <2>1, <2>4, <3>1, MeetsEmpty DEF s, h
      <4> QED
        BY <4>1, <2>2 DEF s
    <3>2. CASE t[i] # Z!Empty
      <4>1. d # b
        BY <1>3, <1>4, <3>2
      <4>2. Carrying(h, t, n, e, d + 1, f[d + 1])
        BY <2>1, <2>2, <2>4, <3>2, MeetsEntry DEF s
      <4> QED
        BY <4>1, <4>2, <2>1, <2>4, <1>4
    <3> QED
      BY <3>1, <3>2
  <2> QED
    BY <1>7, <2>1, <2>3, <2>4
<1> HIDE DEF T
<1>8. Nat \subseteq T
  BY <1>6, <1>7, SetInduction
<1>9. n \in T /\ ~(n <= b)
  BY <1>1, <1>4, <1>8
<1>10. Done(n)
  BY <1>1, <1>9 DEF T
<1> QED
  BY <1>2, <1>10

\* A key that is in the table: its entry is replaced.
LEMMA InsertsOld ==
    ASSUME NEW t, NEW n, Sound(Homes(n), t, n), NEW e \in Entry, NEW p \in Taken(t, n),
           t[p].key = e.key
    PROVE  HasPut(Homes(n), t, n, p, e, Z!Inserted(t, e, n))
<1> DEFINE h == Homes(n)
           s == h[e.key]
           b == Far(h, t, p, n)
           u == [t EXCEPT ![p] = e]
<1>1. n \in Nat \ {0} /\ s \in 0..n-1 /\ h \in [ZKey -> 0..n-1] /\ e.key \in ZKey
  BY SoundParts DEF Sound, Entry
<1>2. PICK f : /\ Z!Inserted(t, e, n) = f[n].t
               /\ f[0] = [t |-> t, carried |-> e, dist |-> 0]
               /\ \A d \in 0..n-1 : f[d + 1] = Z!Met(f[d], Z!Behind(e.key, d, n), e, n)
  BY <1>1, InsertedIs
<1>3. p \in 0..n-1 /\ b \in 0..n-1 /\ Ring(s, b, n) = p /\ b = Gap(p, s, n)
  BY SoundParts DEF Far
<1>4. HasPut(h, t, n, p, e, u)
  <2>1. MayPut(h, t, n, p, e)
    <3>1. b > 0 => Before(p, n) \in Taken(t, n) /\ Far(h, t, Before(p, n), n) >= b - 1
      BY DEF Sound, Robin
    <3>2. \A j \in Taken(t, n) : t[j].key = e.key => j = p
      BY DEF Sound, OnceEach
    <3> HIDE DEF h
    <3> QED
      BY <1>3, <3>1, <3>2 DEF MayPut
  <2> QED
    BY <1>3, <2>1, PutsIn
<1>5. e # Z!Empty
  BY EntryIs DEF Bucket
<1>b. b = Far(h, t, p, n)
  OBVIOUS
<1> HIDE DEF s, b
<1> DEFINE T == {d \in Nat : d <= n =>
                    /\ d <= b => f[d] = [t |-> t, carried |-> e, dist |-> d]
                    /\ d > b => f[d].carried = Z!Empty /\ f[d].t = u}
<1>6. 0 \in T
  BY <1>2, <1>3
<1>7. ASSUME NEW d \in Nat, d \in T PROVE d + 1 \in T
  <2> SUFFICES ASSUME d + 1 <= n
               PROVE  /\ d + 1 <= b => f[d + 1] = [t |-> t, carried |-> e, dist |-> d + 1]
                      /\ d + 1 > b => f[d + 1].carried = Z!Empty /\ f[d + 1].t = u
    OBVIOUS
  <2> DEFINE i == Ring(s, d, n)
  <2>1. d \in 0..n-1 /\ d <= n
    BY <1>1
  <2>2. f[d + 1] = Z!Met(f[d], i, e, n)
    <3>1. Z!Behind(e.key, d, n) = i
      <4>1. \A c \in 0..n-1 : Z!Behind(e.key, c, n) = Ring(Homes(n)[e.key], c, n)
        BY <1>1, BehindIs
      <4> QED
        BY <4>1, <2>1 DEF s
    <3> QED
      BY <3>1, <2>1, <1>2
  <2>3. CASE d > b
    <3>1. f[d + 1] = f[d]
      BY <1>7, <2>1, <2>2, <2>3 DEF Z!Met
    <3> QED
      BY <1>3, <1>7, <2>1, <2>3, <3>1
  <2>4. CASE d = b
    <3>1. f[d] = [t |-> t, carried |-> e, dist |-> d]
      BY <1>3, <1>7, <2>1, <2>4
    <3>2. i = p
      BY <1>3, <2>4
    <3>3. f[d + 1] = [f[d] EXCEPT !.t[p] = e, !.carried = Z!Empty]
      BY <1>5, <2>2, <3>1, <3>2 DEF Z!Met
    <3>4. f[d + 1].carried = Z!Empty /\ f[d + 1].t = u
      BY <3>1, <3>3
    <3> QED
      BY <1>3, <2>4, <3>4
  <2>5. CASE d < b
    <3>1. f[d] = [t |-> t, carried |-> e, dist |-> d]
      BY <1>3, <1>7, <2>1, <2>5
    <3>2. i \in Taken(t, n) /\ Far(h, t, i, n) >= d
      <4>1. d \in 0..Far(h, t, p, n)
        BY <1>3, <1>b, <2>5
      <4>2. /\ Ring(h[t[p].key], d, n) \in Taken(t, n)
            /\ Far(h, t, Ring(h[t[p].key], d, n), n) >= d
        <5> HIDE DEF h
        <5> QED
          BY <4>1, NoneNearer DEF h
      <4> QED
        BY <4>2 DEF s
    <3>3. i # p
      <4>1. \A c \in 0..n-1 : Gap(Ring(s, c, n), s, n) = c
        BY <1>1, GapOf
      <4> QED
        BY <4>1, <1>3, <2>1, <2>5
    <3>4. t[i].key # e.key /\ t[i] # Z!Empty
      BY <3>2, <3>3 DEF Sound, OnceEach, Taken
    <3>5. t[i].key \in ZKey /\ i \in 0..n-1 /\ Far(h, t, i, n) \in 0..n-1
      BY <3>2, SoundParts
    <3>6. Z!Dist(i, t[i].key, n) = Far(h, t, i, n)
      BY <1>1, <3>5, BehindIs DEF Far
    <3>7. ~(d > Z!Dist(i, t[i].key, n))
      BY <2>1, <3>2, <3>5, <3>6
    <3>8. f[d + 1] = [f[d] EXCEPT !.dist = @ + 1]
      BY <1>5, <2>2, <3>1, <3>4, <3>7 DEF Z!Met
    <3>9. f[d + 1] = [t |-> t, carried |-> e, dist |-> d + 1]
      BY <3>1, <3>8
    <3> QED
      BY <1>3, <2>5, <3>9
  <2> QED
    BY <1>3, <2>1, <2>3, <2>4, <2>5
<1> HIDE DEF T
<1>8. Nat \subseteq T
  BY <1>6, <1>7, SetInduction
<1>9. n \in T /\ n > b
  BY <1>1, <1>3, <1>8
<1>10. f[n].t = u
  BY <1>1, <1>9 DEF T
<1> QED
  BY <1>2, <1>4, <1>10

-----------------------------------------------------------------------------
(* Removal *)

\* u is t without the entry of p: the l entries behind p are one place further back.  They are
\* not at home, and behind them lies nothing or an entry that is.
Shifted(h, t, n, p, l, u) ==
    /\ l \in 0..n-2
    /\ u \in [0..n-1 -> Bucket]
    /\ \A c \in 0..n-1 : u[Ring(p, c, n)] = IF c < l THEN t[Ring(p, c + 1, n)]
                                            ELSE IF c = l THEN Z!Empty ELSE t[Ring(p, c, n)]
    /\ \A c \in 1..l : Ring(p, c, n) \in Taken(t, n) /\ Far(h, t, Ring(p, c, n), n) > 0
    /\ Ring(p, l + 1, n) \in Taken(t, n) => Far(h, t, Ring(p, l + 1, n), n) = 0

\* That is what the loop of remove does.
LEMMA MovedBackIs ==
    ASSUME Sound(Homes(capacity), buckets, capacity), NEW p \in Taken(buckets, capacity),
           \E z \in 0..capacity-1 : buckets[z] = Z!Empty
    PROVE  \E l : Shifted(Homes(capacity), buckets, capacity, p, l, Z!MovedBack(p))
<1> DEFINE n == capacity
           h == Homes(n)
           t == buckets
           next(j) == (j + 1) % n
           behind(d) == (p + d + 1) % n
           ends(d) == t[behind(d)] = Z!Empty \/ Z!Dist(behind(d), t[behind(d)].key, n) = 0
           E == {d \in 0..n-1 : ends(d)}
           l == Z!Least(E)
           from(j) == (j - p) % n
           u == [j \in 0..n-1 |-> IF from(j) < l THEN t[next(j)]
                                  ELSE IF from(j) = l THEN Z!Empty ELSE t[j]]
<1>1. /\ n \in Nat \ {0} /\ p \in 0..n-1 /\ p \in Taken(t, n) /\ h \in [ZKey -> 0..n-1]
      /\ \A j \in 0..n-1 : t[j] \in Bucket
  BY SoundParts DEF Sound
<1>2. PICK z \in 0..n-1 : t[z] = Z!Empty
  OBVIOUS
<1>3. Z!MovedBack(p) = u
  BY DEF Z!MovedBack, Z!Index
<1>4. \A d \in 0..n-1 : d + 1 < n => behind(d) = Ring(p, d + 1, n)
  <2>1. ASSUME NEW d \in 0..n-1, d + 1 < n PROVE behind(d) = Ring(p, d + 1, n)
    <3> DEFINE c == d + 1
    <3>1. c \in 0..n-1 /\ p + d + 1 = p + c
      BY <1>1, <2>1
    <3>2. behind(d) = (p + c) % n
      BY <3>1
    <3> HIDE DEF c
    <3>3. (p + c) % n = Ring(p, c, n)
      BY <1>1, <3>1, RingIs
    <3> QED
      BY <3>2, <3>3 DEF c
  <2> QED
    BY <2>1
<1>5. \A j \in 0..n-1 : from(j) = Gap(j, p, n)
  BY <1>1, GapMod
<1>6. \A c \in 0..n-1 : c + 1 < n => next(Ring(p, c, n)) = Ring(p, c + 1, n)
  BY <1>1, RingNext
<1>7. \A c \in 0..n-1 : Ring(p, c, n) \in 0..n-1 /\ Gap(Ring(p, c, n), p, n) = c
  BY <1>1, GapOf
<1>8. \A i \in Taken(t, n) : /\ i \in 0..n-1 /\ Far(h, t, i, n) \in 0..n-1
                             /\ Z!Dist(i, t[i].key, n) = Far(h, t, i, n)
  BY <1>1, SoundParts, BehindIs DEF Far
<1>9. \A i \in 0..n-1 : i \notin Taken(t, n) <=> t[i] = Z!Empty
  BY DEF Taken
<1>e. E \in SUBSET Nat /\ \A d \in 0..n-1 : d \in E <=> ends(d)
  BY <1>1
<1> HIDE DEF n, h, t, next, behind, from
<1>10. \A d \in 0..n-1 : d + 1 < n => (ends(d) <=>
            (Ring(p, d + 1, n) \in Taken(t, n) => Far(h, t, Ring(p, d + 1, n), n) = 0))
  <2>1. ASSUME NEW d \in 0..n-1, d + 1 < n
        PROVE  ends(d) <=> (Ring(p, d + 1, n) \in Taken(t, n) =>
                                Far(h, t, Ring(p, d + 1, n), n) = 0)
    <3> DEFINE j == behind(d)
    <3>1. d + 1 \in 0..n-1
      BY <1>1, <2>1
    <3>2. j = Ring(p, d + 1, n) /\ Ring(p, d + 1, n) \in 0..n-1
      BY <1>4, <1>7, <2>1, <3>1
    <3> QED
      BY <3>2, <1>8, <1>9
  <2> QED
    BY <2>1
<1> HIDE DEF ends, E
<1>11. l \in 0..n-2 /\ l \in E /\ \A d \in E : l <= d
  <2> DEFINE b == Gap(z, p, n)
  <2>1. b \in 0..n-1 /\ Ring(p, b, n) = z
    BY <1>1, <1>2, GapIs
  <2> HIDE DEF b
  <2>2. z # p /\ Ring(p, 0, n) = p
    BY <1>1, <1>2, <1>9 DEF Ring
  <2>3. b # 0
    BY <2>1, <2>2
  <2>4. b - 1 \in 0..n-1 /\ b - 1 \in 0..n-2 /\ (b - 1) + 1 < n /\ (b - 1) + 1 = b
    BY <1>1, <2>1, <2>3
  <2>5. b - 1 \in E
    BY <1>2, <1>9, <1>10, <1>e, <2>1, <2>4
  <2>6. \E m \in E : \A d \in E : m <= d
    BY <2>5, <1>e, LeastOf
  <2>7. l \in E /\ \A d \in E : l <= d
    BY <2>6 DEF Z!Least
  <2> HIDE DEF l
  <2>8. l \in Nat /\ l <= b - 1
    BY <1>e, <2>5, <2>7
  <2> QED
    BY <1>1, <2>4, <2>7, <2>8
<1> HIDE DEF l
<1>12. \A c \in 1..l : Ring(p, c, n) \in Taken(t, n) /\ Far(h, t, Ring(p, c, n), n) > 0
  <2> SUFFICES ASSUME NEW c \in 1..l
               PROVE  Ring(p, c, n) \in Taken(t, n) /\ Far(h, t, Ring(p, c, n), n) > 0
    OBVIOUS
  <2> DEFINE d == c - 1
  <2>1. d \in 0..n-1 /\ d + 1 < n /\ d + 1 = c /\ d < l /\ c \in 0..n-1
    BY <1>1, <1>11
  <2>2. ~(l <= d)
    BY <1>11, <2>1
  <2> HIDE DEF d
  <2>3. ~ends(d)
    BY <1>11, <1>e, <2>1, <2>2
  <2>4. Ring(p, c, n) \in Taken(t, n) /\ Far(h, t, Ring(p, c, n), n) # 0
    BY <1>10, <2>1, <2>3
  <2>5. Far(h, t, Ring(p, c, n), n) \in 0..n-1
    BY <1>8, <2>4
  <2> QED
    BY <1>1, <2>4, <2>5
<1>13. l \in 0..n-1 /\ l + 1 < n
  BY <1>1, <1>11
<1>14. Ring(p, l + 1, n) \in Taken(t, n) => Far(h, t, Ring(p, l + 1, n), n) = 0
  BY <1>10, <1>11, <1>13, <1>e
<1>15. \A c \in 0..n-1 : u[Ring(p, c, n)] = IF c < l THEN t[Ring(p, c + 1, n)]
                                            ELSE IF c = l THEN Z!Empty ELSE t[Ring(p, c, n)]
  <2> SUFFICES ASSUME NEW c \in 0..n-1
               PROVE  u[Ring(p, c, n)] = IF c < l THEN t[Ring(p, c + 1, n)]
                                         ELSE IF c = l THEN Z!Empty ELSE t[Ring(p, c, n)]
    OBVIOUS
  <2> DEFINE j == Ring(p, c, n)
  <2>1. j \in 0..n-1 /\ from(j) = c
    BY <1>5, <1>7
  <2>2. c < l => next(j) = Ring(p, c + 1, n)
    <3>1. c < l => c + 1 < n
      BY <1>1, <1>13
    <3> QED
      BY <3>1, <1>6
  <2> HIDE DEF j
  <2>3. u[j] = IF from(j) < l THEN t[next(j)] ELSE IF from(j) = l THEN Z!Empty ELSE t[j]
    BY <2>1
  <2>4. u[j] = IF c < l THEN t[next(j)] ELSE IF c = l THEN Z!Empty ELSE t[j]
    BY <2>1, <2>3
  <2>5. u[j] = IF c < l THEN t[Ring(p, c + 1, n)] ELSE IF c = l THEN Z!Empty ELSE t[j]
    BY <2>2, <2>4
  <2> QED
    BY <2>5 DEF j
<1>16. u \in [0..n-1 -> Bucket]
  <2>1. \A j \in 0..n-1 : j = Ring(p, Gap(j, p, n), n) /\ Gap(j, p, n) \in 0..n-1
    BY <1>1, GapIs
  <2>2. \A c \in 0..n-1 : c < l => Ring(p, c + 1, n) \in 0..n-1
    <3> SUFFICES ASSUME NEW c \in 0..n-1, c < l PROVE Ring(p, c + 1, n) \in 0..n-1
      OBVIOUS
    <3>1. c + 1 \in 0..n-1
      BY <1>1, <1>13
    <3> QED
      BY <3>1, <1>7
  <2>3. Z!Empty \in Bucket
    BY DEF Bucket
  <2>4. \A c \in 0..n-1 : u[Ring(p, c, n)] \in Bucket
    BY <1>1, <1>7, <1>15, <2>2, <2>3 DEF t, n
  <2>5. \A j \in 0..n-1 : u[j] \in Bucket
    BY <2>1, <2>4
  <2>6. u = [j \in 0..n-1 |-> u[j]]
    OBVIOUS
  <2> HIDE DEF u
  <2> QED
    BY <2>5, <2>6
<1> HIDE DEF u
<1>17. Shifted(h, t, n, p, l, u)
  BY <1>11, <1>12, <1>14, <1>15, <1>16 DEF Shifted
<1> QED
  BY <1>3, <1>17 DEF h, t, n

\* u is t without the entry of p.
Dropped(h, t, n, p, u) ==
    /\ Sound(h, u, n)
    /\ EntriesOf(u, n) = EntriesOf(t, n) \ {t[p]}
    /\ \E q \in Taken(t, n) : Taken(u, n) = Taken(t, n) \ {q}

\* A table whose entries moved back is sound and has lost one entry.
LEMMA ShiftDrops ==
    ASSUME NEW h, NEW t, NEW n, Sound(h, t, n), NEW p \in Taken(t, n), NEW l, NEW u,
           Shifted(h, t, n, p, l, u)
    PROVE  Dropped(h, t, n, p, u)
<1> DEFINE q(c) == Ring(p, c, n)
<1>1. /\ n \in Nat \ {0} /\ p \in 0..n-1 /\ h \in [ZKey -> 0..n-1] /\ l \in 0..n-2
      /\ l \in 0..n-1 /\ l + 1 \in 0..n-1 /\ u \in [0..n-1 -> Bucket]
  BY SoundParts DEF Sound, Shifted
<1>2. \A c \in 0..n-1 : q(c) \in 0..n-1 /\ Gap(q(c), p, n) = c
  BY <1>1, GapOf
<1>3. \A j \in 0..n-1 : Gap(j, p, n) \in 0..n-1 /\ q(Gap(j, p, n)) = j
  BY <1>1, GapIs
<1>4. \A c \in 0..n-1 : c > 0 => Before(q(c), n) = q(c - 1)
  BY <1>1, GapOf
<1>5. /\ \A c \in 0..n-1 : u[q(c)] = IF c < l THEN t[q(c + 1)]
                                     ELSE IF c = l THEN Z!Empty ELSE t[q(c)]
      /\ \A c \in 1..l : q(c) \in Taken(t, n) /\ Far(h, t, q(c), n) > 0
      /\ q(l + 1) \in Taken(t, n) => Far(h, t, q(l + 1), n) = 0
  BY DEF Shifted
<1>6. q(0) = p /\ Before(p, n) = q(n - 1) /\ n - 1 \in 0..n-1
  BY <1>1 DEF Ring, Before
<1> HIDE DEF q
<1>7. \A i \in Taken(t, n) : /\ i \in 0..n-1 /\ t[i].key \in ZKey /\ h[t[i].key] \in 0..n-1
                             /\ Far(h, t, i, n) \in 0..n-1
                             /\ t[i] # Z!Empty
  BY SoundParts DEF Taken
<1>j. \A i \in Taken(t, n) : Far(h, t, i, n) \in Int
  BY <1>1, <1>7
<1>8. \A c \in 0..l : q(c) \in Taken(t, n)
  <2>1. \A c \in 0..l : c = 0 \/ c \in 1..l
    BY <1>1
  <2> QED
    BY <2>1, <1>5, <1>6
<1>9. \A i, j \in Taken(t, n) : t[i].key = t[j].key => i = j
  BY DEF Sound, OnceEach
<1>10. \A i \in Taken(t, n) : Far(h, t, i, n) > 0 =>
          /\ Before(i, n) \in Taken(t, n)
          /\ Far(h, t, Before(i, n), n) >= Far(h, t, i, n) - 1
  BY DEF Sound, Robin
<1>11. \A c \in 0..n-1 : c < l => c + 1 \in 1..l /\ c + 1 \in 0..n-1 /\ c + 1 \in 0..l /\ c \in 0..l
  BY <1>1
<1>12. \A c \in 0..n-1 : q(c) \in Taken(u, n) <=> q(c) \in Taken(t, n) /\ c # l
  <2> SUFFICES ASSUME NEW c \in 0..n-1
               PROVE  q(c) \in Taken(u, n) <=> q(c) \in Taken(t, n) /\ c # l
    OBVIOUS
  <2>0. q(c) \in 0..n-1
    BY <1>2
  <2>1. CASE c < l
    <3>1. u[q(c)] = t[q(c + 1)] /\ q(c + 1) \in Taken(t, n) /\ q(c) \in Taken(t, n)
      BY <2>1, <1>5, <1>8, <1>11
    <3> QED
      BY <2>0, <2>1, <3>1, <1>1, <1>7 DEF Taken
  <2>2. CASE c = l
    BY <2>0, <2>2, <1>1, <1>5 DEF Taken
  <2>3. CASE c > l
    <3>1. u[q(c)] = t[q(c)]
      BY <2>3, <1>1, <1>5
    <3> QED
      BY <2>0, <2>3, <3>1, <1>1 DEF Taken
  <2> QED
    BY <2>1, <2>2, <2>3, <1>1
<1>13. Taken(u, n) = Taken(t, n) \ {q(l)}
  <2>1. \A j \in 0..n-1 : j \in Taken(u, n) <=> j \in Taken(t, n) /\ j # q(l)
    <3> SUFFICES ASSUME NEW j \in 0..n-1
                 PROVE  j \in Taken(u, n) <=> j \in Taken(t, n) /\ j # q(l)
      OBVIOUS
    <3> DEFINE c == Gap(j, p, n)
    <3>1. c \in 0..n-1 /\ q(c) = j
      BY <1>3
    <3>2. j = q(l) <=> c = l
      BY <3>1, <1>1, <1>2
    <3> HIDE DEF c
    <3> QED
      BY <3>1, <3>2, <1>12
  <2>2. Taken(u, n) \subseteq 0..n-1 /\ Taken(t, n) \subseteq 0..n-1
    BY DEF Taken
  <2> QED
    BY <2>1, <2>2
\* Where the entry of q(c) comes from.
<1> DEFINE src(c) == IF c < l THEN c + 1 ELSE c
<1>14. ASSUME NEW c \in 0..n-1, q(c) \in Taken(u, n)
       PROVE  /\ src(c) \in 1..n-1 /\ q(src(c)) \in Taken(t, n) /\ u[q(c)] = t[q(src(c))]
              /\ Far(h, u, q(c), n) = IF c < l THEN Far(h, t, q(c + 1), n) - 1
                                      ELSE Far(h, t, q(c), n)
              /\ q(c) \in Taken(t, n) /\ c # l
  <2>0. c # l /\ q(c) \in Taken(t, n)
    BY <1>12, <1>14
  <2>1. CASE c < l
    <3>1. u[q(c)] = t[q(c + 1)] /\ q(c + 1) \in Taken(t, n) /\ Far(h, t, q(c + 1), n) > 0
          /\ c + 1 \in 1..n-1
      BY <2>1, <1>5, <1>11
    <3> DEFINE s == h[t[q(c + 1)].key]
               i == q(c + 1)
    <3>2. s \in 0..n-1 /\ i \in 0..n-1 /\ Gap(i, s, n) > 0 /\ Before(i, n) = q(c)
      <4>1. c + 1 \in 0..n-1 /\ c + 1 > 0 /\ (c + 1) - 1 = c
        BY <1>1, <2>1, <1>11
      <4> QED
        BY <4>1, <3>1, <1>4, <1>7 DEF Far
    <3>3. Far(h, u, q(c), n) = Gap(q(c), s, n) /\ Far(h, t, i, n) = Gap(i, s, n)
      BY <3>1 DEF Far
    <3> HIDE DEF s, i
    <3>4. Gap(Before(i, n), s, n) = Gap(i, s, n) - 1
      BY <1>1, <3>2, GapIs
    <3>5. Far(h, u, q(c), n) = Far(h, t, q(c + 1), n) - 1
      BY <3>2, <3>3, <3>4 DEF i
    <3> QED
      BY <2>0, <2>1, <3>1, <3>5
  <2>2. CASE c > l
    <3>1. u[q(c)] = t[q(c)]
      BY <2>2, <1>1, <1>5
    <3>2. c \in 1..n-1
      BY <2>2, <1>1
    <3> QED
      BY <2>0, <2>2, <3>1, <3>2, <1>1 DEF Far
  <2> QED
    BY <2>0, <2>1, <2>2, <1>1
<1>15. OnceEach(u, n)
  <2> SUFFICES ASSUME NEW a \in Taken(u, n), NEW b \in Taken(u, n), u[a].key = u[b].key
               PROVE  a = b
    BY DEF OnceEach
  <2> DEFINE c == Gap(a, p, n)
             d == Gap(b, p, n)
  <2>1. c \in 0..n-1 /\ q(c) = a /\ d \in 0..n-1 /\ q(d) = b
    BY <1>3 DEF Taken
  <2> HIDE DEF c, d
  <2>2. /\ q(src(c)) \in Taken(t, n) /\ u[a] = t[q(src(c))] /\ src(c) \in 0..n-1 /\ c # l
        /\ q(src(d)) \in Taken(t, n) /\ u[b] = t[q(src(d))] /\ src(d) \in 0..n-1 /\ d # l
    BY <2>1, <1>14
  <2> HIDE DEF src
  <2>3. q(src(c)) = q(src(d))
    BY <2>2, <1>9
  <2>4. src(c) = src(d)
    BY <2>2, <2>3, <1>2
  <2>5. c = d
    BY <2>1, <2>2, <2>4, <1>1 DEF src
  <2> QED
    BY <2>1, <2>5
<1>16. Robin(h, u, n)
  <2> SUFFICES ASSUME NEW j \in Taken(u, n), Far(h, u, j, n) > 0
               PROVE  /\ Before(j, n) \in Taken(u, n)
                      /\ Far(h, u, Before(j, n), n) >= Far(h, u, j, n) - 1
    BY DEF Robin
  <2> DEFINE c == Gap(j, p, n)
  <2>1. c \in 0..n-1 /\ q(c) = j
    BY <1>3 DEF Taken
  <2> HIDE DEF c
  <2>2. /\ q(src(c)) \in Taken(t, n) /\ q(c) \in Taken(t, n) /\ c # l
        /\ Far(h, u, q(c), n) = IF c < l THEN Far(h, t, q(c + 1), n) - 1
                                ELSE Far(h, t, q(c), n)
    BY <2>1, <1>14
  <2>3. CASE c < l /\ c > 0
    <3>1. /\ q(c + 1) \in Taken(t, n) /\ Far(h, t, q(c + 1), n) > 0 /\ Before(q(c + 1), n) = q(c)
      <4>1. c + 1 \in 1..l /\ c + 1 \in 0..n-1 /\ (c + 1) - 1 = c /\ c + 1 > 0
        BY <2>1, <2>3, <1>11
      <4> QED
        BY <4>1, <1>4, <1>5
    <3>2. Far(h, t, q(c), n) >= Far(h, t, q(c + 1), n) - 1
      BY <3>1, <1>10
    <3>3. c - 1 \in 0..n-1 /\ c - 1 < l /\ c - 1 # l /\ (c - 1) + 1 = c /\ c - 1 \in 0..l
      BY <2>1, <2>3, <1>1
    <3>4. q(c - 1) \in Taken(u, n)
      BY <3>3, <1>8, <1>12
    <3>5. Far(h, u, q(c - 1), n) = Far(h, t, q(c), n) - 1
      <4> DEFINE d == c - 1
      <4>1. d \in 0..n-1 /\ d < l /\ d + 1 = c /\ q(d) \in Taken(u, n)
        BY <3>3, <3>4
      <4> HIDE DEF d
      <4>2. Far(h, u, q(d), n) = Far(h, t, q(d + 1), n) - 1
        BY <4>1, <1>14
      <4> QED
        BY <4>1, <4>2 DEF d
    <3>6. Before(j, n) = q(c - 1)
      BY <2>1, <2>3, <1>4
    <3>7. Far(h, t, q(c), n) \in Int /\ Far(h, t, q(c + 1), n) \in Int
      BY <2>2, <3>1, <1>j
    <3> QED
      BY <2>1, <2>2, <2>3, <3>2, <3>4, <3>5, <3>6, <3>7
  <2>4. CASE c < l /\ c = 0
    <3>1. q(1) \in Taken(t, n) /\ Before(q(1), n) = q(0) /\ 1 \in 0..n-1
      <4>1. 1 \in 1..l /\ 1 \in 0..n-1 /\ 1 - 1 = 0 /\ 1 > 0
        BY <2>4, <1>1
      <4> QED
        BY <4>1, <1>4, <1>5
    <3>2. Far(h, u, j, n) = Far(h, t, q(1), n) - 1
      BY <2>1, <2>2, <2>4
    <3>3. Far(h, t, q(1), n) \in Int /\ Far(h, t, q(0), n) \in Int
      BY <2>2, <2>4, <3>1, <1>j
    <3>4. Far(h, t, q(0), n) >= Far(h, t, q(1), n) - 1
      BY <3>1, <3>2, <3>3, <1>10
    <3>5. Far(h, t, q(0), n) > 0 /\ q(0) \in Taken(t, n)
      BY <2>2, <2>4, <3>2, <3>3, <3>4
    <3>6. q(n - 1) \in Taken(t, n) /\ Far(h, t, q(n - 1), n) >= Far(h, t, q(0), n) - 1
      BY <3>5, <1>6, <1>10
    <3>7. n - 1 > l /\ n - 1 # l /\ ~(n - 1 < l)
      BY <1>1
    <3>8. q(n - 1) \in Taken(u, n)
      BY <3>6, <3>7, <1>6, <1>12
    <3>9. Far(h, u, q(n - 1), n) = Far(h, t, q(n - 1), n)
      BY <3>7, <3>8, <1>6, <1>14
    <3>10. Before(j, n) = q(n - 1)
      BY <2>1, <2>4, <1>6
    <3>11. Far(h, t, q(n - 1), n) \in Int
      BY <3>6, <1>j
    <3> QED
      BY <3>11, <3>2, <3>3, <3>4, <3>6, <3>8, <3>9, <3>10
  <2>5. CASE c > l
    <3>1. Far(h, u, j, n) = Far(h, t, q(c), n)
      BY <2>1, <2>2, <2>5, <1>1
    <3>2. c # l + 1
      BY <2>2, <3>1, <1>5, <1>7, <1>1
    <3>3. c - 1 \in 0..n-1 /\ c - 1 # l /\ ~(c - 1 < l) /\ c > 0
      BY <2>1, <2>5, <3>2, <1>1
    <3>4. Before(q(c), n) = q(c - 1)
      BY <2>1, <3>3, <1>4
    <3>5. q(c - 1) \in Taken(t, n) /\ Far(h, t, q(c - 1), n) >= Far(h, t, q(c), n) - 1
      BY <2>2, <3>1, <3>4, <1>10
    <3>6. q(c - 1) \in Taken(u, n)
      BY <3>3, <3>5, <1>12
    <3>7. Far(h, u, q(c - 1), n) = Far(h, t, q(c - 1), n)
      BY <3>3, <3>6, <1>14
    <3> QED
      BY <2>1, <3>1, <3>4, <3>5, <3>6, <3>7
  <2> QED
    BY <2>1, <2>2, <2>3, <2>4, <2>5, <1>1
<1>17. EntriesOf(u, n) = EntriesOf(t, n) \ {t[p]}
  <2>1. ASSUME NEW j \in Taken(u, n) PROVE u[j] \in EntriesOf(t, n) \ {t[p]}
    <3> DEFINE c == Gap(j, p, n)
    <3>1. c \in 0..n-1 /\ q(c) = j
      BY <1>3 DEF Taken
    <3> HIDE DEF c
    <3>2. /\ src(c) \in 1..n-1 /\ q(src(c)) \in Taken(t, n) /\ u[j] = t[q(src(c))]
      BY <3>1, <1>14
    <3> HIDE DEF src
    <3>3. q(src(c)) # q(0)
      <4>1. src(c) \in 0..n-1 /\ src(c) # 0 /\ 0 \in 0..n-1
        BY <3>2, <1>1
      <4> QED
        BY <4>1, <1>2
    <3>4. t[q(src(c))] # t[p]
      BY <3>2, <3>3, <1>6, <1>9
    <3> QED
      BY <3>2, <3>4 DEF EntriesOf
  <2>2. ASSUME NEW i \in Taken(t, n), t[i] # t[p] PROVE t[i] \in EntriesOf(u, n)
    <3> DEFINE d == Gap(i, p, n)
    <3>1. d \in 0..n-1 /\ q(d) = i
      BY <1>3 DEF Taken
    <3> HIDE DEF d
    <3>2. d # 0
      BY <2>2, <3>1, <1>6
    <3>3. CASE d <= l
      <4> DEFINE c == d - 1
      <4>1. c \in 0..n-1 /\ c < l /\ c + 1 = d /\ c # l /\ c \in 0..l
        BY <3>1, <3>2, <3>3, <1>1
      <4> HIDE DEF c
      <4>2. q(c) \in Taken(u, n) /\ u[q(c)] = t[i]
        BY <3>1, <4>1, <1>5, <1>8, <1>12
      <4> QED
        BY <4>2 DEF EntriesOf
    <3>4. CASE ~(d <= l)
      <4>1. d # l /\ ~(d < l)
        BY <3>1, <3>4, <1>1
      <4>2. q(d) \in Taken(u, n) /\ u[q(d)] = t[i]
        BY <3>1, <4>1, <1>5, <1>12
      <4> QED
        BY <4>2 DEF EntriesOf
    <3> QED
      BY <3>3, <3>4
  <2>3. EntriesOf(u, n) \subseteq EntriesOf(t, n) \ {t[p]}
    BY <2>1 DEF EntriesOf
  <2>4. EntriesOf(t, n) \ {t[p]} \subseteq EntriesOf(u, n)
    <3> SUFFICES ASSUME NEW x \in EntriesOf(t, n) \ {t[p]} PROVE x \in EntriesOf(u, n)
      OBVIOUS
    <3>1. PICK i \in Taken(t, n) : x = t[i]
      BY DEF EntriesOf
    <3> QED
      BY <3>1, <2>2
  <2> QED
    BY <2>3, <2>4
<1>18. Sound(h, u, n)
  BY <1>1, <1>15, <1>16 DEF Sound
<1>19. q(l) \in Taken(t, n)
  BY <1>1, <1>8
<1> QED
  BY <1>13, <1>17, <1>18, <1>19 DEF Dropped

-----------------------------------------------------------------------------
(* The homes, and what the entries stand for *)

\* A quotient of a number below n * m.
LEMMA QuotientBelow ==
    ASSUME NEW n \in Nat \ {0}, NEW m \in Nat \ {0}, NEW a \in Nat, a < n * m
    PROVE  (n * m) \div m = n /\ (n * m) \div n = m /\ a \div m \in 0..n-1
<1>1. (n * m) \div m = n
  <2> DEFINE q == (n * m) \div m
             r == (n * m) % m
  <2>1. n * m \in Nat
    OBVIOUS
  <2> QED
    BY <2>1
<1>2. (n * m) \div n = m
  OBVIOUS
<1>3. a \div m \in 0..n-1
  <2> DEFINE q == a \div m
  <2>1. q \in Nat /\ q * m <= a
    OBVIOUS
  <2> HIDE DEF q
  <2>2. q < n
    <3>1. SUFFICES ASSUME q >= n PROVE FALSE
      BY <2>1
    <3>2. q * m >= n * m
      BY <2>1, <3>1
    <3>3. q * m \in Nat /\ n * m \in Nat
      BY <2>1
    <3> QED
      BY <2>1, <3>2, <3>3
  <2> QED
    BY <2>1, <2>2 DEF q
<1> QED
  BY <1>1, <1>2, <1>3

\* The leading bits are an index.
LEMMA HomeIs ==
    ASSUME zhash \in [ZKey -> 0..ZMaxCap-1], ZMaxCap \in Nat, NEW n \in Nat \ {0},
           \E m \in 1..ZMaxCap : ZMaxCap = n * m
    PROVE  Homes(n) \in [ZKey -> 0..n-1]
<1>1. PICK m \in 1..ZMaxCap : ZMaxCap = n * m
  OBVIOUS
<1>2. m \in Nat \ {0}
  BY <1>1
<1>3. ASSUME NEW k \in ZKey PROVE Z!Home(k, n) \in 0..n-1
  <2> DEFINE a == zhash[k]
  <2>1. a \in Nat /\ a < n * m
    BY <1>1
  <2>2. Z!Home(k, n) = a \div (ZMaxCap \div n)
    BY DEF Z!Home
  <2> HIDE DEF a
  <2>3. ZMaxCap \div n = m
    BY <1>1, <1>2, <2>1, QuotientBelow
  <2>4. a \div m \in 0..n-1
    BY <1>2, <2>1, QuotientBelow
  <2> QED
    BY <2>2, <2>3, <2>4
<1> QED
  BY <1>3 DEF Homes

\* The map that a set of entries stands for.
MapFrom(E) == [k \in ZKey |-> IF \E x \in E : x.key = k THEN (CHOOSE x \in E : x.key = k).val
                              ELSE Absent]

\* The entries have different keys.
OnceOnly(E) == E \in SUBSET Entry /\ \A x, y \in E : x.key = y.key => x = y

\* A key with an entry has its value.
LEMMA MapHas ==
    ASSUME NEW E, OnceOnly(E), NEW x \in E
    PROVE  x.key \in ZKey /\ x.val \in ZVal /\ MapFrom(E)[x.key] = x.val /\ x.val # Absent
<1>1. x.key \in ZKey /\ x.val \in ZVal
  BY DEF OnceOnly, Entry
<1>2. (CHOOSE y \in E : y.key = x.key) = x
  BY DEF OnceOnly
<1>3. Absent \notin ZVal
  BY ZMapsAssumption DEF Z!ZMapAssumption
<1> QED
  BY <1>1, <1>2, <1>3 DEF MapFrom

\* A key without one has none.
LEMMA MapHasNot ==
    ASSUME NEW E, NEW k \in ZKey, \A x \in E : x.key # k
    PROVE  MapFrom(E)[k] = Absent
BY DEF MapFrom

\* The key is in the map if it has an entry.
LEMMA MapShows ==
    ASSUME NEW E, OnceOnly(E), NEW k \in ZKey
    PROVE  MapFrom(E)[k] # Absent <=> \E x \in E : x.key = k
BY MapHas, MapHasNot

\* An entry in place of any that had its key.
LEMMA MapPuts ==
    ASSUME NEW E, OnceOnly(E), NEW e \in Entry, NEW F, F = {x \in E : x.key # e.key} \cup {e}
    PROVE  OnceOnly(F) /\ MapFrom(F) = [MapFrom(E) EXCEPT ![e.key] = e.val]
<1>1. OnceOnly(F)
  BY DEF OnceOnly
<1>2. ASSUME NEW k \in ZKey
      PROVE  MapFrom(F)[k] = IF k = e.key THEN e.val ELSE MapFrom(E)[k]
  <2>1. CASE k = e.key
    BY <1>1, <2>1, MapHas
  <2>2. CASE k # e.key /\ \E x \in E : x.key = k
    <3>1. PICK x \in E : x.key = k
      BY <2>2
    <3>2. x \in F
      BY <2>2, <3>1
    <3> QED
      BY <1>1, <2>2, <3>1, <3>2, MapHas
  <2>3. CASE k # e.key /\ ~\E x \in E : x.key = k
    <3>1. \A x \in F : x.key # k
      BY <2>3
    <3> QED
      BY <2>3, <3>1, MapHasNot
  <2> QED
    BY <2>1, <2>2, <2>3
<1>3. e.key \in ZKey
  BY DEF Entry
<1>4. MapFrom(F) = [k \in ZKey |-> MapFrom(F)[k]] /\ DOMAIN MapFrom(E) = ZKey
  BY DEF MapFrom
<1> QED
  BY <1>1, <1>2, <1>3, <1>4

\* Without the entry of a key.
LEMMA MapLoses ==
    ASSUME NEW E, OnceOnly(E), NEW k \in ZKey, NEW F, F = {x \in E : x.key # k}
    PROVE  OnceOnly(F) /\ MapFrom(F) = [MapFrom(E) EXCEPT ![k] = Absent]
<1>1. OnceOnly(F)
  BY DEF OnceOnly
<1>2. ASSUME NEW l \in ZKey
      PROVE  MapFrom(F)[l] = IF l = k THEN Absent ELSE MapFrom(E)[l]
  <2>1. CASE l = k \/ ~\E x \in E : x.key = l
    <3>1. \A x \in F : x.key # l
      BY <2>1
    <3> QED
      BY <2>1, <3>1, MapHasNot
  <2>2. CASE l # k /\ \E x \in E : x.key = l
    <3>1. PICK x \in E : x.key = l
      BY <2>2
    <3>2. x \in F
      BY <2>2, <3>1
    <3> QED
      BY <1>1, <2>2, <3>1, <3>2, MapHas
  <2> QED
    BY <2>1, <2>2
<1>3. MapFrom(F) = [l \in ZKey |-> MapFrom(F)[l]] /\ DOMAIN MapFrom(E) = ZKey
  BY DEF MapFrom
<1> QED
  BY <1>1, <1>2, <1>3

\* The entries of a sound table.
LEMMA SoundOnce ==
    ASSUME NEW h, NEW t, NEW n, Sound(h, t, n)
    PROVE  OnceOnly(EntriesOf(t, n))
<1>1. \A i \in Taken(t, n) : t[i] \in Entry
  BY SoundParts
<1>2. \A i, j \in Taken(t, n) : t[i].key = t[j].key => t[i] = t[j]
  BY DEF Sound, OnceEach
<1> QED
  BY <1>1, <1>2 DEF OnceOnly, EntriesOf

\* The map that is read off the buckets.
Shown(t, n) == [k \in ZKey |-> IF \E i \in 0..n-1 : t[i].key = k
                               THEN t[CHOOSE i \in 0..n-1 : t[i].key = k].val ELSE Absent]

\* That is the map of the model.
LEMMA ZContentsIs == Z!Contents = Shown(buckets, capacity)
BY DEF Z!Contents, Z!Index, Shown

\* It is the one that the entries stand for.
LEMMA ShownIs ==
    ASSUME NEW t, NEW n, n = 0 \/ \E h : Sound(h, t, n)
    PROVE  Shown(t, n) = MapFrom(EntriesOf(t, n))
<1> DEFINE E == EntriesOf(t, n)
           there(k) == CHOOSE i \in 0..n-1 : t[i].key = k
           value(k) == IF \E i \in 0..n-1 : t[i].key = k THEN t[there(k)].val ELSE Absent
<1>1. Shown(t, n) = [k \in ZKey |-> value(k)]
  BY DEF Shown
<1>2. ASSUME NEW k \in ZKey PROVE value(k) = MapFrom(E)[k]
  <2>1. CASE ~\E i \in 0..n-1 : t[i].key = k
    <3>1. \A x \in E : x.key # k
      BY <2>1 DEF EntriesOf, Taken
    <3> QED
      BY <2>1, <3>1, MapHasNot
  <2>2. CASE \E i \in 0..n-1 : t[i].key = k
    <3>1. n # 0
      BY <2>2
    <3>2. PICK h : Sound(h, t, n)
      BY <3>1
    <3>3. there(k) \in 0..n-1 /\ t[there(k)].key = k
      BY <2>2
    <3> HIDE DEF there
    <3>4. there(k) \in Taken(t, n)
      <4>1. Absent \notin ZKey /\ Z!Empty.key = Absent
        BY ZMapsAssumption DEF Z!ZMapAssumption, Z!Empty
      <4> QED
        BY <3>3, <4>1 DEF Taken
    <3>5. t[there(k)] \in E
      BY <3>4 DEF EntriesOf
    <3>6. OnceOnly(E)
      BY <3>2, SoundOnce
    <3> HIDE DEF E
    <3>7. MapFrom(E)[k] = t[there(k)].val
      BY <3>3, <3>5, <3>6, MapHas
    <3> QED
      BY <2>2, <3>7
  <2> QED
    BY <2>1, <2>2
<1>3. MapFrom(E) = [k \in ZKey |-> MapFrom(E)[k]]
  BY DEF MapFrom
<1> HIDE DEF value
<1> QED
  BY <1>1, <1>2, <1>3

-----------------------------------------------------------------------------
(* Growth *)

\* One entry more.
LEMMA AddedCount ==
    ASSUME NEW h, NEW t, NEW n \in Nat, NEW e, NEW u, Added(h, t, n, e, u)
    PROVE  Cardinality(Taken(u, n)) = Cardinality(Taken(t, n)) + 1
<1>1. PICK j \in 0..n-1 : j \notin Taken(t, n) /\ Taken(u, n) = Taken(t, n) \cup {j}
  BY DEF Added
<1>2. IsFiniteSet(Taken(t, n))
  BY TakenFinite
<1> QED
  BY <1>1, <1>2, FS_AddElement

\* One entry less.
LEMMA DroppedCount ==
    ASSUME NEW h, NEW t, NEW n \in Nat, NEW p, NEW u, Dropped(h, t, n, p, u)
    PROVE  Cardinality(Taken(u, n)) = Cardinality(Taken(t, n)) - 1
<1>1. PICK j \in Taken(t, n) : Taken(u, n) = Taken(t, n) \ {j}
  BY DEF Dropped
<1>2. IsFiniteSet(Taken(t, n))
  BY TakenFinite
<1> QED
  BY <1>1, <1>2, FS_RemoveElement

\* One round of the loop of resize, and all of it.
Fill1(f, i, n) == IF i = 0 THEN [j \in 0..n-1 |-> Z!Empty]
                  ELSE IF buckets[i - 1] = Z!Empty THEN f[i - 1]
                  ELSE Z!Inserted(f[i - 1], buckets[i - 1], n)
IsRefill(f, n, c) == f = [i \in 0..c |-> Fill1(f, i, n)]

\* The loop can be run.
LEMMA RefillExists ==
    ASSUME NEW n \in Nat, NEW c \in Nat
    PROVE  \E f : IsRefill(f, n, c)
<1> DEFINE T == {b \in Nat : \E f : IsRefill(f, n, b)}
           none == [j \in 0..n-1 |-> Z!Empty]
           next(x, i) == IF buckets[i] = Z!Empty THEN x ELSE Z!Inserted(x, buckets[i], n)
<1>1. 0 \in T
  <2> DEFINE f == [i \in 0..0 |-> none]
  <2>1. \A i \in 0..0 : f[i] = Fill1(f, i, n)
    BY DEF Fill1
  <2>2. IsRefill(f, n, 0)
    BY <2>1 DEF IsRefill
  <2> QED
    BY <2>2
<1>2. ASSUME NEW b \in Nat, b \in T PROVE b + 1 \in T
  <2>1. PICK f : IsRefill(f, n, b)
    BY <1>2
  <2> DEFINE g == [i \in 0..b+1 |-> IF i = b + 1 THEN next(f[b], b) ELSE f[i]]
  <2>2. \A i \in 0..b : f[i] = Fill1(f, i, n)
    BY <2>1 DEF IsRefill
  <2>3. g[b + 1] = next(f[b], b) /\ \A i \in 0..b : g[i] = f[i]
    OBVIOUS
  <2>4. DOMAIN g = 0..b+1 /\ g = [i \in 0..b+1 |-> g[i]]
    OBVIOUS
  <2> HIDE DEF g
  <2>5. ASSUME NEW i \in 0..b+1 PROVE g[i] = Fill1(g, i, n)
    <3>1. CASE i = b + 1
      BY <3>1, <2>3 DEF Fill1
    <3>2. CASE i # b + 1
      <4>1. i \in 0..b /\ g[i] = f[i] /\ (i # 0 => i - 1 \in 0..b /\ g[i - 1] = f[i - 1])
        BY <3>2, <2>3
      <4> QED
        BY <4>1, <2>2 DEF Fill1
    <3> QED
      BY <3>1, <3>2
  <2>6. IsRefill(g, n, b + 1)
    BY <2>4, <2>5 DEF IsRefill
  <2> QED
    BY <2>6
<1> HIDE DEF T
<1>3. Nat \subseteq T
  BY <1>1, <1>2, SetInduction
<1> QED
  BY <1>3 DEF T

\* A resize runs it.
LEMMA ResizedIs ==
    ASSUME NEW n \in Nat, capacity \in Nat
    PROVE  \E f : /\ Z!Resized(n) = f[capacity]
                  /\ f[0] = [j \in 0..n-1 |-> Z!Empty]
                  /\ \A i \in 0..capacity-1 :
                         f[i + 1] = IF buckets[i] = Z!Empty THEN f[i]
                                    ELSE Z!Inserted(f[i], buckets[i], n)
<1> DEFINE g == CHOOSE f : IsRefill(f, n, capacity)
<1>1. IsRefill(g, n, capacity)
  BY RefillExists
<1>2. Z!Resized(n) = g[capacity]
  BY DEF Z!Resized, IsRefill, Fill1
<1> HIDE DEF g
<1>3. \A i \in 0..capacity : g[i] = Fill1(g, i, n)
  BY <1>1 DEF IsRefill
<1>4. g[0] = [j \in 0..n-1 |-> Z!Empty]
  BY <1>3 DEF Fill1
<1>5. ASSUME NEW i \in 0..capacity-1
      PROVE  g[i + 1] = IF buckets[i] = Z!Empty THEN g[i]
                        ELSE Z!Inserted(g[i], buckets[i], n)
  <2>1. i + 1 \in 0..capacity /\ i + 1 # 0 /\ (i + 1) - 1 = i
    OBVIOUS
  <2> QED
    BY <2>1, <1>3 DEF Fill1
<1> QED
  BY <1>2, <1>4, <1>5

\* Every taken bucket holds an entry, and no two of one key.
Whole(t, n) == n \in Nat /\ OnceEach(t, n) /\ \A i \in Taken(t, n) : t[i] \in Entry

\* A sound table is whole, and so is a map that has never had an entry.
LEMMA SoundWhole ==
    ASSUME NEW h, NEW t, NEW n, n = 0 \/ Sound(h, t, n)
    PROVE  Whole(t, n)
<1>1. CASE n = 0
  BY <1>1 DEF Whole, Taken, OnceEach
<1>2. CASE Sound(h, t, n)
  BY <1>2, SoundParts DEF Whole, Sound
<1> QED
  BY <1>1, <1>2

\* The buckets before i + 1.
LEMMA TakenNext ==
    ASSUME NEW t, NEW i \in Nat
    PROVE  /\ t[i] = Z!Empty => Taken(t, i + 1) = Taken(t, i)
           /\ t[i] # Z!Empty => Taken(t, i + 1) = Taken(t, i) \cup {i}
           /\ i \notin Taken(t, i)
<1>1. 0..(i + 1)-1 = (0..i-1) \cup {i} /\ i \notin 0..i-1
  OBVIOUS
<1> QED
  BY <1>1 DEF Taken

\* u holds the entries of the first i buckets of t.
Holding(h, u, n, t, i) ==
    /\ Sound(h, u, n)
    /\ EntriesOf(u, n) = EntriesOf(t, i)
    /\ Cardinality(Taken(u, n)) = Cardinality(Taken(t, i))

\* The entry of the next bucket is inserted.
LEMMA HoldsNext ==
    ASSUME NEW u, NEW n \in Nat, NEW t, NEW m \in Nat, Whole(t, m), NEW i \in 0..m-1,
           Holding(Homes(n), u, n, t, i), Cardinality(Taken(t, m)) < n
    PROVE  Holding(Homes(n), IF t[i] = Z!Empty THEN u ELSE Z!Inserted(u, t[i], n), n, t, i + 1)
<1> DEFINE h == Homes(n)
<1>1. CASE t[i] = Z!Empty
  <2>1. Taken(t, i + 1) = Taken(t, i)
    BY <1>1, TakenNext
  <2>2. Holding(h, u, n, t, i + 1)
    <3> HIDE DEF h
    <3> QED
      BY <2>1 DEF Holding, EntriesOf, h
  <2> QED
    BY <1>1, <2>2
<1>2. CASE t[i] # Z!Empty
  <2> DEFINE v == Z!Inserted(u, t[i], n)
  <2>1. Taken(t, i + 1) = Taken(t, i) \cup {i} /\ i \notin Taken(t, i)
    BY <1>2, TakenNext
  <2>2. i \in Taken(t, m) /\ Taken(t, i) \subseteq Taken(t, m)
    BY <1>2 DEF Taken
  <2>3. t[i] \in Entry /\ \A j \in Taken(t, i) : t[j].key # t[i].key
    BY <2>1, <2>2 DEF Whole, OnceEach
  <2>4. \A j \in Taken(u, n) : u[j].key # t[i].key
    <3>1. \A j \in Taken(u, n) : u[j] \in EntriesOf(t, i)
      BY DEF Holding, EntriesOf
    <3> QED
      BY <3>1, <2>3 DEF EntriesOf
  <2>5. \E j \in 0..n-1 : u[j] = Z!Empty
    <3>1. IsFiniteSet(Taken(t, m)) /\ Cardinality(Taken(t, m)) \in Nat
      BY TakenFinite
    <3>2. Cardinality(Taken(t, i)) <= Cardinality(Taken(t, m))
      BY <2>2, <3>1, FS_Subset
    <3>3. Cardinality(Taken(u, n)) <= Cardinality(Taken(t, m))
      BY <3>2 DEF Holding
    <3>4. Cardinality(Taken(u, n)) \in 0..n
      BY TakenFinite
    <3>5. Cardinality(Taken(u, n)) < n
      BY <3>1, <3>3, <3>4
    <3> QED
      BY <3>5, TakenFinite
  <2>6. Added(h, u, n, t[i], v)
    BY <2>3, <2>4, <2>5, InsertsNew DEF Holding
  <2> HIDE DEF v, h
  <2>7. Cardinality(Taken(v, n)) = Cardinality(Taken(u, n)) + 1
    BY <2>6, AddedCount
  <2>8. Cardinality(Taken(t, i + 1)) = Cardinality(Taken(t, i)) + 1
    <3>1. IsFiniteSet(Taken(t, i))
      BY TakenFinite
    <3> QED
      BY <3>1, <2>1, FS_AddElement
  <2>9. EntriesOf(t, i + 1) = EntriesOf(t, i) \cup {t[i]}
    BY <2>1 DEF EntriesOf
  <2>10. Holding(h, v, n, t, i + 1)
    BY <2>6, <2>7, <2>8, <2>9 DEF Added, Holding, h
  <2> QED
    BY <1>2, <2>10 DEF v, h
<1> QED
  BY <1>1, <1>2

\* A resize keeps the entries.
LEMMA ResizeHolds ==
    ASSUME NEW n \in Nat \ {0}, Homes(n) \in [ZKey -> 0..n-1], Whole(buckets, capacity),
           Cardinality(Taken(buckets, capacity)) < n
    PROVE  Holding(Homes(n), Z!Resized(n), n, buckets, capacity)
<1> DEFINE h == Homes(n)
           t == buckets
           m == capacity
<1>0. m \in Nat /\ n \in Nat
  BY DEF Whole
<1>1. PICK f : /\ Z!Resized(n) = f[m]
               /\ f[0] = [j \in 0..n-1 |-> Z!Empty]
               /\ \A i \in 0..m-1 : f[i + 1] = IF t[i] = Z!Empty THEN f[i]
                                               ELSE Z!Inserted(f[i], t[i], n)
  BY <1>0, ResizedIs
<1> DEFINE T == {i \in Nat : i <= m => Holding(h, f[i], n, t, i)}
<1>2. 0 \in T
  <2>1. Taken(t, 0) = {} /\ Taken(f[0], n) = {}
    BY <1>1 DEF Taken
  <2>2. f[0] \in [0..n-1 -> Bucket]
    BY <1>1 DEF Bucket
  <2>3. Sound(h, f[0], n)
    BY <2>1, <2>2 DEF Sound, OnceEach, Robin
  <2>4. EntriesOf(f[0], n) = EntriesOf(t, 0)
    BY <2>1 DEF EntriesOf
  <2>5. Cardinality(Taken(f[0], n)) = Cardinality(Taken(t, 0))
    BY <2>1
  <2> HIDE DEF h
  <2> QED
    BY <2>3, <2>4, <2>5 DEF Holding
<1>3. ASSUME NEW i \in Nat, i \in T PROVE i + 1 \in T
  <2> SUFFICES ASSUME i + 1 <= m PROVE Holding(h, f[i + 1], n, t, i + 1)
    OBVIOUS
  <2>1. i \in 0..m-1 /\ i <= m
    BY <1>0
  <2>2. Holding(h, f[i], n, t, i)
    BY <1>3, <2>1
  <2>3. f[i + 1] = IF t[i] = Z!Empty THEN f[i] ELSE Z!Inserted(f[i], t[i], n)
    BY <1>1, <2>1
  <2> DEFINE x == f[i]
  <2> HIDE DEF x
  <2>4. Holding(h, IF t[i] = Z!Empty THEN f[i] ELSE Z!Inserted(f[i], t[i], n), n, t, i + 1)
    BY <1>0, <2>1, <2>2, HoldsNext
  <2> QED
    BY <2>3, <2>4
<1> HIDE DEF T
<1>4. Nat \subseteq T
  BY <1>2, <1>3, SetInduction
<1>5. m \in T /\ m <= m
  BY <1>0, <1>4
<1>6. Holding(h, f[m], n, t, m)
  BY <1>5 DEF T
<1> QED
  BY <1>1, <1>6

-----------------------------------------------------------------------------
(* The invariant of the zmap *)

\* The capacities that the map takes.
Sizes == CHOOSE S \in SUBSET (2..ZMaxCap) : Z!Reaches(S)

\* The homes that hash function z gives the keys in n buckets.
HomesBy(z, n) == [k \in ZKey |-> z[k] \div (ZMaxCap \div n)]

\* n buckets t are the table of m entries, by hash function z; one of them is empty.
ZTable(z, t, n, m) ==
    /\ z \in [ZKey -> 0..ZMaxCap-1]
    /\ m = Cardinality(Taken(t, n))
    /\ \/ n = 0 /\ t = <<>>
       \/ n \in Sizes /\ m < n /\ Sound(HomesBy(z, n), t, n)

\* The invariant: the table, and a put that is pending may grow it.
ZInv ==
    /\ ZTable(zhash, buckets, capacity, entries)
    /\ zcall \in Z!Call \cup {Z!NoCall}
    /\ zcall.op = "put" /\ entries >= Z!Threshold => Z!Larger <= ZMaxCap

\* The capacities divide the range of the hashes, and double.
LEMMA SizesAre ==
    /\ ZMaxCap \in Nat /\ ZFirstCap \in Sizes
    /\ \A n \in Sizes : /\ n \in Nat /\ n # 0 /\ n >= 2
                        /\ \E m \in 1..ZMaxCap : ZMaxCap = n * m
                        /\ n < ZMaxCap => 2 * n \in Sizes
<1>1. ZMaxCap \in Nat /\ \E S \in SUBSET (2..ZMaxCap) : Z!Reaches(S)
  BY ZMapsAssumption DEF Z!ZMapAssumption
<1>2. Sizes \in SUBSET (2..ZMaxCap) /\ Z!Reaches(Sizes)
  BY <1>1 DEF Sizes
<1>3. \A n \in Sizes : n \in Nat /\ n # 0 /\ n >= 2
  BY <1>1, <1>2
<1>4. ZFirstCap \in Sizes
  BY <1>2 DEF Z!Reaches
<1>5. \A n \in Sizes : (\E m \in 1..ZMaxCap : ZMaxCap = n * m) /\ (n < ZMaxCap => 2 * n \in Sizes)
  BY <1>2 DEF Z!Reaches
<1> QED
  BY <1>1, <1>3, <1>4, <1>5

\* The homes of the model are those of its hash function.
LEMMA HomesAre == \A n : Homes(n) = HomesBy(zhash, n)
BY DEF Homes, HomesBy, Z!Home

\* What the invariant says of the table.
LEMMA ZTableParts ==
    ASSUME ZInv
    PROVE  /\ zhash \in [ZKey -> 0..ZMaxCap-1]
           /\ capacity \in Nat /\ entries \in Nat /\ entries = Cardinality(Taken(buckets, capacity))
           /\ capacity = 0 => buckets = <<>> /\ entries = 0
           /\ capacity # 0 => /\ capacity \in Sizes /\ entries < capacity
                              /\ Sound(Homes(capacity), buckets, capacity)
                              /\ \E i \in 0..capacity-1 : buckets[i] = Z!Empty
           /\ Whole(buckets, capacity)
           /\ Z!Contents = MapFrom(EntriesOf(buckets, capacity))
           /\ OnceOnly(EntriesOf(buckets, capacity))
           /\ entries = 0 <=> Taken(buckets, capacity) = {}
           /\ Z!Occupied(buckets) = Taken(buckets, capacity)
<1> DEFINE E == EntriesOf(buckets, capacity)
           T == Taken(buckets, capacity)
<1>1. /\ zhash \in [ZKey -> 0..ZMaxCap-1] /\ entries = Cardinality(T)
      /\ \/ capacity = 0 /\ buckets = <<>>
         \/ /\ capacity \in Sizes /\ entries < capacity
            /\ Sound(Homes(capacity), buckets, capacity)
  BY HomesAre DEF ZInv, ZTable
<1>2. capacity \in Nat /\ (capacity \in Sizes => capacity # 0)
  <2>1. \A n \in Sizes : n \in Nat /\ n # 0
    BY SizesAre
  <2> QED
    BY <1>1, <2>1
<1>3. IsFiniteSet(T) /\ Cardinality(T) \in 0..capacity
      /\ (Cardinality(T) < capacity => \E i \in 0..capacity-1 : buckets[i] = Z!Empty)
  BY <1>2, TakenFinite
<1>4. entries = 0 <=> T = {}
  BY <1>1, <1>3, FS_EmptySet
<1>5. Whole(buckets, capacity)
  BY <1>1, SoundWhole
<1>6. Z!Contents = MapFrom(E)
  <2>1. Shown(buckets, capacity) = MapFrom(E)
    <3> HIDE DEF E
    <3>1. capacity = 0 \/ \E h : Sound(h, buckets, capacity)
      BY <1>1
    <3> QED
      BY <3>1, ShownIs DEF E
  <2> QED
    BY <2>1, ZContentsIs
<1>7. OnceOnly(E)
  <2>1. CASE capacity = 0
    BY <2>1 DEF OnceOnly, EntriesOf, Taken
  <2>2. CASE capacity # 0
    BY <2>2, <1>1, SoundOnce
  <2> QED
    BY <2>1, <2>2
<1>8. Z!Occupied(buckets) = T
  <2>1. CASE capacity = 0
    <3>1. buckets = <<>>
      BY <2>1, <1>1, SizesAre
    <3>2. DOMAIN buckets = {} /\ T = {}
      BY <2>1, <3>1 DEF Taken
    <3> QED
      BY <3>2 DEF Z!Occupied
  <2>2. CASE capacity # 0
    BY <2>2, <1>1 DEF Z!Occupied, Sound, Taken
  <2> QED
    BY <2>1, <2>2
<1>9. capacity = 0 => entries = 0
  BY <1>1, <1>3
<1>10. capacity = 0 => buckets = <<>>
  BY <1>1, <1>2
<1> QED
  BY <1>1, <1>2, <1>3, <1>4, <1>5, <1>6, <1>7, <1>8, <1>9, <1>10

\* An insertion into a table with an empty bucket.
LEMMA Inserts ==
    ASSUME NEW t, NEW n, Sound(Homes(n), t, n), NEW e \in Entry, NEW u,
           \E j \in 0..n-1 : t[j] = Z!Empty, u = Z!Inserted(t, e, n)
    PROVE  /\ Sound(Homes(n), u, n)
           /\ EntriesOf(u, n) = {x \in EntriesOf(t, n) : x.key # e.key} \cup {e}
           /\ Cardinality(Taken(u, n)) = IF Taken(u, n) = Taken(t, n) THEN Cardinality(Taken(t, n))
                                         ELSE Cardinality(Taken(t, n)) + 1
<1> DEFINE h == Homes(n)
<1>1. n \in Nat
  BY DEF Sound
<1>2. CASE \A j \in Taken(t, n) : t[j].key # e.key
  <2>1. Added(h, t, n, e, u)
    BY <1>2, InsertsNew
  <2> HIDE DEF h
  <2>2. Cardinality(Taken(u, n)) = Cardinality(Taken(t, n)) + 1
    BY <1>1, <2>1, AddedCount
  <2>4. Taken(u, n) # Taken(t, n)
    BY <2>1 DEF Added
  <2>3. EntriesOf(t, n) = {x \in EntriesOf(t, n) : x.key # e.key}
    BY <1>2 DEF EntriesOf
  <2> QED
    BY <2>1, <2>2, <2>3, <2>4 DEF Added, h
<1>3. CASE \E j \in Taken(t, n) : t[j].key = e.key
  <2>1. PICK p \in Taken(t, n) : t[p].key = e.key
    BY <1>3
  <2>2. HasPut(h, t, n, p, e, u)
    BY <2>1, InsertsOld
  <2>3. \A j \in Taken(t, n) : t[j].key = e.key <=> j = p
    BY <2>1 DEF Sound, OnceEach
  <2>4. {t[j] : j \in Taken(t, n) \ {p}} = {x \in EntriesOf(t, n) : x.key # e.key}
    BY <2>3 DEF EntriesOf
  <2> HIDE DEF h
  <2>5. Taken(u, n) = Taken(t, n)
    BY <2>2 DEF HasPut
  <2> QED
    BY <2>2, <2>4, <2>5 DEF HasPut, h
<1> QED
  BY <1>2, <1>3

\* A removal.
LEMMA Removes ==
    ASSUME Sound(Homes(capacity), buckets, capacity), NEW p \in Taken(buckets, capacity),
           \E i \in 0..capacity-1 : buckets[i] = Z!Empty, NEW u, u = Z!MovedBack(p)
    PROVE  /\ Sound(Homes(capacity), u, capacity)
           /\ EntriesOf(u, capacity) = {x \in EntriesOf(buckets, capacity) : x.key # buckets[p].key}
           /\ Cardinality(Taken(u, capacity)) = Cardinality(Taken(buckets, capacity)) - 1
<1> DEFINE h == Homes(capacity)
           n == capacity
           t == buckets
<1>1. PICK l : Shifted(h, t, n, p, l, u)
  BY MovedBackIs
<1>2. Sound(h, t, n) /\ p \in Taken(t, n) /\ n \in Nat
  BY DEF Sound
<1> HIDE DEF h, n, t
<1>3. Dropped(h, t, n, p, u)
  BY <1>1, <1>2, ShiftDrops
<1>4. Cardinality(Taken(u, n)) = Cardinality(Taken(t, n)) - 1
  BY <1>2, <1>3, DroppedCount
<1>5. EntriesOf(t, n) \ {t[p]} = {x \in EntriesOf(t, n) : x.key # t[p].key}
  BY <1>2 DEF EntriesOf, Sound, OnceEach
<1> QED
  BY <1>3, <1>4, <1>5 DEF Dropped, h, n, t

-----------------------------------------------------------------------------
(* The steps of the zmap *)

\* The calls.
LEMMA ZCallParts ==
    /\ Z!NoCall.op = "none" /\ Z!NoCall \notin Z!Call
    /\ \A c \in Z!Call : /\ c.op \in {"put", "get", "remove", "entries"}
                         /\ c.op # "entries" => c.key \in ZKey
                         /\ c.op = "put" => c.val \in ZVal
BY DEF Z!Call, Z!NoCall

\* The buckets after a step.
LEMMA TableMade ==
    ASSUME ZInv, NEW n \in Sizes, NEW t, Sound(Homes(n), t, n), NEW m,
           m = Cardinality(Taken(t, n)), m < n,
           zhash' = zhash, buckets' = t, capacity' = n, entries' = m
    PROVE  /\ ZTable(zhash', buckets', capacity', entries')
           /\ Shown(buckets', capacity') = MapFrom(EntriesOf(t, n))
<1>1. ZTable(zhash, t, n, m)
  BY HomesAre, ZTableParts DEF ZTable
<1>2. Shown(t, n) = MapFrom(EntriesOf(t, n))
  BY ShownIs
<1> QED
  BY <1>1, <1>2

\* Nothing has changed.
LEMMA TableKept ==
    ASSUME ZInv, zhash' = zhash, buckets' = buckets, capacity' = capacity, entries' = entries
    PROVE  /\ ZTable(zhash', buckets', capacity', entries')
           /\ Shown(buckets', capacity') = Z!Contents
<1>1. ZTable(zhash, buckets, capacity, entries) /\ Shown(buckets, capacity) = Z!Contents
  BY ZContentsIs DEF ZInv
<1> QED
  BY <1>1

\* A call that has taken effect returns.
LEMMA ZResponds ==
    ASSUME ZInv, zcall # Z!NoCall, zcall' = Z!NoCall, zret' = Z!Promise!Answer(zcall),
           ZTable(zhash', buckets', capacity', entries'),
           Shown(buckets', capacity') = Z!Promise!After(zcall)
    PROVE  ZInv' /\ Z!Promise!Respond
<1>1. Z!Contents' = Shown(buckets', capacity')
  BY DEF Z!Contents, Z!Index, Shown
<1>2. zcall'.op = "none"
  BY ZCallParts
<1>3. ZInv'
  BY <1>2 DEF ZInv
<1>4. Z!Promise!Respond
  BY <1>1 DEF Z!Promise!Respond
<1> QED
  BY <1>3, <1>4

\* A call is made.
LEMMA ZInvokes ==
    ASSUME ZInv, NEW c \in Z!Call, Z!Invoke(c)
    PROVE  ZInv' /\ Z!Promise!Next
<1>1. /\ zcall = Z!NoCall /\ zcall' = c /\ zret' = {}
      /\ zhash' = zhash /\ buckets' = buckets /\ capacity' = capacity /\ entries' = entries
      /\ (c.op = "put" /\ entries >= Z!Threshold) => Z!Larger <= ZMaxCap
  BY DEF Z!Invoke
<1>2. Z!Threshold' = Z!Threshold /\ Z!Larger' = Z!Larger
  BY <1>1 DEF Z!Threshold, Z!Larger
<1>3. ZTable(zhash', buckets', capacity', entries')
  BY <1>1, TableKept
<1>4. ZInv'
  BY <1>1, <1>2, <1>3 DEF ZInv
<1>5. Z!Contents' = Z!Contents
  BY <1>1 DEF Z!Contents, Z!Index
<1>6. Z!Promise!Invoke(c)
  BY <1>1, <1>5 DEF Z!Promise!Invoke
<1> QED
  BY <1>4, <1>6 DEF Z!Promise!Next

\* What a put does to the map, and a removal; the other calls leave it alone.
LEMMA ZAfter ==
    ASSUME zcall \in Z!Call
    PROVE  /\ zcall.op = "put" =>
                  /\ Z!Promise!After(zcall) = [Z!Contents EXCEPT ![zcall.key] = zcall.val]
                  /\ Z!Promise!Answer(zcall) = {}
           /\ zcall.op = "remove" =>
                  /\ Z!Promise!After(zcall) = [Z!Contents EXCEPT ![zcall.key] = Absent]
                  /\ Z!Promise!Answer(zcall) = {}
           /\ zcall.op = "get" => /\ Z!Promise!After(zcall) = Z!Contents
                                  /\ Z!Promise!Answer(zcall) = {Z!Contents[zcall.key]} \ {Absent}
           /\ zcall.op = "entries" =>
                  /\ Z!Promise!After(zcall) = Z!Contents
                  /\ Z!Promise!Answer(zcall) =
                         {<<k, Z!Contents[k]>> : k \in {k \in ZKey : Z!Contents[k] # Absent}}
BY DEF Z!Promise!After, Z!Promise!Answer, Z!Promise!Present

\* A put.
LEMMA ZPuts ==
    ASSUME ZInv, Z!Put
    PROVE  ZInv' /\ Z!Promise!Respond
<1> DEFINE full == entries >= Z!Threshold
           n == IF full THEN Z!Larger ELSE capacity
           t == IF full THEN Z!Resized(n) ELSE buckets
           e == [key |-> zcall.key, val |-> zcall.val]
           u == Z!Inserted(t, e, n)
           E == EntriesOf(buckets, capacity)
<1>1. /\ zcall.op = "put" /\ zcall' = Z!NoCall /\ zret' = {} /\ zhash' = zhash
      /\ buckets' = u /\ capacity' = n
      /\ entries' = IF Z!Occupied(u) = Z!Occupied(t) THEN entries ELSE entries + 1
  BY DEF Z!Put, Z!Return
<1>2. zcall \in Z!Call /\ zcall # Z!NoCall /\ (full => Z!Larger <= ZMaxCap)
  BY <1>1, ZCallParts DEF ZInv
<1>3. e \in Entry /\ e.key = zcall.key /\ e.val = zcall.val
  BY <1>1, <1>2, ZCallParts DEF Entry
<1>4. capacity \in Nat /\ entries \in Nat /\ (capacity = 0 => entries = 0)
      /\ (capacity # 0 => capacity \in Sizes /\ entries < capacity)
      /\ entries = Cardinality(Taken(buckets, capacity)) /\ OnceOnly(E) /\ Z!Contents = MapFrom(E)
      /\ Whole(buckets, capacity)
  BY ZTableParts
<1>5. n \in Sizes /\ n \in Nat /\ n # 0 /\ entries + 1 < n
  <2>1. CASE full /\ capacity = 0
    <3>1. n = ZFirstCap
      BY <2>1 DEF Z!Larger
    <3>2. n \in Sizes
      BY <3>1, SizesAre
    <3> HIDE DEF n
    <3>3. n \in Nat /\ n >= 2
      BY <3>2, SizesAre
    <3> QED
      BY <2>1, <3>2, <3>3, <1>4
  <2>2. CASE full /\ capacity # 0
    <3>1. n = 2 * capacity /\ n <= ZMaxCap
      BY <2>2, <1>2 DEF Z!Larger
    <3>2. capacity < ZMaxCap
      BY <2>2, <3>1, <1>4, SizesAre
    <3>3. n \in Sizes
      BY <2>2, <3>1, <3>2, <1>4, SizesAre
    <3> HIDE DEF n
    <3> QED
      BY <2>2, <3>1, <3>3, <1>4
  <2>3. CASE ~full
    <3>1. n = capacity /\ Z!Threshold \in Nat /\ entries < Z!Threshold
          /\ (capacity = 0 => Z!Threshold = 0) /\ (capacity # 0 => Z!Threshold < capacity)
      BY <2>3, <1>4 DEF Z!Threshold
    <3> HIDE DEF n
    <3> QED
      BY <3>1, <1>4
  <2> QED
    BY <2>1, <2>2, <2>3
<1>6. Homes(n) \in [ZKey -> 0..n-1]
  BY <1>5, HomeIs, SizesAre, ZTableParts
<1>7. Holding(Homes(n), t, n, buckets, capacity)
  <2>1. CASE full
    <3> DEFINE r == n
    <3>1. r \in Nat \ {0} /\ Homes(r) \in [ZKey -> 0..r-1] /\ entries < r
      BY <1>4, <1>5, <1>6
    <3>2. t = Z!Resized(r)
      BY <2>1
    <3> HIDE DEF r, t
    <3>3. Holding(Homes(r), Z!Resized(r), r, buckets, capacity)
      BY <1>4, <3>1, ResizeHolds
    <3> QED
      BY <3>2, <3>3 DEF r
  <2>2. CASE ~full
    <3>1. n = capacity /\ t = buckets
      BY <2>2
    <3>2. Sound(Homes(capacity), buckets, capacity)
      BY <3>1, <1>5, ZTableParts
    <3> HIDE DEF n, t
    <3> QED
      BY <3>1, <3>2 DEF Holding
  <2> QED
    BY <2>1, <2>2
<1>u. u = Z!Inserted(t, e, n)
  OBVIOUS
<1> HIDE DEF n, t, e, u, full
<1>8. Sound(Homes(n), t, n) /\ EntriesOf(t, n) = E /\ Cardinality(Taken(t, n)) = entries
  BY <1>4, <1>7 DEF Holding
<1>9. \E j \in 0..n-1 : t[j] = Z!Empty
  <2>1. Cardinality(Taken(t, n)) < n
    BY <1>4, <1>5, <1>8
  <2> QED
    BY <1>5, <2>1, TakenFinite
<1>10. /\ Sound(Homes(n), u, n)
       /\ EntriesOf(u, n) = {x \in EntriesOf(t, n) : x.key # e.key} \cup {e}
       /\ Cardinality(Taken(u, n)) = IF Taken(u, n) = Taken(t, n) THEN Cardinality(Taken(t, n))
                                     ELSE Cardinality(Taken(t, n)) + 1
  BY <1>3, <1>8, <1>9, <1>u, Inserts
<1>11. Z!Occupied(u) = Taken(u, n) /\ Z!Occupied(t) = Taken(t, n)
  BY <1>8, <1>10 DEF Z!Occupied, Sound, Taken
<1>12. entries' = Cardinality(Taken(u, n)) /\ entries' < n
  BY <1>1, <1>4, <1>5, <1>8, <1>10, <1>11
<1>13. /\ ZTable(zhash', buckets', capacity', entries')
       /\ Shown(buckets', capacity') = MapFrom(EntriesOf(u, n))
  BY <1>1, <1>5, <1>10, <1>12, TableMade
<1>14. MapFrom(EntriesOf(u, n)) = [MapFrom(E) EXCEPT ![e.key] = e.val]
  BY <1>3, <1>4, <1>8, <1>10, MapPuts
<1>15. Shown(buckets', capacity') = Z!Promise!After(zcall) /\ zret' = Z!Promise!Answer(zcall)
  BY <1>1, <1>2, <1>3, <1>4, <1>13, <1>14, ZAfter
<1> QED
  BY <1>1, <1>2, <1>13, <1>15, ZResponds

\* What the search finds.
LEMMA FoundThere ==
    ASSUME ZInv, NEW k \in ZKey
    PROVE  Z!Found(k) = {i \in Taken(buckets, capacity) : buckets[i].key = k}
<1>1. entries = 0 <=> Taken(buckets, capacity) = {}
  BY ZTableParts
<1>2. CASE entries = 0
  BY <1>1, <1>2 DEF Z!Found
<1>3. CASE entries # 0
  <2>1. Sound(Homes(capacity), buckets, capacity)
    BY <1>3, ZTableParts
  <2> QED
    BY <1>1, <2>1, FoundIs
<1> QED
  BY <1>2, <1>3

\* A get.
LEMMA ZGets ==
    ASSUME ZInv, Z!Get
    PROVE  ZInv' /\ Z!Promise!Respond
<1> DEFINE k == zcall.key
           E == EntriesOf(buckets, capacity)
<1>1. /\ zcall.op = "get" /\ zcall' = Z!NoCall /\ zhash' = zhash
      /\ zret' = {buckets[i].val : i \in Z!Found(k)}
      /\ buckets' = buckets /\ capacity' = capacity /\ entries' = entries
  BY DEF Z!Get, Z!Return
<1>2. zcall \in Z!Call /\ zcall # Z!NoCall /\ k \in ZKey
  BY <1>1, ZCallParts DEF ZInv
<1>3. ZTable(zhash', buckets', capacity', entries') /\ Shown(buckets', capacity') = Z!Contents
  BY <1>1, TableKept
<1>4. Z!Found(k) = {i \in Taken(buckets, capacity) : buckets[i].key = k}
  BY <1>2, FoundThere
<1>5. zret' = {x.val : x \in {x \in E : x.key = k}}
  BY <1>1, <1>4 DEF EntriesOf
<1>6. OnceOnly(E) /\ Z!Contents = MapFrom(E)
  BY ZTableParts
<1> HIDE DEF k, E
<1>7. {x.val : x \in {x \in E : x.key = k}} = {MapFrom(E)[k]} \ {Absent}
  <2>1. CASE \E x \in E : x.key = k
    <3>1. PICK x \in E : x.key = k
      BY <2>1
    <3>2. MapFrom(E)[k] = x.val /\ x.val # Absent /\ \A y \in E : y.key = k => y = x
      BY <1>6, <3>1, MapHas DEF OnceOnly
    <3> QED
      BY <3>1, <3>2
  <2>2. CASE ~\E x \in E : x.key = k
    BY <1>2, <2>2, MapHasNot
  <2> QED
    BY <2>1, <2>2
<1>8. zret' = Z!Promise!Answer(zcall) /\ Shown(buckets', capacity') = Z!Promise!After(zcall)
  BY <1>1, <1>2, <1>3, <1>5, <1>6, <1>7, ZAfter DEF k
<1> QED
  BY <1>1, <1>2, <1>3, <1>8, ZResponds

\* A removal.
LEMMA ZRemoves ==
    ASSUME ZInv, Z!Remove
    PROVE  ZInv' /\ Z!Promise!Respond
<1> DEFINE k == zcall.key
           E == EntriesOf(buckets, capacity)
           n == capacity
<1>1. /\ zcall.op = "remove" /\ zcall' = Z!NoCall /\ zhash' = zhash /\ zret' = {}
      /\ capacity' = capacity
      /\ \/ Z!Found(k) = {} /\ buckets' = buckets /\ entries' = entries
         \/ \E i \in Z!Found(k) : buckets' = Z!MovedBack(i) /\ entries' = entries - 1
  BY DEF Z!Remove, Z!Return
<1>2. zcall \in Z!Call /\ zcall # Z!NoCall /\ k \in ZKey
  BY <1>1, ZCallParts DEF ZInv
<1>3. Z!Found(k) = {i \in Taken(buckets, capacity) : buckets[i].key = k}
  BY <1>2, FoundThere
<1>4. OnceOnly(E) /\ Z!Contents = MapFrom(E) /\ entries \in Nat
      /\ entries = Cardinality(Taken(buckets, capacity))
  BY ZTableParts
<1>k. k = zcall.key
  OBVIOUS
<1> HIDE DEF k
<1>5. CASE Z!Found(k) = {} /\ buckets' = buckets /\ entries' = entries
  <2>1. ZTable(zhash', buckets', capacity', entries') /\ Shown(buckets', capacity') = Z!Contents
    BY <1>1, <1>5, TableKept
  <2>2. \A x \in E : x.key # k
    BY <1>3, <1>5 DEF EntriesOf
  <2> HIDE DEF E
  <2>3. {x \in E : x.key # k} = E
    BY <2>2
  <2>4. MapFrom(E) = [MapFrom(E) EXCEPT ![k] = Absent]
    BY <1>2, <1>4, <2>3, MapLoses
  <2>5. Shown(buckets', capacity') = Z!Promise!After(zcall) /\ zret' = Z!Promise!Answer(zcall)
    BY <1>1, <1>2, <1>4, <1>k, <2>1, <2>4, ZAfter
  <2> QED
    BY <1>1, <1>2, <2>1, <2>5, ZResponds
<1>6. CASE \E i \in Z!Found(k) : buckets' = Z!MovedBack(i) /\ entries' = entries - 1
  <2>1. PICK p \in Taken(buckets, capacity) :
               buckets[p].key = k /\ buckets' = Z!MovedBack(p) /\ entries' = entries - 1
    BY <1>3, <1>6
  <2> DEFINE u == Z!MovedBack(p)
  <2>2. capacity # 0
    BY <2>1 DEF Taken
  <2>3. /\ Sound(Homes(n), buckets, n) /\ n \in Sizes /\ n \in Nat /\ entries < n
        /\ \E i \in 0..n-1 : buckets[i] = Z!Empty
    BY <2>2, ZTableParts
  <2>u. u = Z!MovedBack(p) /\ buckets' = u
    BY <2>1
  <2> HIDE DEF u
  <2>4. /\ Sound(Homes(n), u, n)
        /\ EntriesOf(u, n) = {x \in E : x.key # k}
        /\ Cardinality(Taken(u, n)) = Cardinality(Taken(buckets, n)) - 1
    BY <2>1, <2>3, <2>u, Removes
  <2>5. entries' = Cardinality(Taken(u, n)) /\ entries' < n
    BY <1>4, <2>1, <2>3, <2>4
  <2>6. /\ ZTable(zhash', buckets', capacity', entries')
        /\ Shown(buckets', capacity') = MapFrom(EntriesOf(u, n))
    BY <1>1, <2>3, <2>4, <2>5, <2>u, TableMade
  <2>7. MapFrom(EntriesOf(u, n)) = [MapFrom(E) EXCEPT ![k] = Absent]
    BY <1>2, <1>4, <2>4, MapLoses
  <2>8. Shown(buckets', capacity') = Z!Promise!After(zcall) /\ zret' = Z!Promise!Answer(zcall)
    BY <1>1, <1>2, <1>4, <1>k, <2>6, <2>7, ZAfter
  <2> QED
    BY <1>1, <1>2, <2>6, <2>8, ZResponds
<1> QED
  BY <1>1, <1>5, <1>6

\* A walk over the entries.
LEMMA ZWalks ==
    ASSUME ZInv, Z!Entries
    PROVE  ZInv' /\ Z!Promise!Respond
<1> DEFINE E == EntriesOf(buckets, capacity)
<1>1. /\ zcall.op = "entries" /\ zcall' = Z!NoCall /\ zhash' = zhash
      /\ zret' = {<<buckets[i].key, buckets[i].val>> : i \in Z!Occupied(buckets)}
      /\ buckets' = buckets /\ capacity' = capacity /\ entries' = entries
  BY DEF Z!Entries, Z!Return
<1>2. zcall \in Z!Call /\ zcall # Z!NoCall
  BY <1>1, ZCallParts DEF ZInv
<1>3. ZTable(zhash', buckets', capacity', entries') /\ Shown(buckets', capacity') = Z!Contents
  BY <1>1, TableKept
<1>4. Z!Occupied(buckets) = Taken(buckets, capacity) /\ OnceOnly(E) /\ Z!Contents = MapFrom(E)
  BY ZTableParts
<1>5. zret' = {<<x.key, x.val>> : x \in E}
  BY <1>1, <1>4 DEF EntriesOf
<1> HIDE DEF E
<1>6. {<<x.key, x.val>> : x \in E}
         = {<<k, MapFrom(E)[k]>> : k \in {k \in ZKey : MapFrom(E)[k] # Absent}}
  <2> DEFINE P == {k \in ZKey : MapFrom(E)[k] # Absent}
  <2>1. \A x \in E : x.key \in P /\ MapFrom(E)[x.key] = x.val
    BY <1>4, MapHas
  <2>2. \A k \in P : \E x \in E : x.key = k
    BY <1>4, MapShows
  <2> HIDE DEF P
  <2>3. {<<x.key, x.val>> : x \in E} = {<<k, MapFrom(E)[k]>> : k \in P}
    BY <2>1, <2>2
  <2> QED
    BY <2>3 DEF P
<1>7. zret' = Z!Promise!Answer(zcall) /\ Shown(buckets', capacity') = Z!Promise!After(zcall)
  BY <1>1, <1>2, <1>3, <1>4, <1>5, <1>6, ZAfter
<1> QED
  BY <1>1, <1>2, <1>3, <1>7, ZResponds

\* Before the first call.
LEMMA ZStarts == Z!Init => ZInv /\ Z!Promise!Init
<1> SUFFICES ASSUME Z!Init PROVE ZInv /\ Z!Promise!Init
  OBVIOUS
<1>1. /\ zhash \in ZHashes /\ buckets = <<>> /\ capacity = 0 /\ entries = 0
      /\ zcall = Z!NoCall /\ zret = {}
  BY DEF Z!Init
<1>2. zhash \in [ZKey -> 0..ZMaxCap-1]
  BY <1>1, ZMapsAssumption DEF Z!ZMapAssumption
<1>3. Taken(buckets, capacity) = {}
  BY <1>1 DEF Taken
<1>4. ZTable(zhash, buckets, capacity, entries)
  BY <1>1, <1>2, <1>3, FS_EmptySet DEF ZTable
<1>5. Z!Contents = [k \in ZKey |-> Absent]
  BY <1>1 DEF Z!Contents, Z!Index
<1>6. ZInv
  BY <1>1, <1>4, ZCallParts DEF ZInv
<1> QED
  BY <1>1, <1>5, <1>6 DEF Z!Promise!Init

\* Every step keeps the invariant and is one of FiniteMap.
LEMMA ZStepMaps ==
    ASSUME ZInv, [Z!Next]_(Z!vars)
    PROVE  ZInv' /\ [Z!Promise!Next]_(Z!Promise!vars)
<1>1. CASE \E c \in Z!Call : Z!Invoke(c)
  BY <1>1, ZInvokes
<1>2. CASE Z!Put \/ Z!Get \/ Z!Remove \/ Z!Entries
  <2>1. ZInv' /\ Z!Promise!Respond
    BY <1>2, ZPuts, ZGets, ZRemoves, ZWalks
  <2> QED
    BY <2>1 DEF Z!Promise!Next
<1>3. CASE UNCHANGED Z!vars
  <2>1. /\ zhash' = zhash /\ buckets' = buckets /\ capacity' = capacity /\ entries' = entries
        /\ zcall' = zcall /\ zret' = zret
    BY <1>3 DEF Z!vars
  <2>2. Z!Contents' = Z!Contents
    BY <2>1 DEF Z!Contents, Z!Index
  <2>3. Z!Threshold' = Z!Threshold /\ Z!Larger' = Z!Larger
    BY <2>1 DEF Z!Threshold, Z!Larger
  <2>4. ZInv'
    BY <2>1, <2>3 DEF ZInv
  <2> QED
    BY <2>1, <2>2, <2>4 DEF Z!Promise!vars
<1> QED
  BY <1>1, <1>2, <1>3 DEF Z!Next

\* A zmap is the map that the calls on it built: whatever the hashes, a search that gives up at
\* the first entry nearer its home has missed no key, a removal loses none, and growth and a walk
\* keep every entry once.
THEOREM IsZMap == Z!Spec => ZMapIsMap
<1>1. Z!Init => ZInv /\ Z!Promise!Init
  BY ZStarts
<1>2. ZInv /\ [Z!Next]_(Z!vars) => ZInv' /\ [Z!Promise!Next]_(Z!Promise!vars)
  BY ZStepMaps
<1>3. ZMapIsMap <=> Z!Promise!Init /\ [][Z!Promise!Next]_(Z!Promise!vars)
  BY DEF ZMapIsMap, Z!ZMapIsMap, Z!Promise!Safe
<1> QED
  BY <1>1, <1>2, <1>3, PTL DEF Z!Spec
=============================================================================
