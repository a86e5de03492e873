-------------------------------- MODULE ZMap --------------------------------
(***************************************************************************)
(* src/utils/zmap.h: the hash map behind the compiler's tables of modules, *)
(* imports and plugins.  An entry lies some way behind the home that its   *)
(* hash gives it; an insertion takes the bucket of the first entry that is *)
(* nearer its own home and carries that entry on, and a removal moves the  *)
(* entries behind it back.  No bucket is ever marked as deleted.           *)
(*                                                                         *)
(* A call is one step: one thread makes it.  `hash` stands for the leading *)
(* bits of hash * ZMAP_FIB_CONST, and comparing stored hashes and strings  *)
(* for comparing keys.  Nothing calls zmap_clear, zmap_free or the stable  *)
(* maps, and xcalloc ends the program when memory does.                    *)
(***************************************************************************)
EXTENDS Integers, FiniteSets

CONSTANTS Key, Val, Absent,
          FirstCap,   \* the first capacity: 32 in the code
          MaxCap,     \* no put is called that would grow the map further (a bound)
          Hashes      \* the hash functions followed

\* The capacities on the way to MaxCap: the first one, doubled some number of times.
Reaches(sizes) == /\ FirstCap \in sizes
                  /\ \A n \in sizes : /\ \E m \in 1..MaxCap : MaxCap = n * m
                                      /\ n < MaxCap => 2 * n \in sizes

ZMapAssumption == /\ Absent \notin Key \cup Val /\ MaxCap \in Nat
                  /\ Hashes \subseteq [Key -> 0..MaxCap-1]
                  /\ \E sizes \in SUBSET (2..MaxCap) : Reaches(sizes)

VARIABLES
    hash,
    buckets, capacity, count,
    call,   \* the call that is being executed, or NoCall
    ret     \* what the last call returned: a set of at most one answer, or the entries

vars == <<hash, buckets, capacity, count, call, ret>>

Call == [op : {"put"}, key : Key, val : Val]
        \cup [op : {"get", "remove"}, key : Key, val : {Absent}]
        \cup [op : {"entries"}, key : {Absent}, val : {Absent}]
NoCall == [op |-> "none", key |-> Absent, val |-> Absent]

Empty == [key |-> Absent, val |-> Absent]
Occupied(t) == {i \in DOMAIN t : t[i] # Empty}
Index == 0..capacity-1

\* zmap_fib_index: the leading bits; zmap_dist: how far behind k's home i lies, round the end.
Home(k, n) == hash[k] \div (MaxCap \div n)
Behind(k, d, n) == (Home(k, n) + d) % n
Dist(i, k, n) == (i - Home(k, n)) % n

\* (size_t)(new_cap * 0.85f), and 0 before the first put.
Threshold == (85 * capacity) \div 100
Larger == IF capacity = 0 THEN FirstCap ELSE 2 * capacity

Least(S) == CHOOSE d \in S : \A e \in S : d <= e

-----------------------------------------------------------------------------
\* One round of the loop of put: what is carried meets bucket i.
Met(w, i, e, n) ==
    IF w.carried = Empty THEN w
    ELSE IF w.t[i] = Empty \/ w.t[i].key = e.key
    THEN [w EXCEPT !.t[i] = w.carried, !.carried = Empty]
    ELSE LET d == Dist(i, w.t[i].key, n)
         IN  IF w.dist > d
             THEN [t |-> [w.t EXCEPT ![i] = w.carried], carried |-> w.t[i], dist |-> d + 1]
             ELSE [w EXCEPT !.dist = @ + 1]

\* The loop of put and of resize: n buckets t with the entry e.
Inserted(t, e, n) ==
    LET walk[d \in 0..n] ==
            IF d = 0 THEN [t |-> t, carried |-> e, dist |-> 0]
            ELSE Met(walk[d - 1], Behind(e.key, d - 1, n), e, n)
    IN  walk[n].t

Resized(n) ==
    LET fill[i \in 0..capacity] ==
            IF i = 0 THEN [j \in 0..n-1 |-> Empty]
            ELSE IF buckets[i - 1] = Empty THEN fill[i - 1]
            ELSE Inserted(fill[i - 1], buckets[i - 1], n)
    IN  fill[capacity]

\* The loop of get and remove ends at an empty bucket, at an entry that is nearer its home
\* than the key would be, or at the key: the bucket of the key, if it is there.
Found(k) ==
    LET at(d) == Behind(k, d, capacity)
        ends(d) == \/ buckets[at(d)].key \in {Absent, k}
                   \/ d > Dist(at(d), buckets[at(d)].key, capacity)
    IN  IF count = 0 THEN {}
        ELSE {i \in {at(Least({d \in 0..capacity : ends(d)}))} : buckets[i].key = k}

\* Mutant: the bucket of the removed entry is emptied and nothing is moved.
Emptied(i) == [buckets EXCEPT ![i] = Empty]

\* The loop of remove: the entries behind i move one back, up to an empty bucket or an entry
\* that is at home.
MovedBack(i) ==
    LET ends(d) == LET j == (i + d + 1) % capacity
                   IN  buckets[j] = Empty \/ Dist(j, buckets[j].key, capacity) = 0
        last == Least({d \in Index : ends(d)})
        from(j) == (j - i) % capacity
    IN  [j \in Index |-> IF from(j) < last THEN buckets[(j + 1) % capacity]
                         ELSE IF from(j) = last THEN Empty ELSE buckets[j]]

-----------------------------------------------------------------------------
Init ==
    /\ hash \in Hashes
    /\ buckets = <<>> /\ capacity = 0 /\ count = 0
    /\ call = NoCall /\ ret = {}

Invoke(c) ==
    /\ call = NoCall
    /\ (c.op = "put" /\ count >= Threshold) => Larger <= MaxCap
    /\ call' = c /\ ret' = {}
    /\ UNCHANGED <<hash, buckets, capacity, count>>

Return(op, r) == call.op = op /\ call' = NoCall /\ ret' = r /\ UNCHANGED hash

\* The map grows before it is known whether the key is new.
Put ==
    /\ Return("put", {})
    /\ LET full == count >= Threshold
           n == IF full THEN Larger ELSE capacity
           t == IF full THEN Resized(n) ELSE buckets
       IN  /\ buckets' = Inserted(t, [key |-> call.key, val |-> call.val], n)
           /\ capacity' = n
           /\ count' = IF Occupied(buckets') = Occupied(t) THEN count ELSE count + 1

Get ==
    /\ Return("get", {buckets[i].val : i \in Found(call.key)})
    /\ UNCHANGED <<buckets, capacity, count>>

Remove ==
    /\ Return("remove", {})
    /\ UNCHANGED capacity
    /\ \/ Found(call.key) = {} /\ UNCHANGED <<buckets, count>>
       \/ \E i \in Found(call.key) : buckets' = MovedBack(i) /\ count' = count - 1

\* zmap_iter_init, and zmap_iter_next until there is no more.
Entries ==
    /\ Return("entries", {<<buckets[i].key, buckets[i].val>> : i \in Occupied(buckets)})
    /\ UNCHANGED <<buckets, capacity, count>>

Next == (\E c \in Call : Invoke(c)) \/ Put \/ Get \/ Remove \/ Entries

Spec == Init /\ [][Next]_vars

-----------------------------------------------------------------------------
Contents == [k \in Key |-> IF \E i \in Index : buckets[i].key = k
                           THEN buckets[CHOOSE i \in Index : buckets[i].key = k].val ELSE Absent]

Promise == INSTANCE FiniteMap WITH map <- Contents

\* zmap.h is a map: whatever the hashes, after any puts, removals and growth, a search that
\* gives up at the first entry nearer its home has missed no key, a removal loses none, and
\* a walk over the buckets meets every entry once.
ZMapIsMap == Promise!Safe
=============================================================================
