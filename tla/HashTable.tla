----------------------------- MODULE HashTable -----------------------------
(***************************************************************************)
(* std/map.zc and std/set.zc: open addressing with linear probing.  A slot *)
(* is free (never used since the table was made), live, or dead (occupied  *)
(* and deleted).  A program makes one call at a time; every probe is one   *)
(* step of it.  `kind` tells which of the two types the table is.          *)
(*                                                                         *)
(* Each key hashes to any number: `hash` is one of Hashes and never        *)
(* changes.  Strings and the values of a set are model values.             *)
(*                                                                         *)
(* Map.remove returns nothing, although the comment above it (map.zc:193)  *)
(* says that it returns whether the key was present.                       *)
(***************************************************************************)
EXTENDS Integers, FiniteSets

CONSTANTS Key, Value, Absent,
          FirstCap,     \* the first capacity: 8 in the code
          MaxCap,     \* no call is made that would grow the table further (a bound)
          Hashes,     \* the hash functions followed
          Full        \* may Map.put and Map.remove be called when no slot is free

ASSUME HashAssumption == /\ Absent \notin Key \cup Value /\ Full \in BOOLEAN
                         /\ FirstCap \in Nat \ {0} /\ FirstCap % 4 = 0 /\ MaxCap \in Nat
                         /\ Hashes \subseteq [Key -> Nat]

VARIABLES
    kind,   \* "map" or "set"
    hash,   \* hash of every key
    slot,   \* keys, vals (or data), occupied and deleted, by index
    cap, len,
    call,   \* the call that is being executed, or NoCall
    at,     \* how far it has come: idx, start_idx, and what it does next
    answer     \* what the last call returned: a set of at most one answer, or the entries

table == <<slot, cap, len>>
tableVars == <<kind, hash, table, call, at, answer>>

\* The calls on a Map and on a Set.
MapCall == [op : {"put"}, key : Key, val : Value]
           \cup [op : {"get", "remove"}, key : Key, val : {Absent}]
           \cup [op : {"entries", "free"}, key : {Absent}, val : {Absent}]
SetCall == {[op |-> "add", key |-> k, val |-> k] : k \in Key}
           \cup [op : {"has", "discard"}, key : Key, val : {Absent}]
           \cup [op : {"entries", "clear", "free"}, key : {Absent}, val : {Absent}]
NoCall == [op |-> "none", key |-> Absent, val |-> Absent]

FreeSlot == [st |-> "free", key |-> Absent, val |-> Absent]
DeadSlot == [st |-> "dead", key |-> Absent, val |-> Absent]
LiveSlot(k, v) == [st |-> "live", key |-> k, val |-> v]

Holds(s, k) == s.st = "live" /\ s.key = k

Index == 0..cap-1
Start(k, n) == hash[k] % n
Next1(i) == (i + 1) % cap

\* The slot that is looked at after d others, in a table of n slots.
Probed(k, d, n) == (Start(k, n) + d) % n

\* len >= cap * 0.75
Crowded == 4 * len >= 3 * cap
Larger == IF 2 * cap < FirstCap THEN FirstCap ELSE 2 * cap

\* Mutant: the arrays are doubled and copied, and nothing is hashed again.
ResizedInPlace(n) == [i \in 0..n-1 |-> IF i \in Index THEN slot[i] ELSE FreeSlot]

FirstFree(t, k, n) ==
    Probed(k, CHOOSE d \in 0..n-1 : /\ t[Probed(k, d, n)].st = "free"
                                    /\ \A e \in 0..d-1 : t[Probed(k, e, n)].st # "free", n)

Moved(t, s, n) == IF s.st = "live" THEN [t EXCEPT ![FirstFree(t, s.key, n)] = s] ELSE t

\* _resize: the live entries, in their order, put into n free slots; the dead are forgotten.
Resized(n) ==
    LET fill[i \in 0..cap] == IF i = 0 THEN [j \in 0..n-1 |-> FreeSlot]
                              ELSE Moved(fill[i - 1], slot[i - 1], n)
    IN  fill[cap]

-----------------------------------------------------------------------------
Idle == [step |-> "idle", idx |-> 0, start |-> 0, seen |-> {}]
Probe(step, i) == [step |-> step, idx |-> i, start |-> i, seen |-> {}]

TableInit ==
    /\ kind \in {"map", "set"} /\ hash \in Hashes
    /\ slot = <<>> /\ cap = 0 /\ len = 0
    /\ call = NoCall /\ at = Idle /\ answer = {}

\* put and remove of a Map probe until they meet a free slot or their key.
Roomy == Full \/ cap = 0 \/ \E i \in Index : slot[i].st = "free"

Invoke(c) ==
    /\ call = NoCall
    /\ c.op = "put" => Roomy \/ Crowded
    /\ c.op = "remove" => Roomy
    /\ (c.op \in {"put", "add"} /\ Crowded) => Larger <= MaxCap
    /\ call' = c /\ at' = [Idle EXCEPT !.step = "begin"] /\ answer' = {}
    /\ UNCHANGED <<kind, hash, table>>

Return(r) == call' = NoCall /\ at' = Idle /\ answer' = r /\ UNCHANGED <<kind, hash>>

Continue(a) == at' = a /\ UNCHANGED <<kind, hash, call, answer>>

Doing(step) == call # NoCall /\ at.step = step

\* The load is checked and the probe for a place begins.
Grow(step) ==
    /\ IF Crowded THEN slot' = Resized(Larger) /\ cap' = Larger /\ len' = len
       ELSE UNCHANGED table
    /\ Continue(Probe(step, Start(call.key, cap')))

Begin ==
    /\ Doing("begin")
    /\ \/ call.op = "put" /\ Grow("put")
       \/ call.op = "add" /\ cap = 0 /\ Grow("place")
       \/ call.op \in {"get", "remove", "has", "discard"} /\ cap = 0 /\ Return({}) /\ UNCHANGED table
       \/ call.op \in {"get", "remove", "has", "discard", "add"} /\ cap > 0
            /\ Continue(Probe("find", Start(call.key, cap))) /\ UNCHANGED table
       \/ call.op = "entries" /\ Continue(Probe("visit", 0)) /\ UNCHANGED table
       \/ call.op = "clear" /\ slot' = [i \in Index |-> FreeSlot] /\ len' = 0 /\ UNCHANGED cap /\ Return({})
       \/ call.op = "free" /\ slot' = <<>> /\ cap' = 0 /\ len' = 0 /\ Return({})

\* Map.put: the first free slot, or the key's own.
PutProbe ==
    /\ Doing("put")
    /\ LET s == slot[at.idx]
       IN  \/ /\ s.st = "free" \/ Holds(s, call.key)
              /\ slot' = [slot EXCEPT ![at.idx] = LiveSlot(call.key, call.val)]
              /\ len' = IF s.st = "free" THEN len + 1 ELSE len
              /\ UNCHANGED cap /\ Return({})
           \/ /\ s.st # "free" /\ ~Holds(s, call.key)
              /\ Continue([at EXCEPT !.idx = Next1(@)]) /\ UNCHANGED table

\* What the search for a key does when the key is found, and when it is not.
Found(i) ==
    \/ /\ call.op = "get" /\ Return({slot[i].val}) /\ UNCHANGED table
    \/ /\ call.op = "has" /\ Return({call.key}) /\ UNCHANGED table
    \/ /\ call.op = "add" /\ Return({}) /\ UNCHANGED table
    \/ /\ call.op \in {"remove", "discard"}
       /\ slot' = [slot EXCEPT ![i] = DeadSlot] /\ len' = len - 1 /\ UNCHANGED cap
       /\ Return({call.key} \cap IF call.op = "discard" THEN Key ELSE {})

Missing ==
    \/ call.op = "add" /\ Grow("place")
    \/ call.op # "add" /\ Return({}) /\ UNCHANGED table

\* Mutant: the search for a key ends at the first slot that holds none.
StopsAtDead(s) == s.st # "live"

\* The search goes on past dead slots.
Stops(s) == s.st = "free"

\* Mutant: no loop asks whether it came round.
NeverRound == FALSE

\* Map.remove does not ask.
Round == call.op # "remove" /\ Next1(at.idx) = at.start

\* The loop of get, contains and remove.
FindProbe ==
    /\ Doing("find")
    /\ LET s == slot[at.idx]
       IN  \/ Stops(s) /\ Missing
           \/ Holds(s, call.key) /\ Found(at.idx)
           \/ ~Stops(s) /\ ~Holds(s, call.key) /\ Round /\ Missing
           \/ /\ ~Stops(s) /\ ~Holds(s, call.key) /\ ~Round
              /\ Continue([at EXCEPT !.idx = Next1(@)]) /\ UNCHANGED table

\* Set.add: the first slot that is not live.
PlaceProbe ==
    /\ Doing("place")
    /\ \/ /\ slot[at.idx].st # "live"
          /\ slot' = [slot EXCEPT ![at.idx] = LiveSlot(call.key, call.val)]
          /\ len' = len + 1 /\ UNCHANGED cap /\ Return({call.key})
       \/ /\ slot[at.idx].st = "live"
          /\ Continue([at EXCEPT !.idx = Next1(@)]) /\ UNCHANGED table

\* MapIter.next, and the loop over the slots of a set.
Visit ==
    /\ Doing("visit") /\ UNCHANGED table
    /\ \/ at.idx >= cap /\ Return(at.seen)
       \/ /\ at.idx < cap
          /\ Continue([at EXCEPT !.idx = @ + 1,
                          !.seen = @ \cup {<<slot[i].key, slot[i].val>> :
                                              i \in {i \in {at.idx} : slot[i].st = "live"}}])

Step == Begin \/ PutProbe \/ FindProbe \/ PlaceProbe \/ Visit

TableNext ==
    \/ kind = "map" /\ \E c \in MapCall : Invoke(c)
    \/ kind = "set" /\ \E c \in SetCall : Invoke(c)
    \/ Step

\* A call is a loop of one thread, which keeps running.
TableSpec == TableInit /\ [][TableNext]_tableVars /\ WF_tableVars(Step)

-----------------------------------------------------------------------------
\* len counts the entries, no key has two of them, and each is found before the first free
\* slot from its hash on: what every search relies on, and every removal must leave true.
Ordered ==
    /\ len = Cardinality({i \in Index : slot[i].st = "live"})
    /\ \A i, j \in Index : slot[i].st = "live" /\ Holds(slot[j], slot[i].key) => i = j
    /\ \A i \in Index : slot[i].st = "live" =>
           \E d \in 0..cap-1 :
               /\ i = Probed(slot[i].key, d, cap)
               /\ \A e \in 0..d : slot[Probed(slot[i].key, e, cap)].st # "free"

Contents == [k \in Key |->
                IF \E i \in Index : Holds(slot[i], k)
                THEN slot[CHOOSE i \in Index : Holds(slot[i], k)].val ELSE Absent]

Promise == INSTANCE FiniteMap WITH
               Val <- Value, map <- Contents, Call <- MapCall \cup SetCall, ret <- answer

\* The table is the map (or set) that the calls built, whatever the hashes, however often it
\* was resized and whatever was deleted.
TableIsMap == Promise!Safe

\* Every call on a Map or a Set returns, as long as a free slot is left (Full = FALSE).
CallsReturn == call # NoCall ~> call = NoCall

\* Every put ends.
PutReturns == call.op = "put" ~> call = NoCall
=============================================================================
