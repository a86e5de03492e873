------------------------------- MODULE MCStd -------------------------------
(* The containers and threads of the standard library, and the compiler's own hash map, for
   TLC: a program uses one of them. *)
EXTENDS Containers, Sync, Maps

CONSTANTS a, b,               \* two containers of the program
          v1, v2,             \* two values stored in them
          k1, k2, k3, k4      \* keys of a table (the first three) and of a zmap

VARIABLE used

vecs == <<vec, got, exited>>
stacks == <<stk, top>>
queues == <<queue, ret>>
lists == <<vecs, stacks, queues>>
zmap == <<zhash, buckets, capacity, entries, zcall, zret>>
allVars == <<used, lists, tableVars, syncVars, zmap>>

\* All keys meet at the last slot and wrap round; two meet only in the small table;
\* neighbours whose runs of slots grow together.
TableHashes == {[k \in {k1, k2, k3} |-> 3],
                [k \in {k1, k2, k3} |-> IF k = k1 THEN 7 ELSE IF k = k2 THEN 3 ELSE 0],
                [k \in {k1, k2, k3} |-> IF k = k1 THEN 6 ELSE IF k = k2 THEN 7 ELSE 5]}

\* All homes are the last bucket; homes wrap round; the homes of neighbours in one run.
ZMapHashes == {[k \in {k1, k2, k3, k4} |-> 7],
               [k \in {k1, k2, k3, k4} |-> IF k = k1 THEN 6 ELSE IF k = k4 THEN 0 ELSE 7],
               [k \in {k1, k2, k3, k4} |-> IF k \in {k1, k2} THEN 2 ELSE IF k = k3 THEN 3 ELSE 4]}

StdInit == /\ used \in {"vec", "stack", "queue", "table", "threads", "zmap"}
           /\ V!Init /\ S!Init /\ Init /\ TableInit /\ SyncInit /\ Z!Init
           /\ used # "table" => kind = "map" /\ hash = [k \in {k1, k2, k3} |-> 3]
           /\ used # "threads" => object = "once"
           /\ used # "zmap" => zhash = [k \in {k1, k2, k3, k4} |-> 7]

UseVec == used = "vec" /\ V!Next /\ UNCHANGED <<used, stacks, queues, tableVars, syncVars, zmap>>
UseStack == used = "stack" /\ S!Next /\ UNCHANGED <<used, vecs, queues, tableVars, syncVars, zmap>>
UseQueue == used = "queue" /\ Next /\ UNCHANGED <<used, vecs, stacks, tableVars, syncVars, zmap>>
UseTable == used = "table" /\ TableNext /\ UNCHANGED <<used, lists, syncVars, zmap>>
UseThreads == used = "threads" /\ SyncNext /\ UNCHANGED <<used, lists, tableVars, zmap>>
UseZMap == used = "zmap" /\ Z!Next /\ UNCHANGED <<used, lists, tableVars, syncVars>>

\* Vec.get and its like end the program when the index is out of range.
Ended == used = "vec" /\ exited /\ UNCHANGED allVars

Use == UseVec \/ UseStack \/ UseQueue \/ UseTable \/ UseThreads \/ UseZMap \/ Ended

Steps(A) == used = "threads" /\ A /\ UNCHANGED <<used, lists, tableVars, zmap>>

\* Fairness of HashTable: a call is a loop of one thread.  Fairness of Sync.
StdSpec ==
    /\ StdInit
    /\ [][Use]_allVars
    /\ WF_allVars(used = "table" /\ Step /\ UNCHANGED <<used, lists, syncVars, zmap>>)
    /\ \A t \in Thread : /\ WF_allVars(Steps(Spawn(t)))
                         /\ WF_allVars(Steps(Join(t)))
                         /\ WF_allVars(Steps(Work(t)))

\* See Sync; the lists are in Queue and Containers, TableIsMap and the rest of HashTable in
\* HashTable, ZMapIsMap in Maps, the safety of Sync in Sync.
ThreadsJoined == used = "threads" => AllJoined
=============================================================================
