------------------------------ MODULE Buffers ------------------------------
(***************************************************************************)
(* The raw buffers of std/mem.zc that Vec, Stack and Queue keep their      *)
(* items in: n slots, numbered from 0.  A slot that was never written, or  *)
(* whose value was handed to the caller, holds Junk; so does every address *)
(* behind the buffer, where a store changes nothing the containers read.   *)
(***************************************************************************)
EXTENDS Integers

CONSTANTS Val,   \* the values a program stores
          Junk   \* what is read from a slot that holds none

ASSUME JunkAssumption == Junk \notin Val

Slots(n) == 0..n-1

Buffer == UNION {[Slots(n) -> Val \cup {Junk}] : n \in Nat}

\* alloc_n
Alloc(n) == [i \in Slots(n) |-> Junk]

\* data[i]
Load(d, i) == IF i \in DOMAIN d THEN d[i] ELSE Junk

\* data[i] = v
Store(d, i, v) == [d EXCEPT ![i] = v]

\* realloc_n, or a memcpy of all of d into a new buffer
Realloc(d, n) == [i \in Slots(n) |-> Load(d, i)]

\* memcpy and memmove: n items from s + from to d + to
Copied(d, to, s, from, n) ==
    [i \in DOMAIN d |-> IF i \in to..to+n-1 THEN Load(s, from + i - to) ELSE d[i]]

\* The items at i and above are the caller's, or forgotten.
Dropped(d, i) == [j \in DOMAIN d |-> IF j < i THEN d[j] ELSE Junk]
=============================================================================
