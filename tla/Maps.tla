-------------------------------- MODULE Maps --------------------------------
(***************************************************************************)
(* The hash tables side by side: Map and Set of std, and the compiler's    *)
(* own zmap.h, with keys and values of its own.                            *)
(***************************************************************************)
EXTENDS HashTable

CONSTANTS ZKey, ZVal,
          ZFirstCap,   \* zmap's first capacity: 32 in the code
          ZMaxCap,     \* no put is called that would grow a zmap further (a bound)
          ZHashes      \* the hash functions followed

VARIABLES zhash, buckets, capacity, entries, zcall, zret

Z == INSTANCE ZMap WITH Key <- ZKey, Val <- ZVal, FirstCap <- ZFirstCap, MaxCap <- ZMaxCap,
                        Hashes <- ZHashes, hash <- zhash, count <- entries, call <- zcall,
                        ret <- zret

ASSUME ZMapsAssumption == Z!ZMapAssumption

\* A zmap is a map (module ZMap implements the safety part of FiniteMap): whatever the hashes,
\* after any puts, removals and growth, a search that gives up at the first entry nearer its
\* home has missed no key, a removal loses none, and a walk meets every entry once.
ZMapIsMap == Z!ZMapIsMap
=============================================================================
