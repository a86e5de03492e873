----------------------------- MODULE FiniteMap -----------------------------
(***************************************************************************)
(* What Map and Set promise: a finite map, or a set of keys, on which one  *)
(* call at a time is made, takes effect, and returns.                      *)
(***************************************************************************)
CONSTANTS Key, Val, Absent,  \* Absent: the value of a key that is not in the map
          Call,              \* the calls made on it
          NoCall

VARIABLES map, call, ret

vars == <<map, call, ret>>

Present == {k \in Key : map[k] # Absent}

\* The map after a call, and what the call returns.
After(c) ==
    IF c.op \in {"put", "add"} THEN [map EXCEPT ![c.key] = c.val]
    ELSE IF c.op \in {"remove", "discard"} THEN [map EXCEPT ![c.key] = Absent]
    ELSE IF c.op \in {"clear", "free"} THEN [k \in Key |-> Absent]
    ELSE map

Answer(c) ==
    IF c.op \in {"has", "discard"} THEN {c.key} \cap Present
    ELSE IF c.op = "add" THEN {c.key} \ Present
    ELSE IF c.op = "get" THEN {map[c.key]} \ {Absent}
    ELSE IF c.op = "entries" THEN {<<k, map[k]>> : k \in Present}
    ELSE {}

Init == map = [k \in Key |-> Absent] /\ call = NoCall /\ ret = {}

Invoke(c) == call = NoCall /\ call' = c /\ ret' = {} /\ UNCHANGED map

Respond == call # NoCall /\ map' = After(call) /\ ret' = Answer(call) /\ call' = NoCall

Next == (\E c \in Call : Invoke(c)) \/ Respond

\* What calls do and return; and that a call that was made returns.
Safe == Init /\ [][Next]_vars
Spec == Safe /\ WF_vars(Respond)
=============================================================================
