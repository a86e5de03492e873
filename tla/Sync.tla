-------------------------------- MODULE Sync --------------------------------
(***************************************************************************)
(* std/sync.zc and Thread of std/thread.zc: a main thread spawns workers   *)
(* that share one object, a Once, a Barrier or a Semaphore, and joins them.*)
(* Barrier and Semaphore are the ones of Apple systems, made of a mutex    *)
(* and a condition variable; elsewhere they are the system's own.          *)
(*                                                                         *)
(* A thread's code between taking the mutex and giving it up is one step   *)
(* where nothing it reads is written outside.  Once.done is also read      *)
(* without the mutex; what its closure stores and `done` go through the    *)
(* store buffer of the thread, which other threads see in order when       *)
(* InOrder (x86) and in any order else, and all of it after an unlock.     *)
(***************************************************************************)
EXTENDS Integers, Sequences, FiniteSets

CONSTANTS
    Thread,        \* the workers
    Nobody,        \* no worker: the owner of a free mutex
    Object,        \* the kinds of object the workers may share
    Initial,       \* the values a semaphore is made with
    Rounds,        \* calls that each worker makes (a bound)
    MaxSpurious,   \* spurious wakeups of each worker (a bound)
    InOrder        \* do stores reach the memory in their order

ASSUME SyncAssumption ==
    /\ IsFiniteSet(Thread) /\ Nobody \notin Thread
    /\ Object \subseteq {"once", "barrier", "semaphore"}
    /\ Initial \subseteq Nat /\ Rounds \in Nat /\ MaxSpurious \in Nat
    /\ InOrder \in BOOLEAN

VARIABLES
    object,
    pc,        \* where each worker is
    owner,     \* of the object's mutex
    asleep,    \* the workers in pthread_cond_wait
    spurious,  \* how often each has woken without a signal
    calls,     \* the calls each has returned from
    memory,    \* of "data" (what the closure stores) and "done": those that are set
    buffer,    \* the stores of each worker that the others cannot see yet
    ran,       \* times the closure has run
    count,     \* of BarrierData or SemData
    threshold, \* of BarrierData; the value a semaphore was made with
    gen,       \* BarrierData.generation
    seen       \* the generation that each worker has read

threads == <<pc, owner, asleep, spurious, calls>>
once == <<memory, buffer, ran>>
counter == <<count, threshold, gen, seen>>
syncVars == <<object, threads, once, counter>>

SyncInit ==
    /\ object \in Object
    /\ pc = [t \in Thread |-> "unborn"]
    /\ owner = Nobody /\ asleep = {}
    /\ spurious = [t \in Thread |-> 0] /\ calls = [t \in Thread |-> 0]
    /\ memory = {} /\ buffer = [t \in Thread |-> <<>>] /\ ran = 0
    /\ threshold \in IF object = "semaphore" THEN Initial ELSE {Cardinality(Thread)}
    /\ count = threshold /\ gen = 0 /\ seen = [t \in Thread |-> 0]

Goes(t, from, to) == pc[t] = from /\ pc' = [pc EXCEPT ![t] = to]

\* The worker returns from a call: to the next one, or from its closure.
Returns(t, from) ==
    /\ calls' = [calls EXCEPT ![t] = @ + 1]
    /\ Goes(t, from, IF calls[t] + 1 < Rounds THEN "ready" ELSE "finished")

Lock(t, from, to) == Goes(t, from, to) /\ owner = Nobody /\ owner' = t
Unlock(t) == owner = t /\ owner' = Nobody

-----------------------------------------------------------------------------
(* Threads and condition variables *)

\* pthread_create fails: the closure will never run.  (The other workers of a barrier would
\* wait for ever; its program ends when it cannot start them.)
Spawn(t) ==
    /\ Goes(t, "unborn", "ready") \/ (object # "barrier" /\ Goes(t, "unborn", "failed"))
    /\ UNCHANGED <<object, owner, asleep, spurious, calls, once, counter>>

Join(t) ==
    /\ Goes(t, "finished", "joined")
    /\ UNCHANGED <<object, owner, asleep, spurious, calls, once, counter>>

\* pthread_cond_wait gives up the mutex and sleeps in one step; woken, the worker takes the
\* mutex and goes back to its loop.
Sleep(t, from) == Goes(t, from, "asleep") /\ Unlock(t) /\ asleep' = asleep \cup {t}

Wake(t) ==
    /\ t \notin asleep /\ Lock(t, "asleep", "loop")
    /\ UNCHANGED <<object, asleep, spurious, calls, once, counter>>

SpuriousWakeup(t) ==
    /\ t \in asleep /\ spurious[t] < MaxSpurious
    /\ asleep' = asleep \ {t} /\ spurious' = [spurious EXCEPT ![t] = @ + 1]
    /\ UNCHANGED <<object, pc, owner, calls, once, counter>>

Broadcast == asleep' = {}

\* Mutant: nobody is woken.
SignalNone == UNCHANGED asleep

Signal == \/ asleep = {} /\ UNCHANGED asleep
          \/ \E t \in asleep : asleep' = asleep \ {t}

-----------------------------------------------------------------------------
(* Once *)

Sees(t, x) == x \in memory \/ \E i \in 1..Len(buffer[t]) : buffer[t][i] = x

\* A store leaves the buffer: the oldest one, or any.
Flush(t) ==
    /\ \E i \in 1..Len(buffer[t]) :
        /\ InOrder => i = 1
        /\ memory' = memory \cup {buffer[t][i]}
        /\ buffer' = [buffer EXCEPT ![t] = SubSeq(@, 1, i - 1) \o SubSeq(@, i + 1, Len(@))]
    /\ UNCHANGED <<object, threads, ran, counter>>

Fast(t) ==
    /\ object = "once"
    /\ \/ Sees(t, "done") /\ Returns(t, "ready")
       \/ ~Sees(t, "done") /\ Goes(t, "ready", "lock") /\ UNCHANGED calls
    /\ UNCHANGED <<object, owner, asleep, spurious, once, counter>>

LockOnce(t) ==
    /\ object = "once" /\ Lock(t, "lock", "check")
    /\ UNCHANGED <<object, asleep, spurious, calls, once, counter>>

\* Mutant: `done` is not read again under the mutex.
NoCheck(t) ==
    /\ object = "once" /\ Goes(t, "check", "func")
    /\ UNCHANGED <<object, owner, asleep, spurious, calls, once, counter>>

Check(t) ==
    /\ object = "once" /\ Goes(t, "check", IF Sees(t, "done") THEN "unlock" ELSE "func")
    /\ UNCHANGED <<object, owner, asleep, spurious, calls, once, counter>>

Func(t) ==
    /\ object = "once" /\ Goes(t, "func", "mark")
    /\ ran' = ran + 1 /\ buffer' = [buffer EXCEPT ![t] = Append(@, "data")]
    /\ UNCHANGED <<object, owner, asleep, spurious, calls, memory, counter>>

Mark(t) ==
    /\ object = "once" /\ Goes(t, "mark", "unlock")
    /\ buffer' = [buffer EXCEPT ![t] = Append(@, "done")]
    /\ UNCHANGED <<object, owner, asleep, spurious, calls, memory, ran, counter>>

UnlockOnce(t) ==
    /\ object = "once" /\ buffer[t] = <<>>
    /\ Returns(t, "unlock") /\ Unlock(t)
    /\ UNCHANGED <<object, asleep, spurious, once, counter>>

-----------------------------------------------------------------------------
(* Barrier.wait *)

LockBarrier(t) ==
    /\ object = "barrier" /\ Lock(t, "ready", "arrive")
    /\ UNCHANGED <<object, asleep, spurious, calls, once, counter>>

Arrive(t) ==
    /\ object = "barrier"
    /\ seen' = [seen EXCEPT ![t] = gen]
    /\ \/ /\ count = 1
          /\ gen' = gen + 1 /\ count' = threshold /\ Broadcast /\ Goes(t, "arrive", "leave")
       \/ /\ count # 1
          /\ count' = count - 1 /\ Goes(t, "arrive", "loop") /\ UNCHANGED <<gen, asleep>>
    /\ UNCHANGED <<object, owner, spurious, calls, once, threshold>>

\* Mutant: the worker leaves as soon as it has been woken.
LoopLeaves(t) ==
    /\ object = "barrier"
    /\ \/ spurious[t] = 0 /\ seen[t] = gen /\ Sleep(t, "loop")
       \/ (spurious[t] > 0 \/ seen[t] # gen) /\ Goes(t, "loop", "leave") /\ UNCHANGED <<owner, asleep>>
    /\ UNCHANGED <<object, spurious, calls, once, counter>>

Loop(t) ==
    /\ object = "barrier"
    /\ \/ seen[t] = gen /\ Sleep(t, "loop")
       \/ seen[t] # gen /\ Goes(t, "loop", "leave") /\ UNCHANGED <<owner, asleep>>
    /\ UNCHANGED <<object, spurious, calls, once, counter>>

Leave(t) ==
    /\ object = "barrier" /\ Returns(t, "leave") /\ Unlock(t)
    /\ UNCHANGED <<object, asleep, spurious, once, counter>>

-----------------------------------------------------------------------------
(* Semaphore: the workers wait or try_wait, and post what they took *)

LockSemaphore(t) ==
    /\ object = "semaphore"
    /\ Lock(t, "ready", "loop") \/ Lock(t, "ready", "try") \/ Lock(t, "taken", "post")
    /\ UNCHANGED <<object, asleep, spurious, calls, once, counter>>

Take(t, from) == count' = count - 1 /\ Unlock(t) /\ Goes(t, from, "taken")

\* Mutant: the count is tested once, before the worker sleeps.
WaitIf(t) ==
    /\ object = "semaphore"
    /\ \/ count <= 0 /\ spurious[t] = 0 /\ Sleep(t, "loop") /\ UNCHANGED count
       \/ (count > 0 \/ spurious[t] > 0) /\ Take(t, "loop") /\ UNCHANGED asleep
    /\ UNCHANGED <<object, spurious, calls, once, threshold, gen, seen>>

Wait(t) ==
    /\ object = "semaphore"
    /\ \/ count <= 0 /\ Sleep(t, "loop") /\ UNCHANGED count
       \/ count > 0 /\ Take(t, "loop") /\ UNCHANGED asleep
    /\ UNCHANGED <<object, spurious, calls, once, threshold, gen, seen>>

TryWait(t) ==
    /\ object = "semaphore"
    /\ \/ count > 0 /\ Take(t, "try") /\ UNCHANGED calls
       \/ count <= 0 /\ Unlock(t) /\ Returns(t, "try") /\ UNCHANGED count
    /\ UNCHANGED <<object, asleep, spurious, once, threshold, gen, seen>>

Post(t) ==
    /\ object = "semaphore"
    /\ count' = count + 1 /\ Signal /\ Unlock(t) /\ Returns(t, "post")
    /\ UNCHANGED <<object, spurious, once, threshold, gen, seen>>

-----------------------------------------------------------------------------
Work(t) ==
    \/ Wake(t) \/ Flush(t)
    \/ Fast(t) \/ LockOnce(t) \/ Check(t) \/ Func(t) \/ Mark(t) \/ UnlockOnce(t)
    \/ LockBarrier(t) \/ Arrive(t) \/ Loop(t) \/ Leave(t)
    \/ LockSemaphore(t) \/ Wait(t) \/ TryWait(t) \/ Post(t)

Done == /\ \A t \in Thread : pc[t] \in {"joined", "failed"}
        /\ UNCHANGED syncVars

SyncNext == \/ \E t \in Thread : Spawn(t) \/ Join(t) \/ Work(t) \/ SpuriousWakeup(t)
            \/ Done

\* Each thread keeps running when it can; a wakeup without a signal may never happen.
Fairness == \A t \in Thread : /\ WF_syncVars(Spawn(t)) /\ WF_syncVars(Join(t)) /\ WF_syncVars(Work(t))

SyncSpec == SyncInit /\ [][SyncNext]_syncVars /\ Fairness

-----------------------------------------------------------------------------
\* Once.call: the closure runs at most once, and a call that has returned, through the test
\* without the mutex too, sees all that the closure stored.
OnceRunsOnce ==
    /\ ran <= 1
    /\ object = "once" => \A t \in Thread : calls[t] > 0 => ran = 1 /\ Sees(t, "data")

\* Barrier.wait: nobody returns from a round that somebody has not come to, also when a fast
\* worker is back at the barrier while others have yet to leave it.
BarrierRounds ==
    object = "barrier" =>
        \A t, u \in Thread :
            calls[t] <= calls[u] + IF pc[u] \in {"asleep", "loop", "leave"} THEN 1 ELSE 0

\* Semaphore: permits are neither made nor lost, and nobody takes one that is not there.
PermitsConserved ==
    object = "semaphore" =>
        /\ count >= 0
        /\ count + Cardinality({t \in Thread : pc[t] \in {"taken", "post"}}) = threshold

\* Every worker that was started comes back from its calls and is joined: no wakeup is lost,
\* and nobody waits for a mutex that is never given up.
AllJoined == <>(\A t \in Thread : pc[t] \in {"joined", "failed"})
=============================================================================
