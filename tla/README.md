# Zen C: a verification project

Zen C (`zc`) is a compiler from a systems language with ownership, `defer` and
destructors to C. This directory holds TLA+ models of the parts of it where
correctness depends on order, control flow and state that is shared between
distant places, the TLC runs that check them and the TLAPS proofs about them.

## The system

| Component | State | Operations | What makes it correct |
|---|---|---|---|
| Move checker (`src/src/analysis/move_check.c`, `typecheck.c`, `typecheck_stmt.c`) | `ctx->move_state`, `is_unreachable`, and per loop the break, continue and start states | `check_node` on each statement; uses, moves and assignments | a value that an execution moved away is never used without a report; no statement merges a state away |
| Defer and drop (`src/src/codegen/codegen_stmt.c`, `codegen_stmt_handlers.c`, `codegen_utils.c`) | `cg.defer_stack`, `defer_count`, `loop_defer_boundary`; in the generated program the drop flags | code for blocks, branches, loops, jumps, returns, declarations, moves | leaving blocks runs exactly their defers, last first; every owned value is dropped exactly once |
| Types (`src/src/parser/utils/utils_validation.c`, `src/src/codegen/codegen_main.c`) | the lists of types, `has_drop` of definitions and of references, the order of definitions | `propagate_drop_traits`, `fix_type_refs_has_drop`, `is_type_copy`, `topo_sort_structs`, `emit_auto_drop_glues` | what is known to contain an owner is marked as one; what is dropped is not copied; a type is defined before it is contained; dropping reaches every part |
| Std collections (`src/std/vec.zc`, `stack.zc`, `queue.zc`, `map.zc`, `set.zc`) | a buffer with a length and a capacity; a ring; slots with occupied and deleted marks | push, pop, insert, remove, grow, clone; put, get, remove, resize | they implement a list, a stack, a FIFO queue, a map, a set; every probe ends |
| Std threads (`src/std/sync.zc`, `thread.zc`) | a mutex, the threads in a condition variable, `done`, `count`, `generation` | Once.call, Barrier.wait, Semaphore.wait, try_wait and post, spawn, join | a closure runs once and its stores are seen; rounds of a barrier do not mix; permits are conserved; nobody waits forever |
| Language server (`src/src/lsp/`) | the project with the parse of every file, the tracked documents, the arena's mark and totals | initialize, didOpen, didChange, didClose, read-only requests, the scan of the workspace, the rebuild | it answers from the editor's text of every open document and from the disk for every other file; nothing it points to is given back |
| Arena (`src/src/utils/zalloc.h`) | a chain of blocks, the head, the space used in each | alloc, save, restore | what lies below a mark survives it, and no two allocations overlap |
| Hash map of the compiler (`src/src/utils/zmap.h`) | buckets with the hash of each key, a count, a capacity | put, get, remove, growth, iteration | it is a map, whatever the hashes and the order of calls |
| Imports (`src/src/parser/stmt/stmt_import.c`, `stmt_helpers.c`, `parser/utils/utils_registry.c`, `driver/driver.c`) | the files being read (`currently_parsing`) and read (`imported_files`), prefixes of modules and the one in force, aliases, selected names, bodies that wait | `parse_import`, `load_std_module`, `module_prefix_for`, `parse_pending_bodies`, extra files | a file is read once, circular imports are reported and nothing else is; prefixes are unique; a body finds its own types and what its file imported |
| Lexer, parser, typing, generics, compile-time evaluation, code generation of expressions, driver | trees and tables | one pass each | not modelled, see below |

How they interact: the driver runs the parser, which reads the imported files in
the middle of the importing ones and the bodies of functions behind all of them,
and fills the lists of types; then the ownership marks are propagated, the move checker runs
(`check_moves_only` in a build, `check_program` with `--check`), and the code
generator emits the types in their order and the functions with their drops. The
move checker decides which programs reach the code generator; the code
generator's drop flags are the run-time side of the same question, and the
ownership marks tell both what an owner is: the move checker reads them from
references and from definitions, the code generator from definitions. The standard library is
compiled by `zc` with every program. The language server runs the parser on
every change of a document and keeps the results in an arena that it rewinds
after read-only requests and empties for a rebuild.

The hard behaviours: control flow (a state must be right on every path of a
program nobody wrote a test for), text that is emitted again at another place
and means something else there, a second pass that is silent on purpose, types
in any order of declaration, removals that use up a hash table, a ring buffer
that wraps, files that import one another in a circle or in different styles, a
server that must forget and remember at the right moment, files
that change while they are scanned, and threads. `PROJECT.json` lists the hazards
with their lines.

## Modules

### MoveCheck

The program is any sequence of AST events up to `MaxSize`, nested up to
`MaxNest`. Each action is what `check_node` does at one event. `stack` holds the
activation records of the nested calls of `check_node` and `check_loop_passes`:
`init`, `out`, `cont`, `next` and `start` are the C variables `initial_state`,
`after_then`/`merged_state`/`loop_break_state`, `loop_continue_state`,
`next_iter_state` and `loop_start_state`. A move state is the set of its MOVED
paths, because VALID is what a missing entry reads as and parents are always
NULL. `NoState` is the NULL pointer. In a loop's first pass `initial_state` is
the very object that the body changes; a frame's `init` stays `NoState` until a
nested statement replaces the object (`Unshare`).

In lock step the module follows one execution of the program: `held` is what it
has really moved away, and `loc` says where it is relative to the checker: at
the statement being checked ("run"), waiting for a branch ("wait"), behind a
statement ("out"), at a loop's next iteration ("cont", "exit") or out of sight
("off"). The events of a loop body are logged, so that the second pass checks
the same body. The execution may run a body once per pass; a longer one is
covered because the second pass starts from a state that contains everything
the earlier iterations moved, and leaving the loop after it is the edge "deep".

`Edges` names the ways through a program on which `check_node` hands no state
over: leaving a loop without running it ("zero"), after its condition moved a
value ("cond") or after its body ran twice ("deep"), a dropped break state
("break"), a labelled jump ("label"), `goto`, and a test after a test that ended
unreachable ("test"). The checker's guarantees hold for executions that take
none of them ("deep" is harmless and is on in the passing runs); the violation
runs switch one on, or state what a comment says of the code.

`SwallowedWasReported` speaks of a build only (`movesOnly`): `check_program` keeps the
state of a break in the first pass of an inner loop and drops it in the second pass of
the outer one, so that its second pass may find MOVED, and suppress, what the first
found VALID (`move q; while c { loop { if d { q = new; break } else { q = new; break } }
use q; move q }`). TLC finds no such use that an execution makes with the
value gone: `UseAfterMoveRejected` is checked in both modes.

`for` is `while` with its initializer before and its step as the end of the
body. Not modelled: lambda bodies, shadowed names (states are keyed by name),
deferred statements (checked where they are written) and a `for` step after a
`continue`.

### Scopes and DeferDrop

`Scopes` is the promise: deferred actions are pending while their block is
open, and leaving blocks runs the actions of exactly those blocks, last one
first.

`DeferDrop` is the code generator. `deferStack` is `cg.defer_stack` up to
`defer_count`; a frame of `stack` is an activation of `handle_node_block` with
its `saved` count (a loop's `loop_defer_boundary` is the same number, since the
body opens at once). An entry is a user's `defer` or the drop of a variable,
with the variable it was written for. Its text is emitted again at every exit;
`Denotes` is C's scoping at that place, so a redeclaration changes what the text
means.

In lock step the module follows one execution: `cell` is its memory (for every
variable in scope, its `__z_drop_flag` and the value in it), `dead` the values
that were dropped or given away but are still in memory, and `ran` what the last
step ran. A loop body is walked again for every iteration. `Blocks`, `Pending`
and `Marks` map the state to `Scopes`: the blocks that the execution (not the
generator) is in.

`Risky` names the constructs that the code mishandles: labelled break and
continue ("label"), `expr?` ("try"), returning a slice literal ("slice"),
redeclaring a visible name ("shadow") and assigning to an owner in the C
backend ("assign"). Without them all properties hold. Two of them have a
violation run each; with "label" or "slice" TLC finds `DefersRunOnExit` and
`NothingLost` violated, with "assign" `NothingLost`.

A program that uses a value after moving it never reaches the code generator
(MoveCheck), so the followed execution does not (`CanMove`). goto, lambdas that
capture owners, members with Drop and discarded temporaries are not modelled.

### Structs

A program is a set of types, each on one of the four lists of `list` (newest first,
as `add_to_struct_list` and its like put them), with the `uses` that its fields,
payloads or elements make of other types by value, in an array or by pointer, and
what makes it own something by itself: a closure or a vector (`holders`) or an `impl
Drop` (`impls`). `Declare` parses one type, in any order. Two functions use all
types: `Func`, which is on `parsed_funcs_list`, and `Method`, which is not, as no
method and no instance of a generic function is. Then every iteration of the inner
loops is a step: `Visit` and `PassEnds` are `propagate_drop_traits`, `FixRefs` is
`fix_type_refs_has_drop`, `SortVisit`, `SortPassEnds`, `Rest` and `RestEnds` are
`topo_sort_structs` with its `max_iterations`. `hasDrop` is the mark of the
definitions, `refs` the mark of the references, and `IsTypeCopy` is `is_type_copy`,
which asks first the reference, then the impls by name, then the definition.
`DependsOn` compares the beginning of a field's type with a name, as the code does;
`Begins` says which names begin with which.

Two sorts of type own something that the code never drops, and the properties
name them as exceptions:

- `missed`: the `impl Drop` marks nothing. It stands above its type, where the code
  finds no definition, or it is for a template and the instance was made before
  it: an instance takes the marks of its template once, when it is made.
- `untyped`: instances of several generic parameters. `instantiate_generic_multi`
  gives them no `type_info`, so the walk passes over them and the glue is not
  emitted, whatever they hold; nor is a struct marked for holding one.

`Owners` is what owns something, `Known` what can be found to: without the impls
that marked nothing and not through what cannot be marked. `OwnersMarked` says
that the marks are exactly `Known`, and `Owners` when nothing is `Overlooked`;
`DropReachesParts` speaks of the parts that are known. A third exception is in
`CopiesNotDropped`, which says that what the generator drops the checker does not
let be copied: a struct that holds an owner and has an `impl Copy` is copied, and
both copies are dropped, where only the mark of the reference could have told, in
`Method`. Without any one of the exceptions TLC finds the property violated.

`DropKinds` says which kinds of type may have an `impl Drop`: with "enum" in it TLC
finds `DropReachesParts` violated (the glue of an enum is called and never emitted).
Parts in arrays, tuples and payloads of enums are never owned by what contains them;
the properties speak of fields only. Templates themselves, instances of generic
enums, traits, type aliases and unions are not modelled.

### SourceFiles, Imports, MCPasses

A program is an input file, other files, a file of std that no import needs to
name and C headers (`SourceFiles`); each file has a text of imports in all styles
(`"x.zc"`, `as`, `export`, `{ ... }`, `*`) and `impl Drop`s, then a struct and the
bodies of its methods. A text is chosen when the file is first opened, so the
graph of imports is any graph within `MaxItems`. `reading` is the recursion of
`parse_import` with the `prev_module_prefix` of each activation, `parsing` and
`imported` are `currently_parsing` and `imported_files`; `ImportAgain`, `Circular`,
`ImportHeader` and `Open` are its four ways through an import. `PrefixFor` is
`module_prefix_for`, `Alias` and `WildcardSymbols` the two re-exports, `LoadStd` is
`load_std_module`, `ParseBody` one round of `parse_pending_bodies`, and `ReadExtra`
the second file of the command line, which the driver parses into the same
tables. `Resolve` and `Through` say which type a name or `a::name` means to a
body (`parse_type_base`).

What holds has conditions, because the code does less than one may expect, and
each condition names it: a later import of a file in another style is ignored
(`Alike`); a type or a selected name of any other file takes the place of a
body's own (`Unshadowed`); two imports may claim one local name, and the last or
the first wins (`Unclaimed`); names selected with `{ ... }` and `*` are looked up
only in bodies without a prefix; a std file is declared behind the prefix of the
file that happened to ask for it; the input file is not marked while it is
read, so a circle through it is reported when it comes round the second time; an
extra file that no import has read is declared without a prefix, whatever imports
it from then on. Without any one of the conditions of `ImportsBind` and
`OwnTypeFound` TLC finds the property violated. `NamesAssumption` says that an alias
behind a prefix, the text `p__a` in the code and a pair here, is not the name of a file
or an alias; a program that calls a file `p__a` is outside of the model.

`MCPasses` lets a behaviour follow this pass or that of `DeferDrop`, in one run, which
is why the names of `Imports` (`ReadInit`, `ReadNext`, ...) differ from those of
`DeferDrop`.

Not modelled: finding a file from its path, plugins and C includes, names of
functions and globals (they take the same prefixes), generic types, and the
language server, which goes on behind a file that cannot be read.

### Buffers, Lists, Vec, Stack, Queue, Containers

`Lists` is the promise of the sequential containers: every handle holds a
sequence of its own, and `ret` is what the last call returned; `Calls` selects
the calls that a container offers. `Buffers` is what they share: a buffer as a
function of its slots, where a slot not written since the allocation holds
`Junk`. `Vec`, `Stack` and `Queue` have one action per call of `vec.zc`,
`stack.zc` and `queue.zc`, with the growth that the call does, and implement
`Lists` (`VecIsList`, `StackIsList`, `QueueIsList`); `Containers` puts the three
side by side. Three calls are guarded
because they write outside of the buffer in the code: cloning a full queue,
cloning a stack that never had a buffer, and reversing an empty vector. Without
the first two guards TLC finds the refinement violated. Of an empty `Vec`, `pop` ends
the program, and of an empty `Stack` it gives `Option::None`, as in the code; the
comments above them (`vec.zc:275`, `stack.zc:49`) say 0. Iterators that outlive a
change, `Vec.sort` and the searches that only read are not modelled.

### FiniteMap, HashTable

`FiniteMap` is a map whose calls begin and return. `HashTable` is `Map` and `Set`
(`kind`): open addressing where a slot is free, live or dead, a call in progress in
`call` and `at`, one step per probe, and the resize of put and add. `Map.put` never
takes a dead slot and `Set.add` does. `Full` says whether a program may call
`Map.put` or `Map.remove` when no slot is free: then the probe does not end (run
map_put), and without it every call returns (`CallsReturn`); `TableIsMap` is the
safety part of `FiniteMap`. `Map.remove` answers nothing, as in the code; the
comment above it (`map.zc:193`) says that it tells whether the key was present.
`Ordered` is the invariant of the probes: no free slot between the place a key
hashes to and the place it is in, and no key twice.

### ZMap

`ZMap` is `zmap.h`, the map in which the compiler keeps modules, imported and selected
names, prefixes, files and plugins. Nothing is marked as deleted: an insertion takes
the bucket of the first entry that is nearer its home than what it carries and
carries that on (`Met`), growing inserts everything again, and a removal moves the
entries behind it back, up to one that is at home. A search gives up at the first
entry that is nearer its home than the key would be; that this misses no key is
what `ZMapIsMap` says, the safety part of `FiniteMap`. A call is one step, because
one thread makes it and its loops see no other call; the steps of `Call` are those
the compiler makes. The hash is its leading bits, from which the home in every
capacity follows. The fields of an empty bucket and the key pointer that an
overwriting put keeps are left out. `Maps` puts the tables of std and a zmap side by side.

### Sync

Workers share a Once, a Barrier or a Semaphore, in the form of the code for Apple
systems, where barriers and semaphores are made of a mutex and a condition
variable. Between taking and releasing the mutex a worker's code is one step
where nothing it reads is written outside. `Once.done` is also read without
the mutex, so the closure's store and `done` go through a store buffer for each
worker: in order when `InOrder` (x86), else in any order. With
`InOrder = FALSE` TLC finds `OnceRunsOnce` violated: a caller returns and does not
see what the closure stored. `AllJoined` is checked as `ThreadsJoined` of `MCStd`, in the
behaviours that use threads. `pthread_create` may fail, `pthread_cond_wait` may
wake without a signal. RwLock, the system's own barrier and semaphore (whose
`sem_wait` a signal may interrupt), detach and cancel are not modelled, and a
closure that calls the Once it runs in (the mutex is not recursive) is left out.

### Arena, Documents, LspServer

`Arena` is `zalloc.h`: the blocks, the head, allocation in the head, in the next
block or in a new one, and the mark. Units stand for bytes and alignment
padding is left out; growing an allocation in place is not modelled.

`Documents` is the promise: an open document is known with the text the editor
last sent, and a file that is not open may be read again, or forgotten, at any
time. `LspServer` is `lsp_main` with the handlers that change state: one action
per kind of message, then, behind a message that is not read-only, the choice
between `Keep` and `Rebuild`, and the rebuild's loops file by file (`ScanFile`)
and document by document (`Reopen`), because other programs write and delete
files in between (`Store`). Messages come in order and one at a time, as the code
reads them. `files` holds for each file the place of its last parse in the arena
and the text it was made from, `traits` the registered traits, which live in
the arena too and are forgotten with every read-only request. `stale` is a
history variable: the files that changed on disk since the server last read
them. `Encoded` are the paths that the editor escapes in URIs: `didClose` does not
decode them, so such a document stays tracked after its close. The run and the
theorems about documents assume `Encoded = {}`; with a path in it TLC finds
`ServesEditor` and `ClosedServesDisk` violated. Not modelled: what is answered,
what imports pull into the project, running out of memory, ignored directories,
malformed messages, and a `didChange` with several `contentChanges`, of which the code
takes the first.

## Runs

| Run | Result | Question | Bounds |
|---|---|---|---|
| move_sound | pass | is every move known to the checker wherever the execution goes, with every kind of statement and a variable with a field? | 6 events, nesting 2: an `if` or match in a loop with a jump and a use behind it |
| move_loops | pass | do two passes over a loop body suffice? | loops and branches only, 7 events, nesting 3: a branch in a loop in a loop |
| move_zero_trip | violation | is a use behind a loop that is not entered rejected? | 7 events |
| move_infinite_loop | violation | does only a `loop` without breaks make the code behind it unreachable? | 7 events |
| move_merge | violation | is a place that both branches leave valid valid? | 7 events |
| defer_sound | pass | do exactly the right defers run, and is every value dropped once? Are files read once and circles reported, and do bodies find their own and the imported types? | 5 statements, 4 open blocks, two names, three values; four files and a header, two of the files with one name, three imports or `impl Drop`s in all of them, two namings of the types; 869,351 states |
| defer_shadow | violation | the same with redeclared names | as above |
| defer_try | violation | the same with `expr?` | as above |
| std | pass | do the containers implement lists, maps and sets, and do Once, Barrier and Semaphore keep their promises? | one type at a time: two vectors, stacks or queues of up to 3 items with first capacity 2 (they grow twice and wrap); tables of 4 and 8 slots, three keys that collide in three ways and two values; a zmap of 4 and 8 buckets with four keys and three hash functions (all homes in the last bucket, homes round the end, homes of neighbours); three threads, three calls each, one wakeup without a signal for each; 641,983 states |
| map_put | violation | does every put return? | one table of 4 slots that is not allowed to grow further |
| structs | pass | are owners marked, is nothing copied that is dropped, are types in order and parts dropped? | three types, two uses of which one in an array or behind a pointer, one thing that makes an owner, one type out of the ordinary (an enum, a tuple, a missed impl, an `impl Copy`, an instance of several parameters), and a name that begins with another; 4.83 million states |
| lsp | pass | does the server answer from the right text, with memory that is still there? | two files, two texts, blocks of 2 units, a request that needs a block of its own, a rebuild after 2 units of garbage; 1.14 million states |

Closing a block is not counted as a statement in DeferDrop, and every event is
counted in MoveCheck. The bounds are the smallest at which every action fires and
every mutant below is caught, with room to spare where the run time allows it.
Three keys of a table are enough for a key to be searched behind a dead and a live slot
while the table is resized, and four of a zmap for one to be carried past another, for a
removal to move two back, and for the map to grow; three threads for a fast one to come back to a
barrier that another has yet to leave while the third arrives; three types for a
chain of owners against the order of the walk, for a cycle with something that
waits for it, and for a type whose name is taken for another's. Three imports
are a circle through two files and the input file, a file that is imported from
two others, or an alias, its export and a use through it; m1, m2 and the header
have one name, so that the second takes its directory's and the third, of the
same directory, a number. Two files are
enough for one to be open while another is scanned, and a block of two units
for a parse, a request and a rebuild to begin in the middle of a block and to
need the next.

The two variable names of DeferDrop and the two files of LspServer are symmetric;
the runs with symmetry check no liveness property.

Fairness is assumed where the code has a scheduler or a loop that must end. A call
of `Map` or `Set` is a loop of one thread, so its steps are weakly fair. In Sync
each thread that can run does (`WF` of `Spawn`, `Join` and `Work` of every
worker, which includes that a store leaves its buffer and that a free mutex is
taken by the one who waits for it); a wakeup without a signal is never
promised, and there are finitely many. Nothing is assumed of the compiler,
which is a sequential program whose properties here are safety properties, nor
of the editor and the other programs of the language server.

Deadlock is not checked for MoveCheck, DeferDrop and LspServer: a program may end at
any event, the server exits when told so, and the bounds stop them. It is
checked in std and structs.

In every passing run each property is also checked against a mutated operator
(`MergeIntoFirstOnly`, `ResizedInPlace`, `PassEndsOnce`, ...): the definitions
marked "Mutant" in the modules are plausible bugs of the operator below them,
and each makes the property fail.

## Proofs

`MoveCheck_proof` proves, for every set of paths, size and nesting:

- `TypeCorrect`: `TypeOK` is an invariant.
- `NoMoveLost`: if `Edges = {}`, `Covered` is an invariant: everything the
  execution moved away is MOVED in the state the checker will have where the
  execution goes on.
- `UseAfterMoveFlagged`: under the same assumption, an execution that used a
  moved value was reported, or silenced by the second pass.
- `SuppressedWasReported` and `TwoPassesAreEnough`: in a build, `SwallowedWasReported` is
  an invariant and `TwoPassesSuffice` an action property, whatever `Edges` is: they speak
  of the checker alone.
- `BuildRejectsUseAfterMove`: if `Edges` is empty or {"deep"}, then in a build `Covered` and
  `UseAfterMoveRejected` are invariants.

`Covered` is not inductive: it does not say that the place where the execution
waits exists and is of a kind that resumes it. `IInv` adds `Shape` (only loops
have a pass, only `while` has a condition, nothing is nested in a condition or
between the cases of a match), `Where` (a running execution is on a path the
checker believes reachable, and what it moved is in the current state; a waiting
one waits at an open frame of the right kind whose `init`, `out`, `cont` or
`next` has all it moved) and `Flagged`. There is one lemma per action. Jumps and
merges only ever add to the states of the frames they do not close (`Keeps`),
which is why a waiting execution stays covered; the delicate steps are those
that close a frame (`EndIfStep`, `EndMatchStep`, `EndLoopStep`) and
`SecondPassStep`, where a state moves from one field to another.

`IInv` says that the use is flagged, not that it is reported: the second pass may have
silenced it. For that, the two passes over a body have to be compared event by event,
and the state that the first one had at each event is not in the model. `TwoPasses`
therefore says, for each open loop, that some list of states exists that is a pass over
the log (`FirstPass`: each event makes of one state the next, `Does`, and what an event
flagged in the first pass has been reported, `Answers`). In the first pass the list ends in the
checker's state; in the second it ends in the state that was handed over (`Ended`), and
one of its members is `Paired` with the checker's state: the same statement, the same
frames and the same code unreachable, and nowhere a watched place MOVED that was not MOVED
there too. Watched are the places of `start` and those that the second pass did not begin
with (`Watched`). The former are the ones `Hidden` silences; without the latter the
second pass would not be known to end with no more than it began with. The proof is
that every event keeps two such states paired (`PairedPush`, `PairedDrop` and `PairedRaise` for
the frames, one lemma per event), the second pass of an inner loop included, which is why the list has the passes of
the inner loops in it. It holds in a build only: under check_program a break leaves a
state in a first pass and none in a second.

With both, `BuildStep` also leaves loops after a second iteration ("deep"): what the
execution moved in it is in `next`, since the second pass ends in a state that `next`
covers, and `next` goes into `final_state` (`DeepCovered`).

`DeferDrop_proof` proves `KeepsPromise`: for every size, nesting and MAX_DEFER, if
`Risky` is empty or {"assign"}, `DeferDrop` implements `Scopes` under the mapping
of `Pending` and `Marks`. `DefersRunOnExit` says nothing of the generator's
state behind the mapping, so the invariant `IInv` adds it: the saved counts
ascend (`Saved`), an entry names a variable of an open block, and one below a
block's mark names a variable of the blocks around it (`Owned`), no name is
visible twice (`Distinct`, where "shadow" is excluded), only the outermost frame
is the function's (`Kinds`), and an execution that is out of sight goes on at
an open branch or loop (`Where`). `Owned` is what makes cutting the stack back
to a saved count keep every remaining entry meaningful, and `Owned` with
`Distinct` is why text emitted at a distant exit still denotes the variable it
was written for (`EmittedFacts`). The theorem does not say that every `defer` is
registered: one that meets a full stack (MAX_DEFER) is `Work` in `Scopes`.

The second part of `DeferDrop_proof` goes on from there to the memory of the execution,
for every size, nesting and MAX_DEFER:

- `TypeCorrect` and `DropsOnce`: unless names are redeclared ("shadow"), `TypeOK` and
  `NoDoubleDrop` are invariants, with the other constructs of `Risky` too.
- `DropsAll`: if `Risky = {}` and fewer than MAX_DEFER actions are pending at any
  time, `NothingLost` is an invariant. The last condition is a hypothesis on the
  behaviour, because the code forgets the next defer silently.

`NoDoubleDrop` speaks of a flag that is raised when it is too late, so the invariant
says what memory looks like before: `Store`, the C variables in memory are those of the
blocks that the execution is in, and a set drop flag says that its variable is the only
owner of a value that is alive (`Sane`); `Drops`, a name has one pending drop, deferred
in the block that declares it. An exit clears away the variables whose drops it ran,
which is why no flag survives its value. For `NothingLost` the invariant also says the
converse (`Tight`): every variable in scope has its drop on the stack (`AllPending`), and
every value that is alive has an owner with its flag set (`Alive`).

`Structs_proof` proves, for any types with any names, used in one another in any
way and declared in any order:

- `TypeCorrect`: `TypeOK` is an invariant.
- `OwnershipFound`: the marks are `Known`, the least set of types that can be marked
  that is closed under containing an owner, and `Owners` if nothing is `Overlooked`.
- `MovesAgree`: `CopiesNotDropped`, from `FixRefs` on.
- `TypesDefinedInOrder`: every type is emitted once and, if any order is possible,
  behind what it contains.
- `PartsDropped`: unless an `impl Drop` belongs to an enum or a tuple
  (`DropKinds`), the glue of a struct calls the glue of every owner in its fields,
  which exists and is defined above it, if both are known to be owners (or nothing
  is `Overlooked`).

`OwnersMarked` says nothing of the walk while it goes on. `DropInv` adds that the
marks are in every closed set (so in the least), and that what the walk has passed
without a change is `Settled`; a whole pass without a change then makes the
marks a closed set. For the sorting, `SortInv` says that the order is `Layered`
(whatever a type seems to depend on is before it), that what a round without a
change has passed is emitted or blocked, so that nothing but a cycle can be left
(`NothingBlocked`), and that every round with a change emitted at least one type.
The last part is why `max_iterations`, the square of the number of types, never
cuts the sorting short: by then there are as many emitted types as types
(`AllEmitted`, by counting).

`Containers_proof` proves, for any first capacity, any values and any number and length
of queues, stacks and vectors, and any factors vectors are multiplied by:

- `QueueWellFormed`: `Rings` is an invariant: head, tail and count describe one
  ring of the buffer, with nothing allocated when the capacity is 0.
- `QueueImplementsList`: `Queue` implements `Lists`. The item at position i is in
  slot `(head + i) % cap`; the lemmas say what that position is before and behind
  the wrap, that growth unrolls the ring into the first slots in order, and that a
  clone copies the slots. Cloning a full queue is guarded, see above.
- `StackImplementsList` and `VecImplementsList`: so do `Stack` and `Vec`. The invariants
  (`Stacks`, `Vecs`) say that a container's items fit into its buffer and that a stack
  without a buffer is empty. Each call has a lemma: what it leaves is sound and lists what
  the call makes of the sequence, whether or not the buffer was moved for it. An insert or a
  remove is put together of the slots in front and behind (`VecInserted`, `VecRemoved`),
  `v * n` is the fold of n appends, and `v *= n` finds the same items with a remainder
  (`OneMore`, `RepeatsAre`). `grow_to_fit` doubles until the items fit: `DoubledFits` says
  that the rounds the model allows are enough, with a least number for which it would fail.

`Maps_proof` proves, for any keys, values, hashes and capacities, whether or not
`Full` lets a table fill up:

- `AlwaysOrdered`: `Ordered` is an invariant.
- `IsFiniteMap`: a table implements the safety part of `FiniteMap` (`TableIsMap`).
- `IsZMap`: so does a zmap (`ZMapIsMap`).
- `CallsAdvance`: the part of `CallsReturn` that is not about time. A step of a call on a
  Map or Set ends it, goes on to a later phase, or passes one more slot of the table
  without coming back to the first. Without a free slot this is not so for `Map.put` and
  `Map.remove` (`Sure`), which is what the run map_put shows; all other calls count on
  their own test, or on the load factor.

`Ordered` says nothing of a call that is between two probes. `IInv` adds that every slot
is a free, a dead or a live one (`Table`, which has `Ordered` in it), that the values of a
set are its keys (`Own`), which call can be where (`Calls`, `Position`) and what a probe
knows (`Progress`): no slot it has passed is free or has the key. So a search that meets a
free slot, or its first one again, has missed nothing, and a key that is put where a
search ended is put once and can be reached. A place that is freed by a removal stays
dead, which is why nothing behind it is lost. A resize is a recursion over the
slots: that the function `fill` exists, and that after each slot it holds, in order, just
the live entries so far, is proved with the least index for which it fails. A live entry
always finds a free slot there, because the table it goes to is larger than what
the old one held (`len`).

That a call comes to its end needs room (`Room`): a table with fewer entries than slots has
one that is not live, which is enough for `Set.add`, and a larger table has a free one
(`GrowRoom`). A loop that is back where it began has passed every slot (`AllPassed`),
the one that would have ended it included.

For a zmap, `ZInv` says that the capacity is 0 or one of those on the way to `MaxCap`,
each of which divides the range of the hashes (`Sizes`), that the count is that of the
entries, that one bucket is empty, and that the table is sound (`Sound`): no key has two
entries, and before an entry that is not at home lies one that is at most one place nearer
its own (`Robin`). From `Robin` follows that all buckets from a key's home to its
entry hold entries at least as far from theirs (`NoneNearer`), so the search that gives up
early is right (`FoundIs`). An insertion is followed bucket by bucket (`Carrying`): the
table and what is carried make up the old table and the new entry, the table is sound
at every round, and what is carried fits into the next bucket; it ends at the empty bucket,
or at the key's entry, before which nothing was carried on (`InsertsNew`, `InsertsOld`).
A removal shifts the run behind it, which is sound because the run ends before an
entry that is at home or an empty bucket (`Shifted`, `ShiftDrops`). Growth is a loop of
insertions of new keys into a table with room for all of them (`HoldsNext`).

`LspServer_proof` proves, for any files, texts, sizes and block size:

- `LiveStaysLive`: `NothingDangles` is an invariant. The invariant `MemInv` adds
  that the arena is well formed and has a block, that what was allocated before the
  loop stays in the first one, and that during the second loop of a rebuild
  what is left to open is tracked.
- `TypesCorrect` and `GarbageStaysBounded`: `TypeOK` and `GarbageBounded` are
  invariants. A message either leaves less than the limit or is followed by a rebuild,
  which goes back to the mark behind what was allocated before the loop.
- `EditorIsServed` and `DiskIsServed`: if `Encoded = {}`, `ServesEditor` and
  `ClosedServesDisk` are invariants. `DocInv` says that the tracked documents and
  the diagnostics are the editor's at all times, and for every state of the scan
  and the rebuild which files are known already (`OpenServed`, `ClosedServed`): a
  file still in `todo` may be missing, any other is served.
- `ServesDocuments`: under the same assumption the server implements `Documents`. A
  scan, a rebuild and its loops are `Refresh` or stutter; the mapping shows the
  tracked text of an open document while a rebuild goes on, because no message is
  answered then.

`Sync_proof` proves, for any number of threads, calls and wakeups without a signal:

- `ClosureRunsOnce`: the closure of a Once never runs twice, in whatever order stores
  reach the memory.
- `OnceSound`: if `InOrder`, `OnceRunsOnce` is an invariant. (TLC finds it violated
  otherwise.)
- `BarrierSound` and `PermitsSound`: `BarrierRounds` and `PermitsConserved` are
  invariants.
- `NeverStuck`: until all workers are joined, one of them can go on (`SomebodyGoes`): its
  thread can be created or joined, it holds the mutex, or the mutex is free and it is awake
  and about to take it. The exception is a semaphore that is made with no permits.

`SyncInv` adds where the mutex is held. A Once goes through four stages (`Ran`): the
closure has not run (`Fresh`), one worker has run it (`Stored`) or also set `done`
(`Marked`) and everybody else's store buffer is empty, or all of it is in the memory
(`Settled`). A worker at a Barrier is in the round that is open or has yet to leave the
one before it (`Round`), its calls are the rounds it has left, and the count is how
many have yet to come to the open round (`InRounds`): that the one before is left
only after it was complete is what the generation counter is for. The permits are
counted with the workers that hold one (`Permits`). `NeverStuck` adds that whoever
is at a place of a critical section holds the mutex (`Owning`) and what makes a wakeup
reach the right worker (`Sleepers`): whoever sleeps at a barrier waits for the open
round, which somebody has still to come to, one that has calls left (`Counted`); and nobody
sleeps at a semaphore while it has more permits than workers that were woken, or have
come, to take one (`Coming`), so one signal for each post is enough.

`Imports_proof` proves, for any files with any names, any texts and any order:

- `TypeCorrect`: `FilesTypeOK` is an invariant.
- `ReadOnceAlways`, `DepthBoundedAlways`, `CyclesReportedAlways`,
  `PrefixesDistinctAlways`, `OwnTypeFoundAlways`, `ImportsBindAlways`,
  `ExportsBindAlways` and `HeaderAliasedAlways`: the properties of these names.

`currently_parsing` says which files are open and not in what order, so the
invariant ties it to the recursion: the marks are the files of `reading` above the
driver's, once each (`MarkInv`), a file is read when it gets its mark (`CountInv`),
and the item at which a file waits is the import of the file above it
(`PathInv`). A `Circular` import therefore closes a path. For the converse,
finished files import only finished ones, and every set of them has a file that
imports none of the set (`CycleInv`): a file that finishes extends this because
all it imports has finished before. The one exception is the input file, which
has no mark: an import reads it again, then with one. `AgainInv` says that this
second reading has the path that led to it still ahead, and `ComesRound` that it
must run into the error before it can end, so that a program that is compiled
read it once. Two readings of one file are also what the other properties have to
exclude: a type has the prefix of its file (`PrefixInv`, `TypesInv`), so does a
body (`BodiesInv`), and whatever is selected under the name of an unshadowed type
is that type (`SelectInv`).

For what an import means, the invariant says who registered a name. Behind every alias
stands an import that is written in a file that was read, and the alias leads to the
prefix of its file (`NamesInv`); behind every file that is being read but a root stands
the import that opened it, whose names are registered (`FramesInv`). When the file
declares its type, that import says whether it has a prefix, and later whether `*`
selects it (`GivenInv`). If all imports of a file are written alike, the import that
opened it is like the one a body relies on, whichever came first. That the import has
been executed at all is `DeclaresInv` and `SeenInv`, what a file has passed it has
declared and registered, with `CycleInv` and `LateInv`: when bodies are parsed nothing
but std is still being read, so what a body's file imports is finished.

Only model-checked: of MoveCheck, `UseAfterMoveRejected` under check_program, and what
the edge "deep" adds to `Covered` there (the second pass of an outer loop has fewer break
states than the first, so the two passes are not alike and the silenced place was
flagged at another statement, if at all); and, because liveness is out of reach of the
prover, `CallsReturn` and `ThreadsJoined`, of which `CallsAdvance` and `NeverStuck` prove the
part that is not about fairness; that a worker for which `CanGo` holds has a step to make is
read off the guards, ENABLED being out of reach as well. The sum of the blocks in
`GarbageBounded` is a fold over a set; what the proof needs of it is, like the resize of
a table, proved with the least number for which it fails, in place of an induction.

## Not modelled

- The lexer and the parser, typing rules, compile-time evaluation, and the code
  generation of expressions translate one tree into another; they keep no state
  that an order of steps could spoil, and a reference for them would be the
  language itself. They are most of the source.
- Generics: the instances that parsing registers are types of `Structs`; the
  rewriting of trees is not modelled, and whether it ends depends on the program.
- The driver but for its extra files, plugins and the REPL: files and processes
  around one pass.
- The allocator of `std/mem.zc`, used in MISRA mode only.
- Of the modelled components, what the sections above name.

Hazards without a property are those that the passing runs leave out by a
switch, because the code fails them (`Edges`, `Risky`, guarded calls) and no run is
spent on each, and those whose code is not modelled; each has a note in
`PROJECT.json`.

## Plan

1. `MoveCheck`, `Scopes`, `DeferDrop` and their proofs: done.
2. `Lists` with `Vec`, `Stack` and `Queue`, `FiniteMap` with `HashTable` and `ZMap`, `Sync`,
   and the proofs of the first three: done.
3. `Arena`, `Documents`, `LspServer` and their proofs: done.
4. `Structs` and its proofs: done.
5. `Imports` and its proofs: done.
6. The memory of `DeferDrop`, `Sync_proof`, the types and the garbage of `LspServer`, and
   the tables of std in `Maps_proof`: done.
7. The two passes of `MoveCheck`, and with them `UseAfterMoveRejected` in a build: done.
8. The zmap in `Maps_proof`: done.
9. `Ownership`: MoveCheck's verdict as the assumption under which DeferDrop's
   drop flags are right, and deferred statements in both.
