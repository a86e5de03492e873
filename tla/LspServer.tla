----------------------------- MODULE LspServer -----------------------------
(***************************************************************************)
(* The language server (src/lsp): a loop that takes one message of the      *)
(* editor after the other and answers from a project kept in the arena.     *)
(* What a read-only request allocates is given back when it is done; what   *)
(* the others replace stays in the arena as garbage until, after one of     *)
(* them, there is too much of it, and the whole project is built again from *)
(* the disk and from the tracked documents, which live outside the arena.   *)
(*                                                                         *)
(* The other programs of the machine write and delete files at any time,    *)
(* between two files of a scan too.                                        *)
(***************************************************************************)
EXTENDS Arena

CONSTANTS
    Path,       \* the .zc files of the workspace that are not ignored
    Text,       \* contents of a document
    NoText,     \* no such file, or a document that is not open
    NoRef,      \* NULL
    Size,       \* what parsing a text allocates
    Base,       \* what the compiler allocated before the loop
    Scratch,    \* what a read-only request may allocate
    MinGrowth,  \* LSP_REBUILD_MIN_GROWTH
    Trait,      \* the texts that declare a trait
    Encoded     \* the paths that the editor's URIs escape with %XX

Ref == [block : Nat, at : Nat, size : Nat]
Parsed == [block : Nat, at : Nat, size : Nat, text : Text]

ASSUME NoRefAssumption == NoRef \notin Ref \cup Parsed
ASSUME TextAssumption == NoText \notin Text /\ Trait \subseteq Text /\ Encoded \subseteq Path
ASSUME SizeAssumption == /\ Size \in [Text -> Nat \ {0}]
                         /\ Base \in Nat \ {0}
                         /\ Scratch \subseteq Nat \ {0}
                         /\ MinGrowth \in Nat

VARIABLES
    disk, editor,  \* see Documents
    arena,         \* g_arena
    project,       \* g_project, NoRef before the initialize request
    files,         \* g_project->files by URI: the last parse and the text it was made from
    traits,        \* registered_traits_local: the newest of a list whose others lie below it
    tracked,       \* g_tracked_documents
    indexed,       \* g_workspace_indexed
    built,         \* g_built_total
    diags,         \* the text whose diagnostics the editor shows
    pc,            \* where lsp_main is
    todo,          \* the files or documents the current loop has yet to visit
    stale          \* the files changed on disk since the server last read them (history)

server == <<arena, project, files, traits, tracked, indexed, built, diags>>
vars == <<disk, editor, server, pc, todo, stale>>

NewArena == Alloc(Empty, Base)
baseMark == Save(NewArena)
baseTotal == Base

MaybeText == Text \cup {NoText}

Typed == /\ disk \in [Path -> MaybeText] /\ editor \in [Path -> MaybeText]
         /\ IsArena(arena)
         /\ project \in Ref \cup {NoRef}
         /\ files \in [Path -> Parsed \cup {NoRef}]
         /\ traits \in Parsed \cup {NoRef}
         /\ tracked \in [Path -> MaybeText]
         /\ indexed \in BOOLEAN
         /\ diags \in [Path -> MaybeText]
         /\ pc \in {"read", "scan", "done", "rescan", "reopen", "exited"}
         /\ todo \subseteq Path
         /\ stale \subseteq Path

TypeOK == Typed /\ built \in Nat

Init == /\ disk \in [Path -> MaybeText]
        /\ editor = [p \in Path |-> NoText]
        /\ arena = NewArena
        /\ project = NoRef
        /\ files = [p \in Path |-> NoRef]
        /\ traits = NoRef
        /\ tracked = [p \in Path |-> NoText]
        /\ indexed = FALSE
        /\ built = 0
        /\ diags = [p \in Path |-> NoText]
        /\ pc = "read"
        /\ todo = {}
        /\ stale = {}

----------------------------------------------------------------------------
(* The project. *)

\* lsp_project_init in the arena a, for a project that does not exist
InitProject(a) == /\ project' = Allocated(a, 1)
                  /\ arena' = Alloc(a, 1)

Parse(t) == LET r == Allocated(arena, Size[t])
            IN  [block |-> r.block, at |-> r.at, size |-> r.size, text |-> t]

UpdateFile(p, t) ==
    /\ arena' = Alloc(arena, Size[t])
    /\ files' = [files EXCEPT ![p] = Parse(t)]
    /\ traits' = IF t \in Trait THEN Parse(t) ELSE traits

TrackFirst(p, t) == tracked' = IF tracked[p] = NoText THEN [tracked EXCEPT ![p] = t] ELSE tracked

TrackDocument(p, t) == tracked' = [tracked EXCEPT ![p] = t]

UntrackNothing(p) == UNCHANGED tracked

\* didClose passes on the URI as the editor wrote it; documents are tracked, and
\* files known, by the decoded one.
UntrackDocument(p) == tracked' = IF p \in Encoded THEN tracked
                                 ELSE [tracked EXCEPT ![p] = NoText]

----------------------------------------------------------------------------
(* The messages of the editor: initialize and initialized come first. *)

Reads == pc = "read" /\ project # NoRef

Initialize ==
    /\ pc = "read" /\ project = NoRef
    /\ InitProject(arena)
    /\ pc' = "done"
    /\ UNCHANGED <<disk, editor, files, traits, tracked, indexed, built, diags, todo, stale>>

Initialized ==
    /\ Reads /\ ~indexed
    /\ pc' = "scan" /\ todo' = Path
    /\ UNCHANGED <<disk, editor, server, stale>>

\* didOpen and didChange, with one whole text: of several contentChanges the code takes the
\* first.
DidEdit(p, t) ==
    /\ Reads
    /\ editor' = [editor EXCEPT ![p] = t]
    /\ UpdateFile(p, t)
    /\ diags' = [diags EXCEPT ![p] = t]
    /\ TrackDocument(p, t)
    /\ pc' = "done"
    /\ UNCHANGED <<disk, project, indexed, built, todo, stale>>

DidClose(p) ==
    /\ Reads /\ editor[p] # NoText
    /\ editor' = [editor EXCEPT ![p] = NoText]
    /\ UntrackDocument(p)
    /\ IF p \notin Encoded /\ files[p] # NoRef /\ disk[p] # NoText THEN UpdateFile(p, disk[p]) /\ stale' = stale \ {p}
       ELSE UNCHANGED <<arena, files, traits, stale>>
    /\ diags' = IF p \in Encoded THEN diags ELSE [diags EXCEPT ![p] = NoText]
    /\ pc' = "done"
    /\ UNCHANGED <<disk, project, indexed, built, todo>>

\* An answer changes nothing but the arena: what it looks up stays, and what it caches on
\* the way (the headers of C) is not in the arena.
Answered(n) == Alloc(arena, n)

\* Any other message, a malformed one included: n units of scratch memory, rewound.
ReadOnly(n) ==
    /\ pc = "read"
    /\ arena' = Restore(Answered(n), Save(arena))
    /\ traits' = NoRef
    /\ UNCHANGED <<disk, editor, project, files, tracked, indexed, built, diags, pc, todo, stale>>

\* exit, the end of the input, or a message of an impossible length
Exit == pc = "read" /\ pc' = "exited" /\ UNCHANGED <<disk, editor, server, todo, stale>>

----------------------------------------------------------------------------
(* Indexing, for the initialized message ("scan") or a rebuild ("rescan"). *)

ScanFileAlways(p) ==
    /\ pc \in {"scan", "rescan"} /\ p \in todo
    /\ todo' = todo \ {p} /\ stale' = stale \ {p}
    /\ IF disk[p] # NoText THEN UpdateFile(p, disk[p]) ELSE UNCHANGED <<arena, files, traits>>
    /\ UNCHANGED <<disk, editor, project, tracked, indexed, built, diags, pc>>

ScanFile(p) ==
    /\ pc \in {"scan", "rescan"} /\ p \in todo
    /\ todo' = todo \ {p}
    /\ IF files[p] = NoRef /\ disk[p] # NoText THEN UpdateFile(p, disk[p])
       ELSE UNCHANGED <<arena, files, traits>>
    /\ stale' = IF files[p] = NoRef THEN stale \ {p} ELSE stale
    /\ UNCHANGED <<disk, editor, project, tracked, indexed, built, diags, pc>>

Documents == {p \in Path : tracked[p] # NoText}

ScanEnds ==
    /\ pc \in {"scan", "rescan"} /\ todo = {}
    /\ indexed' = TRUE
    /\ built' = Total(arena)
    /\ IF pc = "scan" THEN pc' = "done" /\ UNCHANGED todo
       ELSE pc' = "reopen" /\ todo' = Documents
    /\ UNCHANGED <<disk, editor, arena, project, files, traits, tracked, diags, stale>>

----------------------------------------------------------------------------
(* What lsp_main does after a message that was not read-only. *)

Larger(m, n) == IF m > n THEN m ELSE n

builtTotal == Larger(built, baseTotal)
limit == Larger(builtTotal - baseTotal, MinGrowth)
TooMuchGarbage == Total(arena) > builtTotal + limit

Keep == /\ pc = "done" /\ ~TooMuchGarbage
        /\ pc' = "read"
        /\ UNCHANGED <<disk, editor, server, todo, stale>>

RebuildKeepsTraits ==
    /\ pc = "done" /\ TooMuchGarbage
    /\ InitProject(Restore(arena, baseMark))
    /\ files' = [p \in Path |-> NoRef]
    /\ IF indexed THEN pc' = "rescan" /\ todo' = Path
       ELSE pc' = "reopen" /\ todo' = Documents
    /\ UNCHANGED <<disk, editor, traits, tracked, indexed, built, diags, stale>>

Rebuild ==
    /\ pc = "done" /\ TooMuchGarbage
    /\ InitProject(Restore(arena, baseMark))
    /\ files' = [p \in Path |-> NoRef]
    /\ traits' = NoRef
    /\ IF indexed THEN pc' = "rescan" /\ todo' = Path
       ELSE pc' = "reopen" /\ todo' = Documents
    /\ UNCHANGED <<disk, editor, tracked, indexed, built, diags, stale>>

Reopen(p) ==
    /\ pc = "reopen" /\ p \in todo
    /\ UpdateFile(p, tracked[p])
    /\ todo' = todo \ {p}
    /\ UNCHANGED <<disk, editor, project, tracked, indexed, built, diags, pc, stale>>

RebuildEndsKeepsBuilt ==
    /\ pc = "reopen" /\ todo = {}
    /\ pc' = "read"
    /\ UNCHANGED <<disk, editor, server, todo, stale>>

RebuildEnds ==
    /\ pc = "reopen" /\ todo = {}
    /\ built' = Total(arena)
    /\ pc' = "read"
    /\ UNCHANGED <<disk, editor, arena, project, files, traits, tracked, indexed, diags, todo, stale>>

----------------------------------------------------------------------------
Store(p, t) == /\ disk' = [disk EXCEPT ![p] = t] /\ stale' = stale \cup {p}
               /\ UNCHANGED <<editor, server, pc, todo>>

Server == \/ Initialize \/ Initialized \/ Exit
          \/ \E p \in Path : DidClose(p) \/ ScanFile(p) \/ Reopen(p)
          \/ \E p \in Path, t \in Text : DidEdit(p, t)
          \/ \E n \in Scratch : ReadOnly(n)
          \/ ScanEnds \/ Keep \/ Rebuild \/ RebuildEnds

Next == Server \/ \E p \in Path, t \in MaybeText : Store(p, t)

Spec == Init /\ [][Next]_vars

----------------------------------------------------------------------------
Served(p) == IF files[p] = NoRef THEN NoText ELSE files[p].text

\* While no project is being rebuilt, an open document is known to the server with the
\* text the editor last sent, and it is that text whose diagnostics the editor shows; a
\* closed document shows none.  It has to survive the rebuild, which reads the disk first.
ServesEditor ==
    pc \notin {"rescan", "reopen"} =>
        \A p \in Path : /\ editor[p] # NoText => Served(p) = editor[p]
                       /\ diags[p] = editor[p]

\* A file that is not open is known with what is on disk, unless the disk changed since
\* the server last read it: no unsaved text outlives its document, and neither the scan,
\* which skips the files it knows, nor a rebuild leaves a file out.
ClosedServesDisk ==
    (pc \in {"read", "done"} /\ indexed) =>
        \A p \in Path : (editor[p] = NoText /\ p \notin stale /\ disk[p] # NoText)
                            => Served(p) = disk[p]

\* What the server still points to: the project, the parses of its files, the traits.
Retained == ({project} \cup {files[p] : p \in Path} \cup {traits}) \ {NoRef}

\* Rewinding the arena never gives back memory that is still pointed to, and nothing is
\* allocated on top of it: neither after a read-only request nor by a rebuild.
NothingDangles ==
    /\ \A r \in Retained : Live(arena, r)
    /\ \A p \in Path, r \in Retained :
          (files[p] # NoRef /\ r # files[p]) => Apart(files[p], r)

\* Between two messages the arena holds at most as much garbage as lsp_main lets the
\* project collect, however long the editing goes on.
GarbageBounded == pc = "read" => ~TooMuchGarbage

\* The server keeps the promises of Documents; what the editor sees of a rebuild is that
\* files which are not open are read again.
Docs == INSTANCE Documents WITH
    view <- [p \in Path |-> IF pc \in {"rescan", "reopen"} /\ tracked[p] # NoText
                            THEN tracked[p] ELSE Served(p)]

DocumentsServed == Docs!Spec
=============================================================================
