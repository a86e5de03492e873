----------------------------- MODULE MoveCheck -----------------------------
(***************************************************************************)
(* The flow-sensitive move checker of the Zen C compiler                   *)
(* (src/analysis/move_check.c, the control flow cases of typecheck.c and   *)
(* check_loop_passes in typecheck_stmt.c), run in lock step with one       *)
(* execution of the program it checks.                                     *)
(*                                                                         *)
(* The program is any sequence of AST events (a use, a move, the start of  *)
(* an `if`, ...): each action is what check_node does at one of them, and   *)
(* `stack` holds the C activation records of the nested check_node calls.  *)
(* The body of a loop is checked twice, so the events since the outermost  *)
(* loop began are kept in `log` and the second pass reads them again.      *)
(*                                                                         *)
(* A MoveState is a list of (path, status) entries.  Only the statuses     *)
(* VALID and MOVED are ever written, a missing entry reads as VALID, and   *)
(* the parent of every state is NULL, so a state is the set of its MOVED   *)
(* paths.                                                                  *)
(***************************************************************************)
EXTENDS Naturals, Sequences, FiniteSets

CONSTANTS
    Path,     \* the owning places the program names: x, x.f, ...
    Owner,    \* Owner[p]: p and the places p is a part of (x and x.f for x.f)
    Edges,    \* the edges in EdgeName that the followed execution may take
    Syntax,   \* the events in EventName that the program may have (a bound)
    MaxSize,  \* events of the program (a bound)
    MaxNest   \* nesting of its statements (a bound)

(* The kinds of AST event; "outer" lets break and continue name an outer loop. *)
EventName == {"use", "move", "assign", "if", "else", "endif", "match", "case", "endmatch",
              "loop", "while", "do", "break", "continue", "outer", "endloop",
              "return", "goto", "label", "fn", "test"}

(* The control-flow edges on which check_loop_passes, NODE_BREAK, NODE_GOTO *)
(* and NODE_TEST hand no state over: leaving a loop without running it,     *)
(* leaving it after the condition moved a value, or after its body ran      *)
(* twice; a break whose state is dropped; a break or continue to an outer   *)
(* loop; a goto; and starting a test in a state left unreachable.           *)
EdgeName == {"zero", "cond", "deep", "break", "label", "goto", "test"}

ASSUME PathAssumption == /\ Owner \in [Path -> SUBSET Path]
                         /\ \A p \in Path : p \in Owner[p]
ASSUME EdgeAssumption == Edges \subseteq EdgeName
ASSUME BoundAssumption == Syntax \subseteq EventName /\ MaxSize \in Nat /\ MaxNest \in Nat

VARIABLES
    moved,        \* ctx->move_state
    unreachable,  \* tc->is_unreachable
    stack,        \* activation records of check_node on the nested statements
    movesOnly,    \* entered by check_moves_only (a build), not check_program
    unit,         \* the kind of top-level item being checked
    between,      \* tc->is_unreachable as the previous top-level item left it
    reported,     \* "Use of moved value" has been reported
    swallowed,    \* a report was suppressed by in_loop_pass2
    log, pc, size,  \* the events of the outermost open loop, and the next one
    held,         \* the places the execution has moved out of
    loc,          \* where the execution is, relative to the checker
    usedMoved     \* the execution has used a value it had moved away

checker == <<moved, unreachable, stack, movesOnly, unit, between, reported, swallowed>>
program == <<log, pc, size>>
run     == <<held, loc, usedMoved>>
vars    == <<checker, program, run>>

-----------------------------------------------------------------------------
(* Move states and frames *)

\* A MoveState pointer: NULL, or a state.
NoState == [some |-> FALSE, moved |-> {}]
Clone(s) == [some |-> TRUE, moved |-> s]
State == {NoState} \cup {Clone(s) : s \in SUBSET Path}
Current == Clone(moved)
Reachable == IF unreachable THEN NoState ELSE Current

\* Mutants of move_state_merge_into: a NULL target is merged into without a clone; the
\* entries of a target that exists already are left as they are.
MergeIntoNoClone(target, src) ==
    [some |-> target.some, moved |-> target.moved \cup src.moved]
MergeIntoFirstOnly(target, src) == IF target.some THEN target ELSE src

\* move_state_merge_into: NULL takes a clone, a state takes over MOVED entries only.
MergeInto(target, src) ==
    IF src.some THEN Clone(target.moved \cup src.moved) ELSE target

\* move_state_merge: marks MOVED what either branch moved, and never marks VALID.
Merge(target, a, b) == target \cup a.moved \cup b.moved

(* One record serves the NODE_IF, NODE_MATCH and loop cases:                *)
(*   init     initial_state (of a loop: once the body no longer shares it)  *)
(*   unreach  is_unreachable on entry                                       *)
(*   out      after_then / merged_state / loop_break_state                  *)
(*   cont     loop_continue_state;  next  next_iter_state                   *)
(*   start    loop_start_state;     pass  0 unless a loop                   *)
(*   open     the match has no default, or the loop has a condition         *)
(*   broken   a `break` of pass 1 leaves this loop                          *)
FrameKind == {"then", "else", "match", "case", "cond", "body"}
Frame == [kind : FrameKind, init : State, unreach : BOOLEAN, out : State,
          cont : State, next : State, start : SUBSET Path, pass : 0..2,
          open : BOOLEAN, broken : BOOLEAN, from : Nat \ {0}]

NewFrame(kind, init, pass, open, from) ==
    [kind |-> kind, init |-> init, unreach |-> unreachable, out |-> NoState,
     cont |-> NoState, next |-> NoState, start |-> moved, pass |-> pass,
     open |-> open, broken |-> FALSE, from |-> from]

Depth == Len(stack)
Top == stack[Depth]
Push(f) == Depth < MaxNest /\ stack' = Append(stack, f)
Below == SubSeq(stack, 1, Depth - 1)
SetTop(f) == [stack EXCEPT ![Depth] = f]
TopIs(kinds) == Depth > 0 /\ Top.kind \in kinds

InExpression == ~TopIs({"match"})
InStatement == ~TopIs({"match", "cond"})
InLoop == \E i \in 1..Depth : stack[i].pass > 0
Innermost(i) == /\ i \in 1..Depth
                /\ stack[i].pass > 0
                /\ \A j \in i+1..Depth : stack[j].pass = 0

\* Mutant: only a second pass makes NODE_BREAK leave no state.
MoveChecksOnlyInPass2 == \E i \in 1..Depth : stack[i].pass = 2

\* tc->move_checks_only: the second pass of any open loop sets it too.
MoveChecksOnly == movesOnly \/ \E i \in 1..Depth : stack[i].pass = 2

\* A statement replaced ctx->move_state by a new object: the loop around it keeps
\* the old object, whose value is v, as its initial_state.
Unshare(s, v) ==
    IF Len(s) > 0 /\ s[Len(s)].pass = 1 /\ ~s[Len(s)].init.some
    THEN [s EXCEPT ![Len(s)].init = v]
    ELSE s

-----------------------------------------------------------------------------
(* The events of the program *)

Event == ({"use", "move", "assign"} \X Path)
         \cup ({"break", "continue"} \X Nat)
         \cup ({"match"} \X BOOLEAN)
         \cup {<<e>> : e \in {"if", "else", "endif", "case", "endmatch", "loop", "while",
                              "do", "endloop", "return", "goto", "label", "fn", "test"}}

\* The event is the next one: of the log in a second pass, else a new one.
Read(event) == IF pc <= Len(log) THEN log[pc] = event /\ size' = size
                                 ELSE /\ event[1] \in Syntax /\ size < MaxSize
                                      /\ size' = size + 1
Logged(event) == IF InLoop /\ pc > Len(log) THEN Append(log, event) ELSE log

Step(event) == /\ Read(event)
               /\ log' = Logged(event)
               /\ pc' = IF InLoop THEN pc + 1 ELSE pc

-----------------------------------------------------------------------------
(* The execution.  It is running the statement the checker is at, is out of  *)
(* the checker's sight, or waits for the checker to come to where it is: at  *)
(* the frame `at`, before the branch it takes ("wait"), after it ("out"), at *)
(* the next iteration ("cont") or behind the loop ("exit").                  *)

Slot == {"run", "wait", "out", "cont", "exit", "goto", "off"}
Running == loc.slot = "run"
At(slot, i) == [slot |-> slot, at |-> i]
Run == At("run", 0)
Off == At("off", 0)
Along(needed, l) == IF needed \subseteq Edges THEN l ELSE Off
Resumed == IF loc.at = Depth /\ Depth > 0 THEN Run ELSE loc

UsesMoved(p) == Running /\ Owner[p] \cap held # {}

-----------------------------------------------------------------------------
Init == /\ moved = {}
        /\ unreachable = FALSE
        /\ stack = <<>>
        /\ movesOnly \in BOOLEAN
        /\ unit = "fn"
        /\ between = FALSE
        /\ reported = FALSE
        /\ swallowed = FALSE
        /\ log = <<>>
        /\ pc = 1
        /\ size = 0
        /\ held = {}
        /\ loc = Run
        /\ usedMoved = FALSE

\* Mutant: the second pass reports nothing.
HiddenAlways(q) == \E i \in 1..Depth : Innermost(i) /\ stack[i].pass = 2

\* check_path_validity on p and on every place p is part of: the second pass of the
\* innermost loop is silent about what was moved when the loop began.
Hidden(q) == \E i \in 1..Depth : Innermost(i) /\ stack[i].pass = 2 /\ q \in stack[i].start
CheckUse(p) ==
    LET flagged == Owner[p] \cap moved IN
    /\ reported' = (reported \/ \E q \in flagged : ~Hidden(q))
    /\ swallowed' = (swallowed \/ \E q \in flagged : Hidden(q))
    /\ usedMoved' = (usedMoved \/ UsesMoved(p))

\* A read of p: check_expr_var, NODE_EXPR_MEMBER, a capture by reference.
Use(p) ==
    /\ InExpression
    /\ Step(<<"use", p>>)
    /\ CheckUse(p)
    /\ UNCHANGED <<moved, unreachable, stack, movesOnly, unit, between, held, loc>>

\* p as an argument, an initializer, a struct field, the right side of an assignment or a
\* capture by value: check_node, then check_move_for_rvalue.
Move(p) ==
    /\ InExpression
    /\ Step(<<"move", p>>)
    /\ CheckUse(p)
    /\ moved' = moved \cup {p}
    /\ held' = IF Running THEN held \cup {p} ELSE held
    /\ loc' = IF Running /\ TopIs({"cond"}) /\ Top.pass = 2 THEN Along({"cond"}, loc) ELSE loc
    /\ UNCHANGED <<unreachable, stack, movesOnly, unit, between>>

\* p = <a new value>: only a variable on the left is marked VALID, and only its own path.
Assign(p) ==
    /\ InExpression
    /\ Step(<<"assign", p>>)
    /\ moved' = IF Owner[p] = {p} THEN moved \ {p} ELSE moved
    /\ held' = IF Running THEN {q \in held : p \notin Owner[q]} ELSE held
    /\ UNCHANGED <<unreachable, stack, movesOnly, unit, between, reported, swallowed,
                   loc, usedMoved>>

-----------------------------------------------------------------------------
(* NODE_IF: each branch works on a clone of the initial state. *)

If ==
    /\ InStatement
    /\ Step(<<"if">>)
    /\ Push(NewFrame("then", Current, 0, FALSE, 1))
    /\ loc' \in IF Running THEN {Run, At("wait", Depth + 1)} ELSE {loc}
    /\ UNCHANGED <<moved, unreachable, movesOnly, unit, between, reported, swallowed,
                   held, usedMoved>>

Else ==
    /\ TopIs({"then"})
    /\ Step(<<"else">>)
    /\ stack' = SetTop([Top EXCEPT !.kind = "else", !.out = Reachable])
    /\ moved' = Top.init.moved
    /\ unreachable' = Top.unreach
    /\ loc' = IF Running THEN At("out", Depth)
              ELSE IF loc = At("wait", Depth) THEN Run ELSE loc
    /\ UNCHANGED <<movesOnly, unit, between, reported, swallowed, held, usedMoved>>

\* after_then and after_else: NULL for a branch that cannot be left.
AfterThen == IF Top.kind = "then" THEN Reachable ELSE Top.out
AfterElse == IF Top.kind = "else" THEN Reachable
             ELSE IF Top.unreach THEN NoState ELSE Top.init

EndIf ==
    /\ TopIs({"then", "else"})
    /\ Step(<<"endif">>)
    /\ moved' = Merge(Top.init.moved, AfterThen, AfterElse)
    /\ unreachable' = (~AfterThen.some /\ ~AfterElse.some)
    /\ stack' = Below
    /\ loc' = Resumed
    /\ UNCHANGED <<movesOnly, unit, between, reported, swallowed, held, usedMoved>>

-----------------------------------------------------------------------------
(* NODE_MATCH: the cases that can be left are merged, in order. *)

\* merged_state when the case in progress, if any, ends here.
Merged == IF Top.kind = "case" THEN MergeInto(Top.out, Reachable) ELSE Top.out

Match(noDefault) ==
    /\ InStatement
    /\ Step(<<"match", noDefault>>)
    /\ Push(NewFrame("match", Current, 0, noDefault, 1))
    /\ loc' = IF Running THEN At("wait", Depth + 1) ELSE loc
    /\ UNCHANGED <<moved, unreachable, movesOnly, unit, between, reported, swallowed,
                   held, usedMoved>>

Case ==
    /\ TopIs({"match", "case"})
    /\ Step(<<"case">>)
    /\ stack' = SetTop([Top EXCEPT !.kind = "case", !.out = Merged])
    /\ moved' = Top.init.moved
    /\ unreachable' = Top.unreach
    /\ loc' \in IF Running THEN {At("out", Depth)}
                ELSE IF loc = At("wait", Depth) THEN {Run, loc} ELSE {loc}
    /\ UNCHANGED <<movesOnly, unit, between, reported, swallowed, held, usedMoved>>

EndMatch ==
    /\ TopIs({"case"})
    /\ Step(<<"endmatch">>)
    /\ LET merged == IF Top.open THEN MergeInto(Merged, Top.init) ELSE Merged
       IN /\ moved' = IF merged.some THEN merged.moved ELSE Top.init.moved
          /\ unreachable' = ~merged.some
          /\ stack' = IF merged.some THEN Unshare(Below, Top.init) ELSE Below
    /\ loc' = IF loc = At("wait", Depth) /\ ~Top.open THEN Off ELSE Resumed
    /\ UNCHANGED <<movesOnly, unit, between, reported, swallowed, held, usedMoved>>

-----------------------------------------------------------------------------
(* check_loop_passes.  `loop` has no condition; `while`, `for` and `for in`  *)
(* evaluate one between While and Do.                                        *)

EnterLoop(event, kind) ==
    /\ InStatement
    /\ Step(<<event>>)
    /\ Push(NewFrame(kind, NoState, 1, event = "while", pc'))
    /\ unreachable' = FALSE
    /\ UNCHANGED <<moved, movesOnly, unit, between, reported, swallowed, run>>

Loop == EnterLoop("loop", "body")
While == EnterLoop("while", "cond")

\* The condition has been evaluated: the body follows, or the loop is left.
Do ==
    /\ TopIs({"cond"})
    /\ Step(<<"do">>)
    /\ stack' = SetTop([Top EXCEPT !.kind = "body"])
    /\ loc' \in IF ~Running THEN {loc}
                ELSE {Run, IF Top.pass = 1 THEN Along({"zero"}, At("exit", Depth))
                                           ELSE At("exit", Depth)}
    /\ UNCHANGED <<moved, unreachable, movesOnly, unit, between, reported, swallowed,
                   held, usedMoved>>

\* A break merges into the innermost loop's state whatever loop it names, and is a no-op
\* under move_checks_only.
BrokenFrame(j, innermost, target) ==
    [stack[j] EXCEPT
      !.out = IF j = innermost /\ ~MoveChecksOnly THEN MergeInto(@, Current) ELSE @,
      !.broken = @ \/ j = target]

Break(target) ==
    /\ InStatement
    /\ target \in 1..Depth /\ stack[target].pass > 0 /\ ("outer" \in Syntax \/ Innermost(target))
    /\ Step(<<"break", target>>)
    /\ \E i \in 1..Depth :
        /\ Innermost(i)
        /\ stack' = [j \in 1..Depth |-> BrokenFrame(j, i, target)]
        /\ loc' = IF ~Running THEN loc
                  ELSE Along((IF i # target THEN {"label"} ELSE {})
                               \cup (IF MoveChecksOnly THEN {"break"} ELSE {}),
                             At("out", target))
    /\ unreachable' = TRUE
    /\ UNCHANGED <<moved, movesOnly, unit, between, reported, swallowed, held, usedMoved>>

Continue(target) ==
    /\ InStatement
    /\ target \in 1..Depth /\ stack[target].pass > 0 /\ ("outer" \in Syntax \/ Innermost(target))
    /\ Step(<<"continue", target>>)
    /\ \E i \in 1..Depth :
        /\ Innermost(i)
        /\ stack' = [stack EXCEPT ![i].cont = MergeInto(@, Current)]
        /\ loc' = IF ~Running THEN loc
                  ELSE Along(IF i # target THEN {"label"} ELSE {}, At("cont", target))
    /\ unreachable' = TRUE
    /\ UNCHANGED <<moved, movesOnly, unit, between, reported, swallowed, held, usedMoved>>

\* The end of the first pass: a second one follows when the body can be run again.
NextIter == MergeInto(Reachable, Top.cont)
InitialAtEnd == IF Top.init.some THEN Top.init ELSE Current

SecondPass ==
    /\ TopIs({"body"}) /\ Top.pass = 1 /\ NextIter.some
    /\ Read(<<"endloop">>)
    /\ log' = Logged(<<"endloop">>)
    /\ pc' = Top.from
    /\ stack' = SetTop([Top EXCEPT !.kind = IF Top.open THEN "cond" ELSE "body",
                                   !.pass = 2, !.next = NextIter, !.init = InitialAtEnd,
                                   !.out = NoState, !.cont = NoState])
    /\ moved' = NextIter.moved
    /\ unreachable' = FALSE
    /\ loc' = IF loc = At("cont", Depth) THEN Run
              ELSE IF loc = At("out", Depth) THEN Along({"break"}, loc) ELSE loc
    /\ UNCHANGED <<movesOnly, unit, between, reported, swallowed, held, usedMoved>>

\* final_state: the state of the next iteration (not for `loop`) and that of the breaks.
FinalState == MergeInto(IF Top.open THEN Top.next ELSE NoState, Top.out)

EndLoop ==
    /\ TopIs({"body"}) /\ (Top.pass = 2 \/ ~NextIter.some)
    /\ Read(<<"endloop">>)
    /\ LET nested == \E i \in 1..Depth-1 : stack[i].pass > 0
       IN /\ log' = IF nested THEN Logged(<<"endloop">>) ELSE <<>>
          /\ pc' = IF nested THEN pc + 1 ELSE 1
    /\ LET final == FinalState
       IN /\ moved' = IF final.some THEN final.moved ELSE InitialAtEnd.moved
          /\ unreachable' = (~final.some /\ (Top.open => Top.unreach))
          /\ stack' = IF final.some THEN Unshare(Below, InitialAtEnd) ELSE Below
    /\ loc' \in IF Running \/ loc = At("cont", Depth)
                THEN {Off, IF Top.open THEN Along({"deep"}, Run) ELSE Off}
                ELSE {Resumed}
    /\ UNCHANGED <<movesOnly, unit, between, reported, swallowed, held, usedMoved>>

-----------------------------------------------------------------------------
(* Jumps out of the statement, and top-level items *)

Return ==
    /\ InStatement
    /\ Step(<<"return">>)
    /\ unreachable' = TRUE
    /\ loc' = IF Running THEN Off ELSE loc
    /\ UNCHANGED <<moved, stack, movesOnly, unit, between, reported, swallowed, held, usedMoved>>

Goto ==
    /\ InStatement
    /\ Step(<<"goto">>)
    /\ unreachable' = TRUE
    /\ loc' = IF Running THEN Along({"goto"}, At("goto", 0)) ELSE loc
    /\ UNCHANGED <<moved, stack, movesOnly, unit, between, reported, swallowed, held, usedMoved>>

\* NODE_LABEL leaves is_unreachable as it is.
Label ==
    /\ InStatement
    /\ Step(<<"label">>)
    /\ loc' = IF loc.slot = "goto" THEN Run ELSE loc
    /\ UNCHANGED <<checker, held, usedMoved>>

\* check_function starts reachable and restores is_unreachable; NODE_TEST does neither.
NextUnit(kind) ==
    /\ Depth = 0
    /\ Step(<<kind>>)
    /\ unit' = kind
    /\ between' = IF unit = "test" THEN unreachable ELSE between
    /\ unreachable' = (kind = "test" /\ between')
    /\ moved' = {}
    /\ held' = {}
    /\ loc' = IF unreachable' THEN Along({"test"}, Run) ELSE Run
    /\ UNCHANGED <<stack, movesOnly, reported, swallowed, usedMoved>>

Function == NextUnit("fn")
Test == NextUnit("test")

Next ==
    \/ \E p \in Path : Use(p) \/ Move(p) \/ Assign(p)
    \/ If \/ Else \/ EndIf
    \/ (\E d \in BOOLEAN : Match(d)) \/ Case \/ EndMatch
    \/ Loop \/ While \/ Do \/ SecondPass \/ EndLoop
    \/ \E t \in 1..MaxNest : Break(t) \/ Continue(t)
    \/ Return \/ Goto \/ Label \/ Function \/ Test

Spec == Init /\ [][Next]_vars

-----------------------------------------------------------------------------
(* Properties *)

\* Every variable has its type, and the frames are what check_node leaves on the C stack.
TypeOK ==
    /\ moved \subseteq Path /\ held \subseteq Path
    /\ unreachable \in BOOLEAN /\ movesOnly \in BOOLEAN /\ between \in BOOLEAN
    /\ reported \in BOOLEAN /\ swallowed \in BOOLEAN /\ usedMoved \in BOOLEAN
    /\ stack \in Seq(Frame)
    /\ unit \in {"fn", "test"}
    /\ log \in Seq(Event) /\ pc \in Nat \ {0} /\ size \in Nat
    /\ loc \in [slot : Slot, at : Nat]

\* Whatever the execution has moved away is MOVED in the state that the checker will have
\* where the execution goes on, and that place is not taken for unreachable code.
CoveredBy(s) == s.some /\ held \subseteq s.moved
Covered ==
    /\ loc.slot = "run"  => CoveredBy(Reachable)
    /\ loc.slot = "wait" => CoveredBy(stack[loc.at].init) /\ ~stack[loc.at].unreach
    /\ loc.slot = "out"  => CoveredBy(stack[loc.at].out)
    /\ loc.slot = "cont" => CoveredBy(stack[loc.at].cont)
    /\ loc.slot = "exit" => CoveredBy(stack[loc.at].next)

\* A program that uses a moved value on some execution is rejected: check_use_validity has
\* reported the use by the time the execution makes it.
UseAfterMoveRejected == usedMoved => reported

\* In a build, in_loop_pass2 only silences duplicates: what it suppresses was reported before.
\* (check_program drops the breaks of inner loops in a second pass, and so may flag there, and
\* suppress, what the first one found VALID.)
SwallowedWasReported == movesOnly /\ swallowed => reported

\* Two passes over a loop body are enough in a build: a third would start from a state that
\* the second one already covers (check_loop_passes runs no fixpoint iteration).
TwoPassesSuffice ==
    [][EndLoop /\ movesOnly /\ Top.pass = 2 => NextIter.moved \subseteq Top.next.moved]_vars

\* "Valid + Valid -> Valid": a place that both branches of an `if` leave valid is valid after
\* it (the contract of move_state_merge in move_check.h).
ValidInBothIsValid ==
    [][EndIf /\ AfterThen.some /\ AfterElse.some
         => moved' \subseteq AfterThen.moved \cup AfterElse.moved]_vars

\* "If the loop is an infinite loop and has no breaks, it is unconditionally unreachable
\* after": only such a `loop` makes the code behind it unreachable.
UnreachableOnlyWithoutBreak ==
    [][EndLoop /\ ~Top.open /\ ~Top.unreach /\ unreachable' => ~Top.broken]_vars
=============================================================================
