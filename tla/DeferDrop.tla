----------------------------- MODULE DeferDrop -----------------------------
(***************************************************************************)
(* The code that zc generates for `defer` and for dropping owned values     *)
(* (codegen_stmt.c, codegen_stmt_handlers.c), run in lock step with one     *)
(* execution of the generated C function.                                  *)
(*                                                                         *)
(* Each action is what codegen_node_single emits for one AST event, and     *)
(* what the execution does in that text when it is there.  The text of a    *)
(* deferred statement is emitted again at every place that leaves its       *)
(* block, so it is C's scoping there that decides what its names denote.    *)
(* A loop body is walked again, from `log`, for every further iteration.    *)
(*                                                                         *)
(* The followed execution takes no goto and no early exit inside a deferred *)
(* statement (the parser forbids the latter), and uses no value after       *)
(* moving it (what module MoveCheck is about).                             *)
(***************************************************************************)
EXTENDS Naturals, Sequences, FiniteSets, TLC

CONSTANTS
    Name,      \* names of local variables that own a value
    Value,     \* values with Drop (a bound on how many are alive)
    NoValue,   \* zeroed memory
    Fresh,     \* stands for a newly made value as an initializer
    Risky,     \* the constructs of RiskyName that the program may contain
    MaxDefer,  \* MAX_DEFER
    MaxSize,   \* statements of the program (a bound)
    MaxNest    \* open blocks, the function's own included (a bound)

(* Constructs that the generated code mishandles: a break or continue with   *)
(* the label of an outer loop; `expr?`; returning a slice literal;           *)
(* redeclaring a visible name; and assigning to an owner in the C backend.   *)
RiskyName == {"label", "try", "slice", "shadow", "assign"}

ASSUME RiskyAssumption == Risky \subseteq RiskyName
ASSUME ValueAssumption == NoValue \notin Value /\ Fresh \notin Name
ASSUME BoundAssumption == MaxDefer \in Nat /\ MaxSize \in Nat /\ MaxNest \in Nat \ {0, 1}

VARIABLES
    deferStack,  \* ctx->cg.defer_stack, up to defer_count
    stack,       \* activation records of codegen_node_single on the open blocks
    useCpp,      \* ctx->config->use_cpp
    log, pc, size,  \* the events of the outermost open loop, and the next one
    loc,         \* where the execution is, relative to the code generator
    ran,         \* the deferred code that the execution ran in the last step
    cell,        \* the C variables in scope: their __z_drop_flag and their memory
    dead,        \* values in memory that were dropped or given away
    twice,       \* a dead value has been dropped
    lost         \* the last variable with a value that is not dead is gone

codegen == <<deferStack, stack, useCpp>>
program == <<log, pc, size>>
values  == <<cell, dead, twice, lost>>
vars    == <<codegen, program, loc, ran, values>>

-----------------------------------------------------------------------------
(* The code generator's state *)

\* A deferred statement that uses the variable `name` of block `at`, or its drop.
Defer == [kind : {"stmt", "drop"}, at : 1..MaxNest, name : Name]

(* Every frame is a block: `saved` is handle_node_block's, and also the      *)
(* loop_defer_boundary of a loop, whose body opens with the same defer_count. *)
FrameKind == {"params", "fn", "block", "then", "else", "loop"}
Frame == [kind : FrameKind, saved : Nat, vars : SUBSET Name, from : Nat \ {0}]

Depth == Len(stack)
Top == stack[Depth]
TopIs(kinds) == Depth > 0 /\ Top.kind \in kinds
InBody == ~TopIs({"params", "fn"}) /\ Depth > 0
Count == Len(deferStack)

NewFrame(kind, from) == [kind |-> kind, saved |-> Count, vars |-> {}, from |-> from]
Push(f) == Depth < MaxNest /\ stack' = Append(stack, f)
Below == SubSeq(stack, 1, Depth - 1)

\* Mutant: every defer is forgotten at the end of a block.
TrimmedToNone(n) == <<>>

\* ctx->cg.defer_count = saved.
Trimmed(n) == SubSeq(deferStack, 1, n)

\* The loops that contain this place, and the innermost of them.
LoopAt(i) == i \in 1..Depth /\ stack[i].kind = "loop"
Innermost(i) == LoopAt(i) /\ \A j \in i+1..Depth : stack[j].kind # "loop"
InLoop == \E i \in 1..Depth : LoopAt(i)

\* The C variable that a name denotes here.
Visible(n) == \E i \in 1..Depth : n \in stack[i].vars
Denotes(n) == <<CHOOSE i \in 1..Depth : /\ n \in stack[i].vars
                                        /\ \A j \in i+1..Depth : n \notin stack[j].vars,
                n>>

\* Pushing on defer_stack: a full stack takes no more.
Pushed(d) == IF Count < MaxDefer THEN Append(deferStack, d) ELSE deferStack

-----------------------------------------------------------------------------
(* The events of the program *)

Event == ({"param", "defer", "move"} \X Name)
         \cup ({"let", "assign"} \X Name \X (Name \cup {Fresh}))
         \cup ({"break", "continue"} \X Nat)
         \cup ({"return"} \X (Name \cup {"plain", "try", "slice"}))
         \cup {<<e>> : e \in {"body", "open", "if", "else", "close", "loop", "endloop", "end"}}

\* The event is the next one: of the log when a body is run again, else a new one.
Closing == {<<"body">>, <<"close">>, <<"endloop">>, <<"end">>}
Read(event) == IF pc <= Len(log) THEN log[pc] = event /\ size' = size
               ELSE IF event \in Closing THEN size' = size
               ELSE size < MaxSize /\ size' = size + 1
Logged(event) == IF InLoop /\ pc > Len(log) THEN Append(log, event) ELSE log

Step(event) == /\ Read(event)
               /\ log' = Logged(event)
               /\ pc' = IF InLoop THEN pc + 1 ELSE pc

-----------------------------------------------------------------------------
(* The execution is in the text being emitted ("run"), or has left it for    *)
(* the block `at`: it goes on at its else branch ("else"), behind it         *)
(* ("out"), at the next iteration ("next"), or it has returned ("off").      *)

Slot == {"run", "else", "out", "next", "off"}
Running == loc.slot = "run"
At(slot, i) == [slot |-> slot, at |-> i]
Run == At("run", 0)
Off == At("off", 0)
Resumed == IF loc.at = Depth THEN Run ELSE loc

Held(c) == {c[w].val : w \in DOMAIN c} \ {NoValue}
Within(c, d) == [w \in {w \in DOMAIN c : w[1] <= d} |-> c[w]]

\* Memory becomes c, and the values in `gone` are dropped or given away.
Become(c, gone) ==
    /\ cell' = c
    /\ twice' = (twice \/ gone \cap dead # {})
    /\ lost' = (lost \/ ~(Held(cell) \ Held(c) \subseteq dead \cup gone))
    /\ dead' = (dead \cup gone) \cap Held(c)

Idle == ran' = <<>> /\ UNCHANGED values

\* Mutants of emit_defers_down_to: the first registered first; the last one left out.
EmittedInOrder(boundary) == [i \in 1..Count - boundary |-> deferStack[boundary + i]]
EmittedAbove(boundary) == [i \in 1..Count - boundary - 1 |-> deferStack[Count - i + 1]]

\* emit_defers_down_to: what is deferred above `boundary`, last one first.
Emitted(boundary) == [i \in 1..Count - boundary |-> deferStack[Count - i + 1]]

\* The execution runs that text here, with memory c and having given away `given`, and is
\* then in block d.
Resolved(d) == [d EXCEPT !.at = Denotes(d.name)[1]]
Unwind(boundary, c, given, d) ==
    LET text == Emitted(boundary)
        drops == {i \in DOMAIN text : text[i].kind = "drop" /\ c[Denotes(text[i].name)].flag}
        freed == [i \in drops |-> c[Denotes(text[i].name)].val]
        gone == {freed[i] : i \in drops}
    IN /\ ran' = [i \in DOMAIN text |-> Resolved(text[i])]
       /\ cell' = Within(c, d)
       /\ twice' = \/ twice \/ gone \cap (dead \cup given) # {}
                   \/ \E i, j \in drops : i # j /\ freed[i] = freed[j]
       /\ lost' = (lost \/ ~(Held(cell) \ Held(cell') \subseteq dead \cup given \cup gone))
       /\ dead' = (dead \cup given \cup gone) \cap Held(cell')

-----------------------------------------------------------------------------
Init == /\ deferStack = <<>>
        /\ stack = <<[kind |-> "params", saved |-> 0, vars |-> {}, from |-> 1]>>
        /\ useCpp \in BOOLEAN
        /\ log = <<>> /\ pc = 1 /\ size = 0
        /\ loc = Run
        /\ ran = <<>>
        /\ cell = <<>> /\ dead = {} /\ twice = FALSE /\ lost = FALSE

\* The variable n comes into scope with its drop deferred, holding `val` in memory c.
Drop(n) == [kind |-> "drop", at |-> Depth, name |-> n]
Declare(n) == /\ n \notin Top.vars
              /\ "shadow" \in Risky \/ ~Visible(n)
              /\ stack' = [stack EXCEPT ![Depth].vars = @ \cup {n}]
              /\ deferStack' = Pushed(Drop(n))
Holding(c, n, val) ==
    [w \in DOMAIN c \cup {<<Depth, n>>} |->
        IF w = <<Depth, n>> THEN [flag |-> TRUE, val |-> val] ELSE c[w]]

\* Mutant: the flag is not cleared.
MovedFlagKept(n) == cell

\* emit_move_invalidation.
Moved(n) == [cell EXCEPT ![Denotes(n)].flag = FALSE]
CanMove(n) == Visible(n) /\ (Running => cell[Denotes(n)].flag)
NewValue == CHOOSE v \in Value : v \notin Held(cell)
CanMake == Value \ Held(cell) # {}

\* handle_node_function: a parameter with Drop.
Param(n) ==
    /\ TopIs({"params"})
    /\ Step(<<"param", n>>)
    /\ Declare(n)
    /\ CanMake
    /\ Become(Holding(cell, n, NewValue), {})
    /\ ran' = <<>>
    /\ UNCHANGED <<useCpp, loc>>

\* The function's body.
Body ==
    /\ TopIs({"params"})
    /\ Step(<<"body">>)
    /\ stack' = Append([stack EXCEPT ![1].kind = "fn"], NewFrame("block", 1))
    /\ Idle
    /\ UNCHANGED <<deferStack, useCpp, loc>>

\* let n = src: a new value, or the one moved out of another variable.
Let(n, src) ==
    /\ InBody
    /\ Step(<<"let", n, src>>)
    /\ Declare(n)
    /\ src # n
    /\ src # Fresh => CanMove(src)
    /\ IF ~Running THEN UNCHANGED values
       ELSE IF src = Fresh THEN CanMake /\ Become(Holding(cell, n, NewValue), {})
       ELSE Become(Holding(Moved(src), n, cell[Denotes(src)].val), {})
    /\ ran' = <<>>
    /\ UNCHANGED <<useCpp, loc>>

\* n = src: only the C++ backend drops the old value and sets the flag.
Assign(n, src) ==
    /\ InBody
    /\ useCpp \/ "assign" \in Risky
    /\ Step(<<"assign", n, src>>)
    /\ Visible(n) /\ src # n
    /\ src # Fresh => CanMove(src)
    /\ IF ~Running THEN UNCHANGED values
       ELSE /\ src = Fresh => CanMake
            /\ LET w == Denotes(n)
                   val == IF src = Fresh THEN NewValue ELSE cell[Denotes(src)].val
                   from == IF src = Fresh THEN cell ELSE Moved(src)
                   old == IF useCpp /\ cell[w].flag THEN {cell[w].val} ELSE {}
               IN Become([from EXCEPT ![w] = [flag |-> useCpp \/ @.flag, val |-> val]], old)
    /\ ran' = <<>>
    /\ UNCHANGED <<deferStack, stack, useCpp, loc>>

\* n as an argument: codegen_expression_with_move clears its flag, the callee owns it.
Move(n) ==
    /\ InBody
    /\ Step(<<"move", n>>)
    /\ CanMove(n)
    /\ IF Running THEN Become(Moved(n), {cell[Denotes(n)].val}) ELSE UNCHANGED values
    /\ ran' = <<>>
    /\ UNCHANGED <<deferStack, stack, useCpp, loc>>

\* handle_node_defer: a deferred statement that uses the variable n.
DeferStmt(n) ==
    /\ InBody
    /\ Step(<<"defer", n>>)
    /\ Visible(n)
    /\ deferStack' = Pushed([kind |-> "stmt", at |-> Denotes(n)[1], name |-> n])
    /\ Idle
    /\ UNCHANGED <<stack, useCpp, loc>>

-----------------------------------------------------------------------------
(* Blocks.  The branches of `if` and the arms of a match are blocks; while,   *)
(* for and loop emit the same code around theirs (`loop` has fewer executions). *)

OpenBlock ==
    /\ InBody
    /\ Step(<<"open">>)
    /\ Push(NewFrame("block", 1))
    /\ Idle
    /\ UNCHANGED <<deferStack, useCpp, loc>>

If ==
    /\ InBody
    /\ Step(<<"if">>)
    /\ Push(NewFrame("then", 1))
    /\ loc' \in IF Running THEN {Run, At("else", Depth + 1)} ELSE {loc}
    /\ Idle
    /\ UNCHANGED <<deferStack, useCpp>>

Loop ==
    /\ InBody
    /\ Step(<<"loop">>)
    /\ Push(NewFrame("loop", pc'))
    /\ loc' \in IF Running THEN {Run, At("out", Depth + 1)} ELSE {loc}
    /\ Idle
    /\ UNCHANGED <<deferStack, useCpp>>

\* handle_node_block: the end of a block runs its defers and forgets them.
CloseText == IF Running THEN Unwind(Top.saved, cell, {}, Depth - 1) ELSE Idle

Else ==
    /\ TopIs({"then"})
    /\ Step(<<"else">>)
    /\ CloseText
    /\ deferStack' = Trimmed(Top.saved)
    /\ stack' = [stack EXCEPT ![Depth] = [@ EXCEPT !.kind = "else", !.vars = {}]]
    /\ loc' = IF Running THEN At("out", Depth)
              ELSE IF loc = At("else", Depth) THEN Run ELSE loc
    /\ UNCHANGED useCpp

Close ==
    /\ TopIs({"block", "then", "else"})
    /\ Step(<<"close">>)
    /\ CloseText
    /\ deferStack' = Trimmed(Top.saved)
    /\ stack' = Below
    /\ loc' = Resumed
    /\ UNCHANGED useCpp

EndLoop ==
    /\ TopIs({"loop"})
    /\ Read(<<"endloop">>)
    /\ CloseText
    /\ deferStack' = Trimmed(Top.saved)
    /\ stack' = Below
    /\ loc' = IF Running THEN Run ELSE Resumed
    /\ LET nested == \E i \in 1..Depth-1 : LoopAt(i)
       IN /\ log' = IF nested THEN Logged(<<"endloop">>) ELSE <<>>
          /\ pc' = IF nested THEN pc + 1 ELSE 1
    /\ UNCHANGED useCpp

\* The execution runs the body once more.
NextIteration ==
    /\ TopIs({"loop"})
    /\ Running \/ loc = At("next", Depth)
    /\ Read(<<"endloop">>)
    /\ log' = Logged(<<"endloop">>)
    /\ pc' = Top.from
    /\ CloseText
    /\ deferStack' = Trimmed(Top.saved)
    /\ stack' = [stack EXCEPT ![Depth].vars = {}]
    /\ loc' = Run
    /\ UNCHANGED useCpp

-----------------------------------------------------------------------------
(* Jumps *)

\* NODE_BREAK and NODE_CONTINUE emit the defers of the innermost loop, then a jump to the
\* loop they name.
Jump(event, slot, target) ==
    /\ InBody
    /\ Step(<<event, target>>)
    /\ LoopAt(target) /\ ("label" \in Risky \/ Innermost(target))
    /\ \E i \in 1..Depth :
         /\ Innermost(i)
         /\ IF Running THEN Unwind(stack[i].saved, cell, {}, target - 1) ELSE Idle
    /\ loc' = IF Running THEN At(slot, target) ELSE loc
    /\ UNCHANGED codegen

Break(target) == Jump("break", "out", target)
Continue(target) == Jump("continue", "next", target)

\* NODE_RETURN without an owned value: every pending defer.  A slice literal is returned, and
\* `expr?` returns an error, without any.
Return(how) ==
    /\ InBody
    /\ Step(<<"return", how>>)
    /\ how # "plain" => how \in Risky
    /\ IF Running THEN Unwind(IF how = "plain" THEN 0 ELSE Count, cell, {}, 0) ELSE Idle
    /\ loc' = IF Running THEN Off ELSE loc
    /\ UNCHANGED codegen

\* Returning a variable that owns a value: it is zeroed and its flag cleared first.
ReturnVar(n) ==
    /\ InBody
    /\ Step(<<"return", n>>)
    /\ CanMove(n)
    /\ IF Running
       THEN Unwind(0, [cell EXCEPT ![Denotes(n)] = [flag |-> FALSE, val |-> NoValue]],
                   {cell[Denotes(n)].val}, 0)
       ELSE Idle
    /\ loc' = IF Running THEN Off ELSE loc
    /\ UNCHANGED codegen

\* The end of handle_node_function: the drops of the parameters.
End ==
    /\ TopIs({"fn"})
    /\ Step(<<"end">>)
    /\ IF Running THEN Unwind(0, cell, {}, 0) ELSE Idle
    /\ deferStack' = <<>>
    /\ stack' = <<>>
    /\ loc' = Off
    /\ UNCHANGED useCpp

Next ==
    \/ \E n \in Name : Param(n) \/ Move(n) \/ DeferStmt(n) \/ ReturnVar(n)
    \/ \E n \in Name, src \in Name \cup {Fresh} : Let(n, src) \/ Assign(n, src)
    \/ Body \/ OpenBlock \/ If \/ Else \/ Close
    \/ Loop \/ EndLoop \/ NextIteration \/ End
    \/ \E t \in 1..MaxNest : Break(t) \/ Continue(t)
    \/ \E how \in {"plain", "try", "slice"} : Return(how)

Spec == Init /\ [][Next]_vars

-----------------------------------------------------------------------------
(* Properties *)

\* Every variable has its type, and the saved defer counts of the open blocks ascend to the
\* height of the defer stack.
TypeOK ==
    /\ deferStack \in Seq(Defer)
    /\ stack \in Seq(Frame)
    /\ \A i \in 1..Depth : stack[i].saved <= Count
    /\ \A i, j \in 1..Depth : i <= j => stack[i].saved <= stack[j].saved
    /\ useCpp \in BOOLEAN /\ twice \in BOOLEAN /\ lost \in BOOLEAN
    /\ log \in Seq(Event) /\ pc \in Nat \ {0} /\ size \in Nat
    /\ loc \in [slot : Slot, at : Nat]
    /\ ran \in Seq(Defer)
    /\ DOMAIN cell \subseteq (Nat \ {0}) \X Name
    /\ \A w \in DOMAIN cell : cell[w] \in [flag : BOOLEAN, val : Value \cup {NoValue}]
    /\ dead \subseteq Value

\* No value is dropped twice, and none is dropped by a function that gave it away.
NoDoubleDrop == ~twice

\* No value is leaked: the last variable that has it goes away when it was dropped, moved
\* into a call or returned.
NothingLost == ~lost

\* Where the execution is, the defers of the blocks it is in are pending.
Blocks == IF Running THEN Depth ELSE IF loc.slot = "off" THEN 0 ELSE loc.at - 1
Pending == IF Running THEN deferStack
           ELSE IF loc.slot = "off" THEN <<>> ELSE Trimmed(stack[loc.at].saved)
Marks == [i \in 1..Blocks |-> stack[i].saved]

Promise == INSTANCE Scopes WITH pending <- Pending, marks <- Marks

\* The generated code keeps the promise of `defer`: however blocks are left, it runs the
\* deferred code of those blocks and no other, last one first, on the variables it means.
DefersRunOnExit == Promise!Spec
=============================================================================
